--------------------------- MODULE TripMembership ---------------------------
(***************************************************************************)
(* Who owns a trip and who belongs to it: the request handlers of          *)
(* backend/api/src/trips (members.ts, invites.ts, routes.ts) and           *)
(* account/routes.ts, running concurrently against the tables of 0004 and  *)
(* the row-level policies and functions of 0013.                           *)
(*                                                                         *)
(* One trip is modelled: no statement of these handlers reads or locks the *)
(* rows of two trips.  A request is its route gate (requireAuth) followed  *)
(* by one transaction (withUserContext) at READ COMMITTED, PostgreSQL's    *)
(* default:                                                                *)
(*   - a write statement takes its snapshot first (TakeSnapshot), which    *)
(*     fixes what the STABLE policy functions answer and which rows match, *)
(*     and writes later (one action per statement), once no other          *)
(*     transaction holds the row; it then acts on the row as it is by then *)
(*     and on no row if the row has gone meanwhile;                        *)
(*   - the statement that ends a transaction and its COMMIT are one step,  *)
(*     since nothing another transaction could see lies between the two;   *)
(*   - `owner', `member', `invite' and `accounts' are the committed rows;  *)
(*     what a transaction wrote and has not committed is in its request    *)
(*     (promoted, moved) and held back from the others.                    *)
(***************************************************************************)
EXTENDS Naturals, FiniteSets

CONSTANTS
    Users,      \* the people who may use the trip
    Requests,   \* request slots: how many requests run at the same time
    Codes,      \* invite codes that may ever be issued for the trip
    NoOne       \* the null value of a user, request or code

ASSUME ConstantsAssumption ==
    /\ NoOne \notin Users
    /\ NoOne \notin Requests
    /\ NoOne \notin Codes

VARIABLES
    owner,      \* trips.owner_id, NoOne when there is no trips row
    member,     \* trip_members.role of each user, "none" when there is no row
    invite,     \* trip_invites by code
    accounts,   \* the users rows that exist
    lock,       \* the request holding the trip's advisory lock
    req         \* the request in each slot

db == <<owner, member, invite, accounts>>
vars == <<owner, member, invite, accounts, lock, req>>

Roles == {"viewer", "editor", "owner"}
Memberships == Roles \cup {"none"}

\* trip_role_rank; a missing row ranks below every role.
Rank == [m \in Memberships |->
            CASE m = "owner" -> 3 [] m = "editor" -> 2
              [] m = "viewer" -> 1 [] m = "none" -> 0]

PolicyStatements == {"promote", "setOwner", "demote", "changeRole", "deleteMember",
                     "deleteTrip", "insertInvite", "revokeInvite"}
PCs == PolicyStatements \cup
       {"idle", "lockTrip", "readOwner", "readTarget", "roleReadOwner",
        "removeReadOwner", "cascadeTrip", "redeem", "deleteUser",
        "cascadeTrips", "cascadeMembers"}

Idle == [pc |-> "idle", caller |-> NoOne, target |-> NoOne, role |-> "none",
         code |-> NoOne, gate |-> "none", prev |-> NoOne, match |-> "unread",
         promoted |-> FALSE, moved |-> FALSE]

RequestRecord ==
    [pc : PCs,                             \* the statement it runs next
     caller : Users \cup {NoOne},          \* req.user
     target : Users \cup {NoOne},          \* :userId
     role : Memberships,                   \* body.role, or the role of the invite read
     code : Codes \cup {NoOne},
     gate : Memberships,                   \* req.tripRole
     prev : Users \cup {NoOne},            \* prevOwnerId
     match : {"unread", "rows", "norows"}, \* what the statement's snapshot matched
     promoted : BOOLEAN,                   \* its promotion hit the target's row
     moved : BOOLEAN]                      \* its statement hit the trips row

\* Type invariant: the rows are those the CHECK constraints of 0004 and 0013 admit,
\* and every slot holds one request of members.ts, invites.ts, routes.ts or account.
TypeOK ==
    /\ owner \in Users \cup {NoOne}
    /\ member \in [Users -> Memberships]
    /\ invite \in [Codes -> [state : {"unused", "live", "dead"}, role : Memberships,
                             by : Users \cup {NoOne}]]
    /\ accounts \in SUBSET Users
    /\ lock \in Requests \cup {NoOne}
    /\ req \in [Requests -> RequestRecord]

\* A code that cannot be redeemed any more: revoked, expired, or its row deleted.
\* Its role and author are not read again.
Dead == [state |-> "dead", role |-> "none", by |-> NoOne]

\* createTripHandler: the trip and its creator's 'owner' membership are inserted in
\* one transaction, and no other request can name the trip before it commits.
Init ==
    /\ \E u \in Users : /\ owner = u
                        /\ member = [v \in Users |-> IF v = u THEN "owner" ELSE "none"]
    /\ invite = [c \in Codes |-> [state |-> "unused", role |-> "none", by |-> NoOne]]
    /\ accounts = Users
    /\ lock = NoOne
    /\ req = [r \in Requests |-> Idle]

(***************************************************************************)
(* What a statement sees, and the policy helpers of 0013 over it.          *)
(***************************************************************************)
\* Committed rows plus the transaction's own writes.
RoleSeen(r, u) == IF req[r].promoted /\ u = req[r].target THEN "owner" ELSE member[u]
OwnerSeen(r) == IF req[r].pc = "demote" /\ req[r].moved THEN req[r].target ELSE owner

IsTripOwner(r) ==
    \/ req[r].caller \in Users /\ RoleSeen(r, req[r].caller) = "owner"
    \/ OwnerSeen(r) = req[r].caller

IsTripMember(r) ==
    \/ req[r].caller \in Users /\ RoleSeen(r, req[r].caller) # "none"
    \/ IsTripOwner(r)

\* The trips row is visible to the caller (policy trips_select).
TripVisible(r) == owner # NoOne /\ IsTripMember(r)

\* Some row satisfies the WHERE clause and the policy of the statement at req[r].pc.
Matches(r) ==
    LET q == req[r] IN
    CASE q.pc \in {"promote", "changeRole"} -> IsTripOwner(r) /\ RoleSeen(r, q.target) # "none"
      [] q.pc = "demote" -> IsTripOwner(r) /\ RoleSeen(r, q.prev) # "none"
      [] q.pc = "deleteMember" -> /\ IsTripOwner(r) \/ q.target = q.caller
                                  /\ RoleSeen(r, q.target) # "none"
      [] q.pc \in {"setOwner", "deleteTrip"} -> IsTripOwner(r) /\ owner # NoOne
      [] q.pc = "insertInvite" -> IsTripOwner(r)
      [] q.pc = "revokeInvite" -> IsTripOwner(r) /\ invite[q.code].state # "unused"

(***************************************************************************)
(* Locks: held from the write to the end of the transaction.               *)
(***************************************************************************)
\* Requests holding the trip_members row of u.
RowHolders(u) == {q \in Requests : /\ req[q].pc \in {"setOwner", "demote"}
                                   /\ req[q].promoted
                                   /\ req[q].target = u}
\* Requests deleting the trips row, and those holding it for any write.
TripDeleters == {q \in Requests : \/ req[q].pc = "cascadeTrip"
                                  \/ req[q].pc = "cascadeMembers" /\ req[q].moved}
TripHolders == TripDeleters \cup {q \in Requests : req[q].pc = "demote" /\ req[q].moved}
\* Requests deleting the users row of u, and those whose foreign key shares it.
UserDeleters(u) == {q \in Requests : /\ req[q].pc \in {"cascadeTrips", "cascadeMembers"}
                                     /\ req[q].caller = u}
UserSharers(u) == {q \in Requests : /\ req[q].pc = "demote"
                                    /\ req[q].moved
                                    /\ req[q].target = u}

\* The transactions the next step of r has to wait for.
Blockers(r) ==
    LET q == req[r]
        wanted ==
          CASE q.pc = "lockTrip" -> {lock} \ {NoOne}
            [] q.pc = "redeem" -> RowHolders(q.caller) \cup
                 (IF member[q.caller] = "none" THEN TripDeleters \cup UserDeleters(q.caller)
                  ELSE {})
            [] q.pc = "cascadeTrip" -> UNION {RowHolders(u) : u \in Users}
            [] q.pc = "deleteUser" -> UserSharers(q.caller) \cup UserDeleters(q.caller)
            [] q.pc = "cascadeTrips" -> IF owner = q.caller THEN TripHolders ELSE {}
            [] q.pc = "cascadeMembers" -> IF q.moved THEN UNION {RowHolders(u) : u \in Users}
                                          ELSE RowHolders(q.caller)
            [] q.pc \in {"promote", "changeRole", "deleteMember"} -> RowHolders(q.target)
            [] q.pc = "demote" -> RowHolders(q.prev)
            [] q.pc = "setOwner" -> TripHolders \cup UserDeleters(q.target)
            [] q.pc = "deleteTrip" -> TripHolders
            [] q.pc = "insertInvite" -> TripDeleters \cup UserDeleters(q.caller)
            [] OTHER -> {}
    IN  IF q.pc \in PolicyStatements /\ q.match # "rows" THEN {} ELSE wanted \ {r}

\* The write statement at pc may act: its snapshot is taken and its rows are free.
Ready(r, pc) == /\ req[r].pc = pc
                /\ req[r].match # "unread"
                /\ Blockers(r) = {}

(***************************************************************************)
(* How a request moves.                                                    *)
(***************************************************************************)
\* Mutant of Unlock: a session-level advisory lock, never released.
UnlockNever(r) == UNCHANGED lock

\* pg_advisory_xact_lock goes with the transaction.
Unlock(r) == lock' = IF lock = r THEN NoOne ELSE lock

\* The transaction of r ends without having changed a row: a refusal (400, 403,
\* 404, which still COMMITs), a no-op, or a ROLLBACK.
Finish(r) ==
    /\ req' = [req EXCEPT ![r] = Idle]
    /\ Unlock(r)
    /\ UNCHANGED db

Goto(r, pc) ==
    /\ req' = [req EXCEPT ![r].pc = pc, ![r].match = "unread"]
    /\ UNCHANGED <<db, lock>>

\* The trip_members row a statement is about to write.
RowOf(q) == CASE q.pc \in {"promote", "changeRole", "deleteMember"} -> q.target
              [] q.pc = "demote" -> q.prev
              [] OTHER -> NoOne

\* r commits the trip_members rows m.  A statement whose snapshot matched a row
\* that is now deleted finds no row, even if the user joins again before it acts.
CommitMembers(r, m) ==
    LET gone == {u \in Users : member[u] # "none" /\ m[u] = "none"} IN
    /\ member' = m
    /\ req' = [q \in Requests |->
                 IF q = r THEN Idle
                 ELSE IF req[q].match = "rows" /\ RowOf(req[q]) \in gone
                      THEN [req[q] EXCEPT !.match = "norows"]
                      ELSE req[q]]
    /\ Unlock(r)

\* Deleting the trips row takes every membership and invite with it (0004).
DropTrip(r) ==
    /\ CommitMembers(r, [u \in Users |-> "none"])
    /\ owner' = NoOne
    /\ invite' = [c \in Codes |-> IF invite[c].state = "unused" THEN invite[c] ELSE Dead]

\* A write statement starts.
TakeSnapshot(r) ==
    /\ req[r].pc \in PolicyStatements
    /\ req[r].match = "unread"
    /\ req' = [req EXCEPT ![r].match = IF Matches(r) THEN "rows" ELSE "norows"]
    /\ UNCHANGED <<db, lock>>

(***************************************************************************)
(* Ownership transfer: updateMemberHandler with role 'owner'.              *)
(***************************************************************************)
\* Admission of an owner-level route: requireAuth reads the role on the auth pool,
\* before and outside the handler's transaction.
Admit(r, u, new) ==
    /\ req[r].pc = "idle"
    /\ u \in accounts
    /\ req' = [req EXCEPT ![r] = new]
    /\ UNCHANGED <<db, lock>>

RequestTransfer(r, u, t) ==
    /\ member[u] = "owner"
    /\ Admit(r, u, [Idle EXCEPT !.pc = "lockTrip", !.caller = u, !.target = t, !.gate = "owner"])

\* Mutant of LockTrip: transfers are not serialized.
LockTripFree(r) ==
    /\ req[r].pc = "lockTrip"
    /\ lock' = r
    /\ req' = [req EXCEPT ![r].pc = "readOwner"]
    /\ UNCHANGED db

LockTrip(r) ==
    /\ req[r].pc = "lockTrip"
    /\ Blockers(r) = {}
    /\ lock' = r
    /\ req' = [req EXCEPT ![r].pc = "readOwner"]
    /\ UNCHANGED db

ReadOwner(r) ==
    /\ req[r].pc = "readOwner"
    /\ IF TripVisible(r)
       THEN /\ req' = [req EXCEPT ![r].pc = "readTarget", ![r].prev = owner]
            /\ UNCHANGED <<db, lock>>
       ELSE Finish(r)

ReadTarget(r) ==
    /\ req[r].pc = "readTarget"
    /\ IF /\ IsTripMember(r)
          /\ member[req[r].target] # "none"
          /\ req[r].target # req[r].prev
       THEN Goto(r, "promote")
       ELSE Finish(r)

Promote(r) ==
    /\ Ready(r, "promote")
    /\ req' = [req EXCEPT ![r].pc = "setOwner", ![r].match = "unread",
                          ![r].promoted = /\ req[r].match = "rows"
                                          /\ member[req[r].target] # "none"]
    /\ UNCHANGED <<db, lock>>

\* The foreign key refuses an account that is gone: the statement throws.
SetOwner(r) ==
    /\ Ready(r, "setOwner")
    /\ IF req[r].match = "rows" /\ owner # NoOne
       THEN IF req[r].target \in accounts
            THEN /\ req' = [req EXCEPT ![r].pc = "demote", ![r].match = "unread",
                                       ![r].moved = TRUE]
                 /\ UNCHANGED <<db, lock>>
            ELSE Finish(r)
       ELSE Goto(r, "demote")

\* Mutant of Demote: an unmatched promotion goes unnoticed and commits.
DemoteUnasserted(r) ==
    /\ Ready(r, "demote")
    /\ LET q == req[r]
           demoted == q.match = "rows" /\ member[q.prev] # "none"
       IN  /\ CommitMembers(r, [u \in Users |->
                 IF u = q.prev /\ demoted THEN "editor"
                 ELSE IF u = q.target /\ q.promoted THEN "owner" ELSE member[u]])
           /\ owner' = IF q.moved THEN q.target ELSE owner
           /\ UNCHANGED <<invite, accounts>>

\* The previous owner becomes an editor and the handler reads promoted.rows[0]!:
\* without a promoted row that throws, and the transaction rolls back.
Demote(r) ==
    /\ Ready(r, "demote")
    /\ LET q == req[r]
           demoted == q.match = "rows" /\ member[q.prev] # "none"
       IN  IF q.promoted
           THEN /\ CommitMembers(r, [u \in Users |->
                       IF u = q.prev /\ demoted THEN "editor"
                       ELSE IF u = q.target THEN "owner" ELSE member[u]])
                /\ owner' = IF q.moved THEN q.target ELSE owner
                /\ UNCHANGED <<invite, accounts>>
           ELSE Finish(r)

(***************************************************************************)
(* Role change and removal: updateMemberHandler (editor, viewer) and       *)
(* removeMemberHandler.  Neither takes the trip's lock.                    *)
(***************************************************************************)
RequestRoleChange(r, u, t, role) ==
    /\ member[u] = "owner"
    /\ role # "owner"
    /\ Admit(r, u, [Idle EXCEPT !.pc = "roleReadOwner", !.caller = u, !.target = t,
                                !.role = role, !.gate = "owner"])

RoleReadOwner(r) ==
    /\ req[r].pc = "roleReadOwner"
    /\ IF TripVisible(r) /\ req[r].target # owner
       THEN Goto(r, "changeRole")
       ELSE Finish(r)

\* Mutant of ChangeRole: the statement's user and role parameters swapped.
ChangeRoleSwapped(r) ==
    /\ Ready(r, "changeRole")
    /\ LET q == req[r] IN
       IF q.match = "rows" /\ member[q.target] # "none"
       THEN /\ CommitMembers(r, [member EXCEPT ![q.target] = q.caller])
            /\ UNCHANGED <<owner, invite, accounts>>
       ELSE Finish(r)

ChangeRole(r) ==
    /\ Ready(r, "changeRole")
    /\ LET q == req[r] IN
       IF q.match = "rows" /\ member[q.target] # "none"
       THEN /\ CommitMembers(r, [member EXCEPT ![q.target] = q.role])
            /\ UNCHANGED <<owner, invite, accounts>>
       ELSE Finish(r)

\* trips.removeMember is registered at member level: any role passes the gate.
RequestRemoval(r, u, t) ==
    /\ member[u] # "none"
    /\ Admit(r, u, [Idle EXCEPT !.pc = "removeReadOwner", !.caller = u, !.target = t,
                                !.gate = member[u]])

RemoveReadOwner(r) ==
    /\ req[r].pc = "removeReadOwner"
    /\ LET q == req[r]
           isOwner == TripVisible(r) /\ q.target = owner
       IN  IF ~isOwner /\ (q.gate = "owner" \/ q.target = q.caller)
           THEN Goto(r, "deleteMember")
           ELSE Finish(r)

DeleteMember(r) ==
    /\ Ready(r, "deleteMember")
    /\ LET q == req[r] IN
       IF q.match = "rows" /\ member[q.target] # "none"
       THEN /\ CommitMembers(r, [member EXCEPT ![q.target] = "none"])
            /\ UNCHANGED <<owner, invite, accounts>>
       ELSE Finish(r)

(***************************************************************************)
(* deleteTripHandler: the row, then the cascade.                           *)
(***************************************************************************)
RequestDeleteTrip(r, u) ==
    /\ member[u] = "owner"
    /\ Admit(r, u, [Idle EXCEPT !.pc = "deleteTrip", !.caller = u, !.gate = "owner"])

DeleteTrip(r) ==
    /\ Ready(r, "deleteTrip")
    /\ IF req[r].match = "rows" /\ owner # NoOne
       THEN Goto(r, "cascadeTrip")
       ELSE Finish(r)

CascadeTrip(r) ==
    /\ req[r].pc = "cascadeTrip"
    /\ Blockers(r) = {}
    /\ DropTrip(r)
    /\ UNCHANGED accounts

(***************************************************************************)
(* Invites: createInviteHandler, revokeInviteHandler, expiry, joinHandler. *)
(***************************************************************************)
\* Every create draws a fresh random code; an 'owner' invite is refused.
RequestInvite(r, u, role, c) ==
    /\ member[u] = "owner"
    /\ role # "owner"
    /\ invite[c].state = "unused"
    /\ \A q \in Requests : req[q].code # c
    /\ Admit(r, u, [Idle EXCEPT !.pc = "insertInvite", !.caller = u, !.role = role,
                                !.code = c, !.gate = "owner"])

InsertInvite(r) ==
    /\ Ready(r, "insertInvite")
    /\ LET q == req[r] IN
       IF q.match = "rows" /\ owner # NoOne /\ q.caller \in accounts
       THEN /\ invite' = [invite EXCEPT ![q.code] = [state |-> "live", role |-> q.role,
                                                     by |-> q.caller]]
            /\ req' = [req EXCEPT ![r] = Idle]
            /\ UNCHANGED <<owner, member, accounts, lock>>
       ELSE Finish(r)

RequestRevoke(r, u, c) ==
    /\ member[u] = "owner"
    /\ invite[c].state = "live"
    /\ Admit(r, u, [Idle EXCEPT !.pc = "revokeInvite", !.caller = u, !.code = c,
                                !.gate = "owner"])

RevokeInvite(r) ==
    /\ Ready(r, "revokeInvite")
    /\ IF req[r].match = "rows"
       THEN /\ invite' = [invite EXCEPT ![req[r].code] = Dead]
            /\ req' = [req EXCEPT ![r] = Idle]
            /\ UNCHANGED <<owner, member, accounts, lock>>
       ELSE Finish(r)

\* expires_at passes.
Expire(c) ==
    /\ invite[c].state = "live"
    /\ invite' = [invite EXCEPT ![c] = Dead]
    /\ UNCHANGED <<owner, member, accounts, lock, req>>

\* redeem_invite reads the invite (IT404, IT410 otherwise) ...
RequestJoin(r, u, c) ==
    /\ invite[c].state = "live"
    /\ Admit(r, u, [Idle EXCEPT !.pc = "redeem", !.caller = u, !.code = c,
                                !.role = invite[c].role])

\* Mutant of Redeem: a plain ON CONFLICT DO UPDATE SET role = EXCLUDED.role.
RedeemBlind(r) ==
    /\ req[r].pc = "redeem"
    /\ Blockers(r) = {}
    /\ LET q == req[r] IN
       IF owner # NoOne /\ q.caller \in accounts
       THEN /\ CommitMembers(r, [member EXCEPT ![q.caller] = q.role])
            /\ UNCHANGED <<owner, invite, accounts>>
       ELSE Finish(r)

\* Mutant of Redeem: trip_members without its foreign keys.
RedeemUnchecked(r) ==
    /\ req[r].pc = "redeem"
    /\ Blockers(r) = {}
    /\ LET q == req[r] IN
       IF Rank[q.role] > Rank[member[q.caller]]
       THEN /\ CommitMembers(r, [member EXCEPT ![q.caller] = q.role])
            /\ UNCHANGED <<owner, invite, accounts>>
       ELSE Finish(r)

\* ... and upserts the membership later, raising the role only.
Redeem(r) ==
    /\ req[r].pc = "redeem"
    /\ Blockers(r) = {}
    /\ LET q == req[r] IN
       IF owner # NoOne /\ q.caller \in accounts /\ Rank[q.role] > Rank[member[q.caller]]
       THEN /\ CommitMembers(r, [member EXCEPT ![q.caller] = q.role])
            /\ UNCHANGED <<owner, invite, accounts>>
       ELSE Finish(r)

(***************************************************************************)
(* eraseAccountHandler: the users row, then its cascades in the order the  *)
(* foreign keys were created.                                              *)
(***************************************************************************)
RequestErase(r, u) ==
    Admit(r, u, [Idle EXCEPT !.pc = "deleteUser", !.caller = u])

DeleteUser(r) ==
    /\ req[r].pc = "deleteUser"
    /\ Blockers(r) = {}
    /\ IF req[r].caller \in accounts THEN Goto(r, "cascadeTrips") ELSE Finish(r)

CascadeTrips(r) ==
    /\ req[r].pc = "cascadeTrips"
    /\ Blockers(r) = {}
    /\ req' = [req EXCEPT ![r].pc = "cascadeMembers", ![r].moved = (owner = req[r].caller)]
    /\ UNCHANGED <<db, lock>>

CascadeMembers(r) ==
    /\ req[r].pc = "cascadeMembers"
    /\ Blockers(r) = {}
    /\ LET u == req[r].caller IN
       /\ accounts' = accounts \ {u}
       /\ IF req[r].moved
          THEN DropTrip(r)
          ELSE /\ CommitMembers(r, [member EXCEPT ![u] = "none"])
               /\ invite' = [c \in Codes |-> IF invite[c].by = u THEN Dead ELSE invite[c]]
               /\ UNCHANGED owner

(***************************************************************************)
(* Failures.                                                               *)
(***************************************************************************)
\* withUserContext rolls back: the connection or the process fails mid-request.
Fail(r) == req[r].pc # "idle" /\ Finish(r)

\* PostgreSQL aborts a transaction of a set that waits only on itself.
Deadlocked(r) ==
    \E S \in SUBSET Requests :
        /\ r \in S
        /\ \A q \in S : req[q].pc # "idle" /\ Blockers(q) \cap S # {}
DeadlockVictim(r) == Deadlocked(r) /\ Finish(r)

(***************************************************************************)
(* The specification.                                                      *)
(***************************************************************************)
Arrive(r) ==
    \E u \in Users :
        \/ \E t \in Users : \/ RequestTransfer(r, u, t)
                            \/ RequestRemoval(r, u, t)
                            \/ \E role \in Roles : RequestRoleChange(r, u, t, role)
        \/ \E c \in Codes : \/ RequestRevoke(r, u, c)
                            \/ RequestJoin(r, u, c)
                            \/ \E role \in Roles : RequestInvite(r, u, role, c)
        \/ RequestDeleteTrip(r, u)
        \/ RequestErase(r, u)

Step(r) ==
    \/ TakeSnapshot(r)
    \/ LockTrip(r) \/ ReadOwner(r) \/ ReadTarget(r) \/ Promote(r) \/ SetOwner(r) \/ Demote(r)
    \/ RoleReadOwner(r) \/ ChangeRole(r)
    \/ RemoveReadOwner(r) \/ DeleteMember(r)
    \/ DeleteTrip(r) \/ CascadeTrip(r)
    \/ InsertInvite(r) \/ RevokeInvite(r) \/ Redeem(r)
    \/ DeleteUser(r) \/ CascadeTrips(r) \/ CascadeMembers(r)

Next ==
    \/ \E r \in Requests : Arrive(r) \/ Step(r) \/ Fail(r) \/ DeadlockVictim(r)
    \/ \E c \in Codes : Expire(c)

Spec == Init /\ [][Next]_vars

\* Lock queues are first come, first served and the deadlock detector runs; nobody
\* has to send a request, and nothing has to fail.
Fairness == \A r \in Requests : SF_vars(Step(r)) /\ WF_vars(DeadlockVictim(r))
FairSpec == Spec /\ Fairness

(***************************************************************************)
(* Properties.                                                             *)
(***************************************************************************)
\* Whoever holds an 'owner' membership is the user trips.owner_id names: however
\* transfers, role changes, removals, joins and erasures interleave, requireAuth
\* admits nobody else to an owner route, and there are never two owners.
OwnerRowIsNamed == \A u \in Users : member[u] = "owner" => owner = u

\* Foreign keys and cascades: no membership or usable invite outlives the trip, or
\* the account it belongs to, whatever was in flight when the account or the trip
\* was deleted.
NoDanglingRows ==
    /\ owner = NoOne => /\ \A u \in Users : member[u] = "none"
                       /\ \A c \in Codes : invite[c].state # "live"
    /\ \A u \in Users \ accounts :
          /\ member[u] = "none"
          /\ owner # u
          /\ \A c \in Codes : invite[c].state = "live" => invite[c].by # u

\* Ownership moves only as a whole: the commit that changes trips.owner_id gives it
\* to somebody who was a member, makes that membership 'owner', demotes the former
\* owner's 'owner' row to editor, and touches nobody else.
MovesAsAWhole ==
    owner' \in Users =>
        /\ member[owner'] # "none" /\ member'[owner'] = "owner"
        /\ member[owner] = "owner" => member'[owner] = "editor"
        /\ \A u \in Users \ {owner, owner'} : member'[u] = member[u]
TransferIsWhole == [][MovesAsAWhole]_owner

\* Redeeming an invite never lowers anybody's role, the redeemer's least of all:
\* the upgrade-only rule of redeem_invite, against roles that change while it runs.
RaisesOnly == (\E r \in Requests : Redeem(r)) =>
                  \A u \in Users : Rank[member'[u]] >= Rank[member[u]]
JoinOnlyRaises == [][RaisesOnly]_vars

\* Every request ends: a transfer, a deletion and an erasure that block one another
\* are told apart by the deadlock detector, and no lock outlives its transaction.
EveryRequestEnds == \A r \in Requests : req[r].pc # "idle" ~> req[r].pc = "idle"

\* "The owner-is-always-a-member invariant" of routes.ts: trips.owner_id and the
\* 'owner' membership in lockstep.
OwnerIsMember == owner # NoOne => member[owner] = "owner"
=============================================================================
