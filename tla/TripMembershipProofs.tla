------------------------ MODULE TripMembershipProofs ------------------------
(***************************************************************************)
(* Proofs about TripMembership, for any sets of users, requests and codes. *)
(*                                                                         *)
(* The argument.  Only a transfer writes an 'owner' role or moves          *)
(* trips.owner_id, and between reading prevOwnerId and committing it holds *)
(* the trip's advisory lock, so prevOwnerId stays the owner (or the trip   *)
(* is gone).  If its promotion hit a row, its caller was the owner; it     *)
(* then holds the target's row, and the cascades that could delete the     *)
(* trip, the row or the account wait for it.                               *)
(***************************************************************************)
EXTENDS TripMembership, TLAPS

Critical == {"readOwner", "readTarget", "promote", "setOwner", "demote"}

\* A transfer past lockTrip holds the advisory lock.
LockHeld == \A r \in Requests : req[r].pc \in Critical => lock = r

\* No request and no invite carries the role 'owner' to grant.
NoOwnerGranted == /\ \A r \in Requests : req[r].role # "owner"
                  /\ \A c \in Codes : invite[c].role # "owner"

\* A trip that is gone has no members.
GoneIsEmpty == owner = NoOne => \A u \in Users : member[u] = "none"

\* The requests that name a member in their path.
Targeting == Critical \cup {"lockTrip", "roleReadOwner", "changeRole",
                            "removeReadOwner", "deleteMember"}

\* The requests that carry a role to give.
Granting == {"roleReadOwner", "changeRole"}

\* What a request knows of the tables at each of its statements.
RequestInv(q) ==
    /\ q.pc # "idle" => q.caller \in Users
    /\ q.pc \in Targeting => q.target \in Users
    /\ q.pc \in Granting => q.role # "none"
    /\ q.pc \in {"readTarget", "promote", "setOwner", "demote"} =>
         q.prev \in Users /\ owner \in {q.prev, NoOne}
    /\ q.pc \in {"promote", "setOwner", "demote"} => q.target # q.prev
    /\ q.pc = "promote" /\ q.match = "rows" => q.caller = q.prev
    /\ q.promoted =>
         /\ q.pc \in {"setOwner", "demote"}
         /\ q.caller = q.prev /\ owner = q.prev
         /\ member[q.target] # "none"
    /\ q.pc = "setOwner" /\ q.promoted => q.match # "norows"
    /\ q.pc = "demote" /\ q.promoted => q.moved
    /\ q.pc = "demote" /\ q.promoted /\ q.match = "norows" => member[q.prev] # "owner"
    /\ q.moved => q.pc \in {"demote", "cascadeMembers"}

IInv ==
    /\ TypeOK
    /\ OwnerRowIsNamed
    /\ LockHeld
    /\ NoOwnerGranted
    /\ GoneIsEmpty
    /\ \A r \in Requests : RequestInv(req[r])

-----------------------------------------------------------------------------
\* The actions that end a request, and those that only move it on, as primed facts.
USE ConstantsAssumption

\* A free slot is well typed.
LEMMA IdleType == Idle \in RequestRecord
<1>1. "idle" \in PCs /\ "none" \in Memberships
  BY DEF PCs, Memberships
<1>2. QED  BY <1>1 DEF Idle, RequestRecord

\* What a request becomes when it goes on to its next statement.
Keeps(new, q) ==
    /\ new.role = q.role /\ new.caller = q.caller /\ new.target = q.target
    /\ new.prev = q.prev

LEMMA NextStatement ==
    ASSUME NEW q \in RequestRecord, NEW pc \in PCs, NEW new,
           new = [q EXCEPT !.pc = pc, !.match = "unread"]
    PROVE  /\ new \in RequestRecord /\ new.pc = pc /\ new.match = "unread" /\ Keeps(new, q)
           /\ new.promoted = q.promoted /\ new.moved = q.moved
BY DEF RequestRecord, Keeps

\* A request that ends leaves well-typed tables and slots.
LEMMA FinishType ==
    ASSUME TypeOK, NEW r \in Requests, Finish(r)
    PROVE  TypeOK'
<1>1. Idle \in RequestRecord
  BY IdleType
<1>2. req' = [req EXCEPT ![r] = Idle] /\ UNCHANGED <<owner, member, invite, accounts>>
  BY DEF Finish, db
<1>3. req' \in [Requests -> RequestRecord]
  BY <1>1, <1>2 DEF TypeOK
<1>4. lock' \in {lock, NoOne}
  BY DEF Finish, Unlock
<1>5. QED  BY <1>2, <1>3, <1>4 DEF TypeOK

\* So does a request that goes on to its next statement,
LEMMA GotoType ==
    ASSUME TypeOK, NEW r \in Requests, NEW pc \in PCs, Goto(r, pc)
    PROVE  TypeOK'
<1>1. [req[r] EXCEPT !.pc = pc, !.match = "unread"] \in RequestRecord
  BY NextStatement DEF TypeOK
<1>2. req' = [req EXCEPT ![r] = [req[r] EXCEPT !.pc = pc, !.match = "unread"]]
  BY DEF Goto, TypeOK, RequestRecord
<1>3. req' \in [Requests -> RequestRecord]
  BY <1>1, <1>2 DEF TypeOK
<1>4. QED  BY <1>3 DEF TypeOK, Goto, db

\* a commit of memberships,
LEMMA CommitType ==
    ASSUME TypeOK, NEW r \in Requests, NEW m \in [Users -> Memberships],
           CommitMembers(r, m)
    PROVE  /\ member' \in [Users -> Memberships]
           /\ lock' \in Requests \cup {NoOne}
           /\ req' \in [Requests -> RequestRecord]
<1>1. Idle \in RequestRecord
  BY DEF Idle, RequestRecord, PCs, PolicyStatements, Memberships, Roles
<1>2. \A q \in Requests : [req[q] EXCEPT !.match = "norows"] \in RequestRecord
  BY DEF TypeOK, RequestRecord
<1>3. QED  BY <1>1, <1>2 DEF TypeOK, CommitMembers, Unlock

\* and an admission.
LEMMA AdmitType ==
    ASSUME TypeOK, NEW r \in Requests, NEW u, NEW new \in RequestRecord, Admit(r, u, new)
    PROVE  TypeOK'
BY DEF TypeOK, Admit, db

\* A dead code is a well-formed invite row.
LEMMA DropType ==
    ASSUME TypeOK, NEW r \in Requests, DropTrip(r)
    PROVE  /\ member' \in [Users -> Memberships]
           /\ lock' \in Requests \cup {NoOne}
           /\ req' \in [Requests -> RequestRecord]
           /\ owner' = NoOne
           /\ invite' \in [Codes -> [state : {"unused", "live", "dead"}, role : Memberships,
                                     by : Users \cup {NoOne}]]
<1>1. [u \in Users |-> "none"] \in [Users -> Memberships]
  BY DEF Memberships
<1>2. QED  BY <1>1, CommitType DEF DropTrip, Dead, TypeOK, Memberships

\* Every statement of every handler preserves the types.
LEMMA StepType ==
    ASSUME TypeOK, NEW r \in Requests, Step(r)
    PROVE  TypeOK'
<1> USE DEF PCs, PolicyStatements
<1>a. req[r] \in RequestRecord  BY DEF TypeOK
<1>b. DOMAIN req = Requests  BY DEF TypeOK
<1>1. CASE TakeSnapshot(r)
  <2>1. [req[r] EXCEPT !.match = IF Matches(r) THEN "rows" ELSE "norows"] \in RequestRecord
    BY <1>a DEF RequestRecord
  <2>2. req' = [req EXCEPT ![r] = [req[r] EXCEPT !.match = IF Matches(r) THEN "rows" ELSE "norows"]]
    BY <1>1 DEF TakeSnapshot
  <2>3. QED  BY <1>1, <2>1, <2>2 DEF TakeSnapshot, TypeOK, db
<1>2. CASE LockTrip(r)
  BY <1>2, <1>a DEF LockTrip, TypeOK, RequestRecord, db
<1>3. CASE ReadOwner(r)
  <2>1. CASE TripVisible(r)
    <3>1. owner \in Users  BY <2>1 DEF TripVisible, TypeOK
    <3>2. [req[r] EXCEPT !.pc = "readTarget", !.prev = owner] \in RequestRecord
      BY <1>a, <3>1 DEF RequestRecord
    <3>3. req' = [req EXCEPT ![r] = [req[r] EXCEPT !.pc = "readTarget", !.prev = owner]]
      BY <1>3, <2>1, <1>b DEF ReadOwner
    <3>4. QED  BY <1>3, <2>1, <3>2, <3>3 DEF ReadOwner, TypeOK, db
  <2>2. CASE ~TripVisible(r)  BY <1>3, <2>2, FinishType DEF ReadOwner
  <2>3. QED  BY <2>1, <2>2
<1>4. CASE ReadTarget(r)  BY <1>4, FinishType, GotoType DEF ReadTarget
<1>5. CASE Promote(r)
  <2> DEFINE new == [req[r] EXCEPT !.pc = "setOwner", !.match = "unread",
                        !.promoted = req[r].match = "rows" /\ member[req[r].target] # "none"]
  <2>1. new \in RequestRecord  BY <1>a, ZenonT(60) DEF RequestRecord
  <2>2. req' = [req EXCEPT ![r] = new]  BY <1>5, <1>b DEF Promote
  <2> HIDE DEF new
  <2>3. UNCHANGED <<owner, member, invite, accounts, lock>>
    BY <1>5 DEF Promote, db
  <2>4. QED  BY <2>1, <2>2, <2>3 DEF TypeOK
<1>6. CASE SetOwner(r)
  <2> DEFINE new == [req[r] EXCEPT !.pc = "demote", !.match = "unread", !.moved = TRUE]
  <2>1. CASE req[r].match = "rows" /\ owner # NoOne /\ req[r].target \in accounts
    <3>1. new \in RequestRecord  BY <1>a DEF RequestRecord
    <3>2. req' = [req EXCEPT ![r] = new]  BY <1>6, <2>1, <1>b DEF SetOwner
    <3>3. QED  BY <1>6, <2>1, <3>1, <3>2 DEF SetOwner, TypeOK, db
  <2>2. CASE ~(req[r].match = "rows" /\ owner # NoOne /\ req[r].target \in accounts)
    BY <1>6, <2>2, FinishType, GotoType DEF SetOwner
  <2>3. QED  BY <2>1, <2>2
<1>7. CASE Demote(r)
  <2> DEFINE q == req[r]
             m == [u \in Users |-> IF u = q.prev /\ q.match = "rows" /\ member[q.prev] # "none"
                                   THEN "editor"
                                   ELSE IF u = q.target THEN "owner" ELSE member[u]]
  <2>1. m \in [Users -> Memberships]  BY DEF TypeOK, Memberships, Roles
  <2>2. CASE q.promoted
    <3>1. CommitMembers(r, m) /\ owner' = IF q.moved THEN q.target ELSE owner
      BY <1>7, <2>2 DEF Demote
    <3>2. q.target \in Users \cup {NoOne}  BY <1>a DEF RequestRecord
    <3>3. QED  BY <1>7, <2>1, <2>2, <3>1, <3>2, CommitType DEF Demote, TypeOK
  <2>3. CASE ~q.promoted  BY <1>7, <2>3, FinishType DEF Demote
  <2>4. QED  BY <2>2, <2>3
<1>8. CASE RoleReadOwner(r)  BY <1>8, FinishType, GotoType DEF RoleReadOwner
<1>9. CASE ChangeRole(r)
  <2>1. [member EXCEPT ![req[r].target] = req[r].role] \in [Users -> Memberships]
    BY <1>a DEF TypeOK, RequestRecord
  <2>2. QED  BY <1>9, <2>1, FinishType, CommitType DEF ChangeRole, TypeOK
<1>10. CASE RemoveReadOwner(r)  BY <1>10, FinishType, GotoType DEF RemoveReadOwner
<1>11. CASE DeleteMember(r)
  <2>1. [member EXCEPT ![req[r].target] = "none"] \in [Users -> Memberships]
    BY DEF TypeOK, Memberships
  <2>2. QED  BY <1>11, <2>1, FinishType, CommitType DEF DeleteMember, TypeOK
<1>12. CASE DeleteTrip(r)  BY <1>12, FinishType, GotoType DEF DeleteTrip
<1>13. CASE CascadeTrip(r)  BY <1>13, DropType DEF CascadeTrip, TypeOK
<1>14. CASE InsertInvite(r)
  <2>1. Idle \in RequestRecord  BY IdleType
  <2>2. [state |-> "live", role |-> req[r].role, by |-> req[r].caller] \in
          [state : {"unused", "live", "dead"}, role : Memberships, by : Users \cup {NoOne}]
    BY <1>a DEF RequestRecord
  <2>3. QED  BY <1>14, <2>1, <2>2, FinishType DEF InsertInvite, TypeOK
<1>15. CASE RevokeInvite(r)
  <2>1. Idle \in RequestRecord  BY IdleType
  <2>2. QED  BY <1>15, <2>1, FinishType DEF RevokeInvite, TypeOK, Dead, Memberships
<1>16. CASE Redeem(r)
  <2>1. [member EXCEPT ![req[r].caller] = req[r].role] \in [Users -> Memberships]
    BY <1>a DEF TypeOK, RequestRecord
  <2>2. QED  BY <1>16, <2>1, FinishType, CommitType DEF Redeem, TypeOK
<1>17. CASE DeleteUser(r)  BY <1>17, FinishType, GotoType DEF DeleteUser
<1>18. CASE CascadeTrips(r)
  <2> DEFINE new == [req[r] EXCEPT !.pc = "cascadeMembers", !.moved = (owner = req[r].caller)]
  <2>1. new \in RequestRecord  BY <1>a, ZenonT(60) DEF RequestRecord
  <2>2. req' = [req EXCEPT ![r] = new]  BY <1>18, <1>b DEF CascadeTrips
  <2>3. QED  BY <1>18, <2>1, <2>2 DEF CascadeTrips, TypeOK, db
<1>19. CASE CascadeMembers(r)
  <2>1. [member EXCEPT ![req[r].caller] = "none"] \in [Users -> Memberships]
    BY DEF TypeOK, Memberships
  <2>2. accounts' \in SUBSET Users  BY <1>19 DEF CascadeMembers, TypeOK
  <2>3. CASE req[r].moved
    BY <1>19, <2>2, <2>3, DropType DEF CascadeMembers, TypeOK
  <2>4. CASE ~req[r].moved
    <3>1. Dead \in [state : {"unused", "live", "dead"}, role : Memberships, by : Users \cup {NoOne}]
      BY DEF Dead, Memberships
    <3>2. invite' = [c \in Codes |-> IF invite[c].by = req[r].caller THEN Dead ELSE invite[c]]
      BY <1>19, <2>4 DEF CascadeMembers
    <3>3. CommitMembers(r, [member EXCEPT ![req[r].caller] = "none"]) /\ owner' = owner
      BY <1>19, <2>4 DEF CascadeMembers
    <3>4. QED  BY <2>1, <2>2, <3>1, <3>2, <3>3, CommitType DEF TypeOK
  <2>5. QED  BY <2>3, <2>4
<1>20. QED
  BY <1>1, <1>2, <1>3, <1>4, <1>5, <1>6, <1>7, <1>8, <1>9, <1>10, <1>11, <1>12, <1>13, <1>14,
     <1>15, <1>16, <1>17, <1>18, <1>19 DEF Step

-----------------------------------------------------------------------------
\* A step of r that writes no table keeps IInv if it does for r itself.
LEMMA LocalStep ==
    ASSUME IInv, TypeOK', NEW r \in Requests, NEW new \in RequestRecord,
           req' = [req EXCEPT ![r] = new], UNCHANGED <<db, lock>>,
           new.pc \in Critical => lock = r, new.role # "owner", RequestInv(new)
    PROVE  IInv'
<1>1. \A q \in Requests : req'[q] = IF q = r THEN new ELSE req[q]
  BY DEF IInv, TypeOK
<1>2. LockHeld'  BY <1>1 DEF LockHeld, IInv, db
<1>3. NoOwnerGranted'  BY <1>1 DEF NoOwnerGranted, IInv, db
<1>4. \A q \in Requests : RequestInv(req[q])'
  BY <1>1 DEF RequestInv, IInv, db
<1>5. QED  BY <1>2, <1>3, <1>4 DEF IInv, OwnerRowIsNamed, GoneIsEmpty, db

\* An empty slot satisfies everything asked of a request.
LEMMA IdleFacts ==
    /\ Idle \in RequestRecord
    /\ Idle.pc = "idle" /\ Idle.role = "none"
    /\ RequestInv(Idle)
BY DEF Targeting, Granting, Critical, Idle, RequestRecord, PCs, PolicyStatements, Memberships, Roles,
   RequestInv

\* A request that ends without a write frees the lock only if it held it.
LEMMA FinishStep ==
    ASSUME IInv, NEW r \in Requests, Finish(r)
    PROVE  IInv'
<1>0. TypeOK'  BY FinishType DEF IInv
<1>1. \A q \in Requests : req'[q] = IF q = r THEN Idle ELSE req[q]
  BY DEF IInv, TypeOK, Finish
<1>2. LockHeld'  BY <1>1, IdleFacts DEF LockHeld, IInv, Finish, Unlock, Critical
<1>3. NoOwnerGranted'  BY <1>1, IdleFacts DEF NoOwnerGranted, IInv, Finish, db
<1>4. \A q \in Requests : RequestInv(req[q])'
  BY <1>1, IdleFacts DEF RequestInv, IInv, Finish, db
<1>5. QED  BY <1>0, <1>2, <1>3, <1>4 DEF IInv, OwnerRowIsNamed, GoneIsEmpty, Finish, db

\* What CommitMembers does to the other requests: at most, it unmatches their row.
LEMMA CommitOthers ==
    ASSUME TypeOK, NEW r \in Requests, NEW m \in [Users -> Memberships],
           CommitMembers(r, m), NEW q \in Requests, q # r
    PROVE  /\ req'[q].pc = req[q].pc /\ req'[q].caller = req[q].caller
           /\ req'[q].target = req[q].target /\ req'[q].role = req[q].role
           /\ req'[q].prev = req[q].prev /\ req'[q].promoted = req[q].promoted
           /\ req'[q].moved = req[q].moved
           /\ \/ req'[q].match = req[q].match
              \/ /\ req'[q].match = "norows" /\ req[q].match = "rows"
                 /\ RowOf(req[q]) \in Users /\ m[RowOf(req[q])] = "none"
<1>1. req[q] \in RequestRecord  BY DEF TypeOK
<1>2. \/ req'[q] = req[q]
      \/ /\ req'[q] = [req[q] EXCEPT !.match = "norows"] /\ req[q].match = "rows"
         /\ RowOf(req[q]) \in Users /\ m[RowOf(req[q])] = "none"
  BY DEF CommitMembers, TypeOK
<1>3. QED  BY <1>1, <1>2 DEF RequestRecord

\* LockHeld and the granted roles survive any commit of memberships.
LEMMA CommitLock ==
    ASSUME IInv, NEW r \in Requests, NEW m \in [Users -> Memberships], CommitMembers(r, m)
    PROVE  LockHeld' /\ \A q \in Requests : req'[q].role # "owner"
<1>1. req'[r] = Idle /\ lock' = IF lock = r THEN NoOne ELSE lock
  BY DEF CommitMembers, Unlock, IInv, TypeOK
<1>2. \A q \in Requests : q # r => req'[q].pc = req[q].pc /\ req'[q].role = req[q].role
  BY CommitOthers DEF IInv
<1>3. LockHeld'  BY <1>1, <1>2, IdleFacts DEF LockHeld, IInv, Critical
<1>4. QED  BY <1>1, <1>2, <1>3, IdleFacts DEF IInv, NoOwnerGranted

\* Committing one membership row that is not 'owner' keeps IInv, if a row that is
\* deleted is not the promoted row of a transfer.
LEMMA MemberWrite ==
    ASSUME IInv, TypeOK', NEW r \in Requests, NEW x \in Users,
           NEW role \in Memberships, role # "owner",
           CommitMembers(r, [member EXCEPT ![x] = role]), owner' = owner,
           \A c \in Codes : invite'[c].role # "owner",
           role # "none" => owner # NoOne,
           role = "none" => RowHolders(x) \subseteq {r}
    PROVE  IInv'
<1> DEFINE m == [member EXCEPT ![x] = role]
<1>1. m \in [Users -> Memberships] /\ CommitMembers(r, m)  BY DEF IInv, TypeOK
<1>2. member' = m /\ req'[r] = Idle  BY <1>1 DEF CommitMembers, IInv, TypeOK
<1>3. \A u \in Users : m[u] = IF u = x THEN role ELSE member[u]  BY DEF IInv, TypeOK
<1> HIDE DEF m
<1>4. OwnerRowIsNamed' /\ GoneIsEmpty'
  BY <1>2, <1>3 DEF OwnerRowIsNamed, GoneIsEmpty, IInv
<1>5. LockHeld' /\ NoOwnerGranted'
  BY <1>1, CommitLock DEF NoOwnerGranted
<1>6. ASSUME NEW q \in Requests  PROVE RequestInv(req[q])'
  <2>1. CASE q = r  BY <1>2, <2>1, IdleFacts DEF RequestInv, Idle
  <2>2. CASE q # r
    <3>1. RequestInv(req[q]) /\ req[q] \in RequestRecord  BY DEF IInv, TypeOK
    <3>2. req[q].promoted /\ req[q].target = x => role # "none"
      BY <2>2, <3>1 DEF RowHolders, RequestInv
    <3>3. req[q].promoted => req[q].target \in Users /\ m[req[q].target] # "none"
      BY <3>1, <3>2, <1>3 DEF RequestInv, Targeting, Granting, Critical
    <3>4. req[q].pc = "setOwner" => RowOf(req[q]) = NoOne  BY DEF RowOf
    <3>5. req[q].pc = "demote" => RowOf(req[q]) = req[q].prev  BY DEF RowOf
    <3>6. \A u \in Users : m[u] = "owner" => member[u] = "owner"  BY <1>3
    <3>7. /\ req'[q].pc = req[q].pc /\ req'[q].caller = req[q].caller
          /\ req'[q].target = req[q].target /\ req'[q].role = req[q].role
          /\ req'[q].prev = req[q].prev /\ req'[q].promoted = req[q].promoted
          /\ req'[q].moved = req[q].moved
          /\ \/ req'[q].match = req[q].match
             \/ /\ req'[q].match = "norows" /\ req[q].match = "rows"
                /\ RowOf(req[q]) \in Users /\ m[RowOf(req[q])] = "none"
      BY <1>1, <2>2, CommitOthers DEF IInv
    <3>8. QED  BY <3>1, <3>3, <3>4, <3>5, <3>6, <3>7, <1>2 DEF RequestInv
  <2>3. QED  BY <2>1, <2>2
<1>7. QED  BY <1>4, <1>5, <1>6 DEF IInv

\* The cascade that deletes the trip waits for every transfer that promoted somebody.
LEMMA DropWrite ==
    ASSUME IInv, TypeOK', NEW r \in Requests, DropTrip(r),
           \A u \in Users : RowHolders(u) \subseteq {r}
    PROVE  IInv'
<1> DEFINE m == [u \in Users |-> "none"]
<1>1. m \in [Users -> Memberships]  BY DEF Memberships
<1>2. member' = m /\ owner' = NoOne /\ req'[r] = Idle
  BY DEF DropTrip, CommitMembers, IInv, TypeOK
<1>3. OwnerRowIsNamed' /\ GoneIsEmpty'  BY <1>2 DEF OwnerRowIsNamed, GoneIsEmpty
<1>4. \A c \in Codes : invite'[c].role # "owner"
  BY DEF DropTrip, Dead, IInv, NoOwnerGranted
<1>5. CommitMembers(r, m)  BY DEF DropTrip
<1>6. LockHeld' /\ NoOwnerGranted'
  BY <1>1, <1>4, <1>5, CommitLock DEF NoOwnerGranted
<1>7. ASSUME NEW q \in Requests  PROVE RequestInv(req[q])'
  <2>1. CASE q = r  BY <1>2, <2>1, IdleFacts DEF RequestInv, Idle
  <2>2. CASE q # r
    <3>1. RequestInv(req[q]) /\ req[q] \in RequestRecord  BY DEF IInv, TypeOK
    <3>2. ~req[q].promoted  BY <2>2, <3>1 DEF RowHolders, RequestInv, Targeting, Granting, Critical
    <3>3. /\ req'[q].pc = req[q].pc /\ req'[q].caller = req[q].caller
          /\ req'[q].target = req[q].target /\ req'[q].role = req[q].role
          /\ req'[q].prev = req[q].prev /\ req'[q].promoted = req[q].promoted
          /\ req'[q].moved = req[q].moved
          /\ req'[q].match = req[q].match \/ req'[q].match = "norows"
      BY <1>1, <1>5, <2>2, CommitOthers DEF IInv
    <3>4. QED  BY <3>1, <3>2, <3>3, <1>2 DEF RequestInv
  <2>3. QED  BY <2>1, <2>2
<1>8. QED  BY <1>3, <1>6, <1>7 DEF IInv

-----------------------------------------------------------------------------
\* The statement a request starts with.
FirstPCs == {"lockTrip", "roleReadOwner", "removeReadOwner", "deleteTrip", "insertInvite",
             "revokeInvite", "redeem", "deleteUser"}

\* A request that has just arrived: it has read nothing and grants no ownership.
Fresh(new) ==
    /\ new \in RequestRecord
    /\ new.pc \in FirstPCs /\ ~new.promoted /\ ~new.moved
    /\ new.role # "owner" /\ new.caller \in Users
    /\ new.pc \in Targeting => new.target \in Users
    /\ new.pc \in Granting => new.role # "none"

\* Every arrival admits a fresh request.
LEMMA ArrivesFresh ==
    ASSUME IInv, NEW r \in Requests, Arrive(r)
    PROVE  \E u \in Users, new \in RequestRecord : Fresh(new) /\ Admit(r, u, new)
<1> DEFINE Goal == \E u \in Users, new \in RequestRecord : Fresh(new) /\ Admit(r, u, new)
<1>0. ASSUME NEW u \in Users, NEW new, Fresh(new), Admit(r, u, new)  PROVE Goal
  BY <1>0 DEF Fresh
<1> HIDE DEF Goal
<1>1. ASSUME NEW u \in Users, NEW t \in Users, RequestTransfer(r, u, t)
      PROVE  Goal
  <2> DEFINE new == [Idle EXCEPT !.pc = "lockTrip", !.caller = u, !.target = t, !.gate = "owner"]
  <2>1. Fresh(new)
    BY <1>1 DEF RequestTransfer, Idle, RequestRecord, PCs, PolicyStatements, Memberships, Roles,
                 Fresh, FirstPCs, Critical, Targeting, Granting
  <2>2. Admit(r, u, new)  BY <1>1 DEF RequestTransfer
  <2>3. QED  BY <2>1, <2>2, <1>0
<1>2. ASSUME NEW u \in Users, NEW t \in Users, RequestRemoval(r, u, t)
      PROVE  Goal
  <2> DEFINE new == [Idle EXCEPT !.pc = "removeReadOwner", !.caller = u, !.target = t,
                                   !.gate = member[u]]
  <2>1. Fresh(new)
    BY <1>2 DEF RequestRemoval, Idle, RequestRecord, PCs, PolicyStatements, Memberships, Roles,
                 Fresh, FirstPCs, Critical, Targeting, Granting, IInv, TypeOK
  <2>2. Admit(r, u, new)  BY <1>2 DEF RequestRemoval
  <2>3. QED  BY <2>1, <2>2, <1>0
<1>3. ASSUME NEW u \in Users, NEW t \in Users, NEW role \in Roles, RequestRoleChange(r, u, t, role)
      PROVE  Goal
  <2> DEFINE new == [Idle EXCEPT !.pc = "roleReadOwner", !.caller = u, !.target = t,
                                   !.role = role, !.gate = "owner"]
  <2>1. Fresh(new)
    BY <1>3 DEF RequestRoleChange, Idle, RequestRecord, PCs, PolicyStatements, Memberships, Roles,
                 Fresh, FirstPCs, Critical, Targeting, Granting
  <2>2. Admit(r, u, new)  BY <1>3 DEF RequestRoleChange
  <2>3. QED  BY <2>1, <2>2, <1>0
<1>4. ASSUME NEW u \in Users, NEW c \in Codes, RequestRevoke(r, u, c)
      PROVE  Goal
  <2> DEFINE new == [Idle EXCEPT !.pc = "revokeInvite", !.caller = u, !.code = c,
                                   !.gate = "owner"]
  <2>1. Fresh(new)
    BY <1>4 DEF RequestRevoke, Idle, RequestRecord, PCs, PolicyStatements, Memberships, Roles,
                 Fresh, FirstPCs, Critical, Targeting, Granting
  <2>2. Admit(r, u, new)  BY <1>4 DEF RequestRevoke
  <2>3. QED  BY <2>1, <2>2, <1>0
<1>5. ASSUME NEW u \in Users, NEW c \in Codes, RequestJoin(r, u, c)
      PROVE  Goal
  <2> DEFINE new == [Idle EXCEPT !.pc = "redeem", !.caller = u, !.code = c, !.role = invite[c].role]
  <2>1. Fresh(new)
    BY <1>5 DEF RequestJoin, Idle, RequestRecord, PCs, PolicyStatements, Memberships, Roles,
                 Fresh, FirstPCs, Critical, Targeting, Granting, IInv, TypeOK, NoOwnerGranted
  <2>2. Admit(r, u, new)  BY <1>5 DEF RequestJoin
  <2>3. QED  BY <2>1, <2>2, <1>0
<1>6. ASSUME NEW u \in Users, NEW c \in Codes, NEW role \in Roles, RequestInvite(r, u, role, c)
      PROVE  Goal
  <2> DEFINE new == [Idle EXCEPT !.pc = "insertInvite", !.caller = u, !.role = role,
                                   !.code = c, !.gate = "owner"]
  <2>1. Fresh(new)
    BY <1>6 DEF RequestInvite, Idle, RequestRecord, PCs, PolicyStatements, Memberships, Roles,
                 Fresh, FirstPCs, Critical, Targeting, Granting
  <2>2. Admit(r, u, new)  BY <1>6 DEF RequestInvite
  <2>3. QED  BY <2>1, <2>2, <1>0
<1>7. ASSUME NEW u \in Users, RequestDeleteTrip(r, u)
      PROVE  Goal
  <2> DEFINE new == [Idle EXCEPT !.pc = "deleteTrip", !.caller = u, !.gate = "owner"]
  <2>1. Fresh(new)
    BY <1>7 DEF RequestDeleteTrip, Idle, RequestRecord, PCs, PolicyStatements, Memberships, Roles,
                 Fresh, FirstPCs, Critical, Targeting, Granting
  <2>2. Admit(r, u, new)  BY <1>7 DEF RequestDeleteTrip
  <2>3. QED  BY <2>1, <2>2, <1>0
<1>8. ASSUME NEW u \in Users, RequestErase(r, u)
      PROVE  Goal
  <2> DEFINE new == [Idle EXCEPT !.pc = "deleteUser", !.caller = u]
  <2>1. Fresh(new)
    BY <1>8 DEF RequestErase, Idle, RequestRecord, PCs, PolicyStatements, Memberships, Roles,
                 Fresh, FirstPCs, Critical, Targeting, Granting
  <2>2. Admit(r, u, new)  BY <1>8 DEF RequestErase
  <2>3. QED  BY <2>1, <2>2, <1>0
<1>9. QED  BY <1>1, <1>2, <1>3, <1>4, <1>5, <1>6, <1>7, <1>8 DEF Arrive, Goal

\* Every arrival keeps IInv.
LEMMA ArriveStep ==
    ASSUME IInv, NEW r \in Requests, Arrive(r)
    PROVE  IInv'
<1>1. PICK u \in Users, new \in RequestRecord : Fresh(new) /\ Admit(r, u, new)
  BY ArrivesFresh
<1>2. TypeOK'  BY <1>1, AdmitType DEF IInv
<1>3. RequestInv(new) /\ new.pc \notin Critical
  BY <1>1 DEF Fresh, FirstPCs, RequestInv, Critical
<1>4. QED  BY <1>1, <1>2, <1>3, LocalStep DEF Admit, Fresh

\* A statement of r that goes on to a statement outside the transfer keeps IInv.
LEMMA GotoStep ==
    ASSUME IInv, NEW r \in Requests, NEW pc \in PCs, Goto(r, pc),
           pc \notin Critical, req[r].pc # "idle",
           pc \in Targeting => req[r].pc \in Targeting,
           pc \in Granting => req[r].pc \in Granting,
           ~req[r].promoted, ~req[r].moved
    PROVE  IInv'
<1> DEFINE new == [req[r] EXCEPT !.pc = pc, !.match = "unread"]
<1>1. req[r] \in RequestRecord /\ TypeOK' /\ req[r].role # "owner"
  BY GotoType DEF IInv, TypeOK, NoOwnerGranted
<1>2. req' = [req EXCEPT ![r] = new]  BY <1>1 DEF Goto, IInv, TypeOK, RequestRecord
<1>3. /\ new \in RequestRecord /\ new.pc = pc /\ new.promoted = req[r].promoted
      /\ new.moved = req[r].moved /\ new.role = req[r].role
      /\ new.caller = req[r].caller /\ new.target = req[r].target
  BY <1>1 DEF RequestRecord
<1> HIDE DEF new
<1>4. RequestInv(req[r])  BY DEF IInv
<1>5. RequestInv(new)  BY <1>3, <1>4 DEF RequestInv, Critical
<1>6. QED  BY <1>1, <1>2, <1>3, <1>5, LocalStep DEF Goto

\* The snapshot of a transfer's statement: only the owner's promotion matches, and
\* once it hit a row the later statements of the same transaction match theirs.
LEMMA SnapshotStep ==
    ASSUME IInv, NEW r \in Requests, TakeSnapshot(r)
    PROVE  IInv'
<1> DEFINE q == req[r]
           new == [q EXCEPT !.match = IF Matches(r) THEN "rows" ELSE "norows"]
<1>1. TypeOK'  BY StepType DEF IInv, Step
<1>2. RequestInv(q) /\ q \in RequestRecord /\ q.role # "owner"
  BY DEF IInv, TypeOK, NoOwnerGranted
<1>3. /\ req' = [req EXCEPT ![r] = new] /\ UNCHANGED <<db, lock>>
      /\ q.pc \in PolicyStatements
  BY DEF TakeSnapshot
<1>4. /\ new \in RequestRecord /\ new.pc = q.pc /\ new.role = q.role
      /\ new.caller = q.caller /\ new.target = q.target /\ new.prev = q.prev
      /\ new.promoted = q.promoted /\ new.moved = q.moved
      /\ new.match = IF Matches(r) THEN "rows" ELSE "norows"
  BY <1>2 DEF RequestRecord
<1>5. q.pc = "promote" /\ Matches(r) => q.caller = q.prev
  <2>1. SUFFICES ASSUME q.pc = "promote", Matches(r)  PROVE q.caller = q.prev
    OBVIOUS
  <2>2. ~q.promoted /\ q.target \in Users /\ q.caller \in Users
    BY <1>2, <2>1 DEF RequestInv, Targeting, Granting, Critical
  <2>3. IsTripOwner(r) /\ member[q.target] # "none"
    BY <2>1, <2>2 DEF Matches, RoleSeen
  <2>4. owner = q.caller
    BY <2>1, <2>2, <2>3 DEF IsTripOwner, RoleSeen, OwnerSeen, IInv, OwnerRowIsNamed
  <2>5. QED  BY <1>2, <2>1, <2>2, <2>3, <2>4 DEF RequestInv, IInv, GoneIsEmpty
<1>6. q.pc = "setOwner" /\ q.promoted => Matches(r)
  <2>1. SUFFICES ASSUME q.pc = "setOwner", q.promoted  PROVE Matches(r)
    OBVIOUS
  <2>2. owner = q.caller /\ owner # NoOne
    BY <1>2, <2>1 DEF RequestInv
  <2>3. IsTripOwner(r)  BY <2>1, <2>2 DEF IsTripOwner, OwnerSeen
  <2>4. QED  BY <2>1, <2>2, <2>3 DEF Matches
<1>7. q.pc = "demote" /\ q.promoted /\ member[q.prev] = "owner" => Matches(r)
  <2>1. SUFFICES ASSUME q.pc = "demote", q.promoted, member[q.prev] = "owner"
                 PROVE  Matches(r)
    OBVIOUS
  <2>2. RoleSeen(r, q.prev) = "owner" /\ q.caller = q.prev /\ q.caller \in Users
    BY <1>2, <2>1 DEF RequestInv, RoleSeen
  <2>3. IsTripOwner(r)  BY <2>2 DEF IsTripOwner
  <2>4. QED  BY <2>1, <2>2, <2>3 DEF Matches
<1> HIDE DEF new
<1>8. RequestInv(new)  BY <1>2, <1>4, <1>5, <1>6, <1>7 DEF RequestInv
<1>9. new.pc \in Critical => lock = r  BY <1>4 DEF IInv, LockHeld
<1>10. QED  BY <1>1, <1>2, <1>3, <1>4, <1>8, <1>9, LocalStep

\* What the statements that wait outside a policy check wait for.
LEMMA BlockersAt ==
    ASSUME NEW r \in Requests, Blockers(r) = {}
    PROVE  /\ req[r].pc = "lockTrip" => lock \in {NoOne, r}
           /\ req[r].pc = "cascadeTrip" => \A u \in Users : RowHolders(u) \subseteq {r}
           /\ req[r].pc = "cascadeMembers" =>
                IF req[r].moved THEN \A u \in Users : RowHolders(u) \subseteq {r}
                                ELSE RowHolders(req[r].caller) \subseteq {r}
           /\ req[r].pc = "deleteMember" /\ req[r].match = "rows" =>
                RowHolders(req[r].target) \subseteq {r}
           /\ req[r].pc = "setOwner" /\ req[r].match = "rows" =>
                UserDeleters(req[r].target) \subseteq {r}
           /\ req[r].pc = "deleteUser" => UserSharers(req[r].caller) \subseteq {r}
<1>1. CASE req[r].pc = "lockTrip"
  <2>1. Blockers(r) = ({lock} \ {NoOne}) \ {r}
    BY <1>1 DEF Blockers, PolicyStatements
  <2>2. QED  BY <1>1, <2>1
<1>2. CASE req[r].pc = "cascadeTrip"
  <2>1. Blockers(r) = (UNION {RowHolders(u) : u \in Users}) \ {r}
    BY <1>2 DEF Blockers, PolicyStatements
  <2>2. QED  BY <1>2, <2>1
<1>3. CASE req[r].pc = "cascadeMembers"
  <2>1. Blockers(r) = (IF req[r].moved THEN UNION {RowHolders(u) : u \in Users}
                       ELSE RowHolders(req[r].caller)) \ {r}
    BY <1>3 DEF Blockers, PolicyStatements
  <2>2. QED  BY <1>3, <2>1
<1>4. CASE req[r].pc = "deleteMember" /\ req[r].match = "rows"
  <2>1. Blockers(r) = RowHolders(req[r].target) \ {r}
    BY <1>4 DEF Blockers, PolicyStatements
  <2>2. QED  BY <1>4, <2>1
<1>5. CASE req[r].pc = "setOwner" /\ req[r].match = "rows"
  <2>1. Blockers(r) = (TripHolders \cup UserDeleters(req[r].target)) \ {r}
    BY <1>5 DEF Blockers, PolicyStatements
  <2>2. QED  BY <1>5, <2>1
<1>6. CASE req[r].pc = "deleteUser"
  <2>1. Blockers(r) = (UserSharers(req[r].caller) \cup UserDeleters(req[r].caller)) \ {r}
    BY <1>6 DEF Blockers, PolicyStatements
  <2>2. QED  BY <1>6, <2>1
<1>7. QED  BY <1>1, <1>2, <1>3, <1>4, <1>5, <1>6

\* Taking the advisory lock: nobody else is inside a transfer.
LEMMA LockStep ==
    ASSUME IInv, NEW r \in Requests, LockTrip(r)
    PROVE  IInv'
<1>1. TypeOK'  BY StepType DEF IInv, Step
<1>2. RequestInv(req[r]) /\ req[r] \in RequestRecord /\ req[r].role # "owner"
  BY DEF IInv, TypeOK, NoOwnerGranted
<1> DEFINE new == [req[r] EXCEPT !.pc = "readOwner"]
<1>3. \A q \in Requests : req'[q] = IF q = r THEN new ELSE req[q]
  BY DEF LockTrip, IInv, TypeOK
<1>4. /\ new.pc = "readOwner" /\ new.role = req[r].role
      /\ new.caller = req[r].caller /\ new.target = req[r].target
      /\ new.promoted = req[r].promoted /\ new.moved = req[r].moved
  BY <1>2 DEF RequestRecord
<1> HIDE DEF new
<1>5. req[r].pc = "lockTrip" /\ lock \in {NoOne, r} /\ lock' = r /\ UNCHANGED db
  BY BlockersAt DEF LockTrip
<1>6. LockHeld'  BY <1>3, <1>5 DEF LockHeld, IInv
<1>7. NoOwnerGranted'  BY <1>2, <1>3, <1>4, <1>5 DEF NoOwnerGranted, IInv, db
<1>8. RequestInv(new)  BY <1>2, <1>4, <1>5 DEF RequestInv, Targeting, Granting, Critical
<1>9. \A q \in Requests : RequestInv(req[q])'
  BY <1>3, <1>5, <1>8 DEF RequestInv, IInv, db
<1>10. QED  BY <1>1, <1>5, <1>6, <1>7, <1>9 DEF IInv, OwnerRowIsNamed, GoneIsEmpty, db

\* The statements of a transfer between its lock and its commit.
LEMMA TransferStep ==
    ASSUME IInv, TypeOK', NEW r \in Requests,
           ReadOwner(r) \/ ReadTarget(r) \/ Promote(r) \/ SetOwner(r)
    PROVE  IInv'
<1> DEFINE q == req[r]
<1>1. RequestInv(q) /\ q \in RequestRecord /\ q.role # "owner"
  BY DEF IInv, TypeOK, NoOwnerGranted
<1>2. q.pc \in Critical => lock = r  BY DEF IInv, LockHeld
<1>3. CASE ReadOwner(r)
  <2>1. CASE ~TripVisible(r)  BY <1>3, <2>1, FinishStep DEF ReadOwner
  <2>2. CASE TripVisible(r)
    <3> DEFINE new == [q EXCEPT !.pc = "readTarget", !.prev = owner]
    <3>1. owner \in Users  BY <2>2 DEF TripVisible, IInv, TypeOK
    <3>2. req' = [req EXCEPT ![r] = new] /\ UNCHANGED <<db, lock>> /\ q.pc = "readOwner"
      BY <1>1, <1>3, <2>2 DEF ReadOwner, RequestRecord, IInv, TypeOK
    <3>3. /\ new \in RequestRecord /\ new.pc = "readTarget" /\ new.prev = owner
          /\ new.role = q.role /\ new.caller = q.caller /\ new.target = q.target
          /\ new.promoted = q.promoted /\ new.moved = q.moved
      BY <1>1, <3>1 DEF RequestRecord, PCs
    <3> HIDE DEF new
    <3>4. RequestInv(new)  BY <1>1, <3>1, <3>2, <3>3 DEF RequestInv, Targeting, Granting, Critical
    <3>5. QED  BY <1>1, <1>2, <3>2, <3>3, <3>4, LocalStep DEF Critical
  <2>3. QED  BY <2>1, <2>2
<1>4. CASE ReadTarget(r)
  <2>1. CASE Finish(r)  BY <2>1, FinishStep
  <2>2. CASE Goto(r, "promote") /\ q.target # q.prev
    <3> DEFINE new == [q EXCEPT !.pc = "promote", !.match = "unread"]
    <3>1. req' = [req EXCEPT ![r] = new] /\ UNCHANGED <<db, lock>> /\ q.pc = "readTarget"
      BY <1>1, <1>4, <2>2 DEF ReadTarget, Goto, RequestRecord, IInv, TypeOK
    <3>2. /\ new \in RequestRecord /\ new.pc = "promote" /\ new.match = "unread"
          /\ new.prev = q.prev
          /\ new.role = q.role /\ new.caller = q.caller /\ new.target = q.target
          /\ new.promoted = q.promoted /\ new.moved = q.moved
      BY <1>1 DEF RequestRecord, PCs, PolicyStatements
    <3> HIDE DEF new
    <3>3. RequestInv(new)  BY <1>1, <2>2, <3>1, <3>2 DEF RequestInv, Targeting, Granting, Critical
    <3>4. QED  BY <1>1, <1>2, <3>1, <3>2, <3>3, LocalStep DEF Critical
  <2>3. QED  BY <1>4, <2>1, <2>2 DEF ReadTarget
<1>5. CASE Promote(r)
  <2> DEFINE hit == q.match = "rows" /\ member[q.target] # "none"
             new == [q EXCEPT !.pc = "setOwner", !.match = "unread", !.promoted = hit]
  <2>1. req' = [req EXCEPT ![r] = new] /\ UNCHANGED <<db, lock>> /\ q.pc = "promote"
    BY <1>1, <1>5 DEF Promote, Ready, RequestRecord, IInv, TypeOK
  <2>2. /\ new \in RequestRecord /\ new.pc = "setOwner" /\ new.match = "unread"
        /\ new.prev = q.prev
        /\ new.role = q.role /\ new.caller = q.caller /\ new.target = q.target
        /\ new.promoted = hit /\ new.moved = q.moved
    BY <1>1, ZenonT(60) DEF RequestRecord, PCs, PolicyStatements
  <2>3. hit => owner = q.prev /\ q.caller = q.prev
    BY <1>1, <2>1 DEF RequestInv, Targeting, Granting, Critical, IInv, GoneIsEmpty
  <2>4. hit => member[q.target] # "none"  OBVIOUS
  <2> HIDE DEF new, hit
  <2>5. RequestInv(new)
    BY <1>1, <2>1, <2>2, <2>3, <2>4 DEF RequestInv, Targeting, Granting, Critical
  <2>6. QED  BY <1>1, <1>2, <2>1, <2>2, <2>5, LocalStep DEF Critical
<1>6. CASE SetOwner(r)
  <2>1. CASE Finish(r)  BY <2>1, FinishStep
  <2>2. CASE ~Finish(r)
    <3> DEFINE hit == q.match = "rows" /\ owner # NoOne
               new == [q EXCEPT !.pc = "demote", !.match = "unread", !.moved = hit]
    <3>1. q.pc = "setOwner" /\ q.match # "unread" /\ q.moved = FALSE
      BY <1>1, <1>6 DEF SetOwner, Ready, RequestInv, RequestRecord
    <3>2. req' = [req EXCEPT ![r] = new] /\ UNCHANGED <<db, lock>>
      <4>1. CASE hit
        BY <1>1, <1>6, <2>2, <4>1 DEF SetOwner, RequestRecord, IInv, TypeOK
      <4>2. CASE ~hit
        <5>1. [q EXCEPT !.pc = "demote", !.match = "unread"] = new
          BY <1>1, <3>1, <4>2 DEF RequestRecord
        <5>2. req' = [req EXCEPT ![r] = [q EXCEPT !.pc = "demote", !.match = "unread"]]
          BY <1>1, <1>6, <2>2, <4>2 DEF SetOwner, Goto, RequestRecord, IInv, TypeOK
        <5>3. QED  BY <1>6, <2>2, <4>2, <5>1, <5>2 DEF SetOwner, Goto
      <4>3. QED  BY <4>1, <4>2
    <3>3. /\ new \in RequestRecord /\ new.pc = "demote" /\ new.match = "unread"
          /\ new.prev = q.prev
          /\ new.role = q.role /\ new.caller = q.caller /\ new.target = q.target
          /\ new.promoted = q.promoted /\ new.moved = hit
      BY <1>1, ZenonT(60) DEF RequestRecord, PCs, PolicyStatements
    <3>4. q.promoted => hit
      BY <1>1, <3>1 DEF RequestInv, RequestRecord
    <3> HIDE DEF new, hit
    <3>5. RequestInv(new)
      BY <1>1, <3>1, <3>3, <3>4 DEF RequestInv, Targeting, Granting, Critical
    <3>6. QED  BY <1>1, <1>2, <3>1, <3>2, <3>3, <3>5, LocalStep DEF Critical
  <2>3. QED  BY <2>1, <2>2
<1>7. QED  BY <1>3, <1>4, <1>5, <1>6

\* The commit of a transfer: no other transfer is past its lock, so nobody else's
\* knowledge of the owner is invalidated.
LEMMA DemoteStep ==
    ASSUME IInv, TypeOK', NEW r \in Requests, Demote(r)
    PROVE  IInv'
<1> DEFINE q == req[r]
           demoted == q.match = "rows" /\ member[q.prev] # "none"
           m == [u \in Users |-> IF u = q.prev /\ demoted THEN "editor"
                                 ELSE IF u = q.target THEN "owner" ELSE member[u]]
<1>1. RequestInv(q) /\ q \in RequestRecord  BY DEF IInv, TypeOK
<1>2. CASE ~q.promoted  BY <1>2, FinishStep DEF Demote
<1>3. CASE q.promoted
  <2>1. /\ q.pc = "demote" /\ q.match # "unread" /\ q.moved
        /\ q.target \in Users /\ q.prev \in Users /\ q.target # q.prev
        /\ owner = q.prev
        /\ q.match = "norows" => member[q.prev] # "owner"
    BY <1>1, <1>3 DEF Demote, Ready, RequestInv, Targeting, Granting, Critical
  <2>2. CommitMembers(r, m) /\ owner' = q.target /\ UNCHANGED <<invite, accounts>>
    BY <1>3, <2>1 DEF Demote
  <2>3. m \in [Users -> Memberships]  BY DEF IInv, TypeOK, Memberships, Roles
  <2>4. \A u \in Users : m[u] = "owner" => u = q.target
    BY <1>1, <2>1 DEF RequestRecord, IInv, OwnerRowIsNamed
  <2> HIDE DEF m
  <2>5. member' = m /\ req'[r] = Idle
    BY <2>2 DEF CommitMembers, IInv, TypeOK
  <2>6. OwnerRowIsNamed' /\ GoneIsEmpty'
    BY <2>1, <2>2, <2>4, <2>5 DEF OwnerRowIsNamed, GoneIsEmpty
  <2>7. LockHeld' /\ NoOwnerGranted'
    BY <2>2, <2>3, CommitLock DEF NoOwnerGranted, IInv
  <2>8. ASSUME NEW p \in Requests  PROVE RequestInv(req[p])'
    <3>1. CASE p = r  BY <2>5, <3>1, IdleFacts DEF RequestInv, Idle, Targeting, Granting, Critical
    <3>2. CASE p # r
      <4>1. RequestInv(req[p]) /\ req[p] \in RequestRecord  BY DEF IInv, TypeOK
      <4>2. req[p].pc \notin Critical
        BY <2>1, <3>2 DEF IInv, LockHeld, Critical
      <4>3. ~req[p].promoted  BY <4>1, <4>2 DEF RequestInv, Critical
      <4>4. /\ req'[p].pc = req[p].pc /\ req'[p].caller = req[p].caller
            /\ req'[p].target = req[p].target /\ req'[p].promoted = req[p].promoted
            /\ req'[p].moved = req[p].moved /\ req'[p].role = req[p].role
        BY <2>2, <2>3, <3>2, CommitOthers DEF IInv
      <4>5. QED  BY <4>1, <4>2, <4>3, <4>4 DEF RequestInv, Critical
    <3>3. QED  BY <3>1, <3>2
  <2>9. QED  BY <2>6, <2>7, <2>8 DEF IInv
<1>4. QED  BY <1>2, <1>3

\* A request that writes invites only, or an expiry, touches nothing IInv reads but
\* the invites' roles.
LEMMA InviteWrite ==
    ASSUME IInv, TypeOK', UNCHANGED <<owner, member, accounts, lock>>,
           \A c \in Codes : invite'[c].role # "owner",
           req' = req \/ \E r \in Requests : /\ req' = [req EXCEPT ![r] = Idle]
                                            /\ req[r].pc \notin Critical
    PROVE  IInv'
<1>1. \A q \in Requests : req'[q] = req[q] \/ (req'[q] = Idle /\ req[q].pc \notin Critical)
  BY DEF IInv, TypeOK
<1>2. LockHeld'  BY <1>1, IdleFacts DEF LockHeld, IInv, Critical
<1>3. NoOwnerGranted'  BY <1>1, IdleFacts DEF NoOwnerGranted, IInv
<1>4. \A q \in Requests : RequestInv(req[q])'
  BY <1>1, IdleFacts DEF RequestInv, IInv
<1>5. QED  BY <1>2, <1>3, <1>4 DEF IInv, OwnerRowIsNamed, GoneIsEmpty

\* Every statement keeps IInv.
LEMMA StepStep ==
    ASSUME IInv, NEW r \in Requests, Step(r)
    PROVE  IInv'
<1> DEFINE q == req[r]
<1>0. TypeOK'  BY StepType DEF IInv
<1>1. RequestInv(q) /\ q \in RequestRecord /\ q.role # "owner"
  BY DEF IInv, TypeOK, NoOwnerGranted
<1>2. CASE TakeSnapshot(r) \/ LockTrip(r)  BY <1>2, SnapshotStep, LockStep
<1>3. CASE ReadOwner(r) \/ ReadTarget(r) \/ Promote(r) \/ SetOwner(r)
  BY <1>0, <1>3, TransferStep
<1>4. CASE Demote(r)  BY <1>0, <1>4, DemoteStep
<1>5. CASE RoleReadOwner(r) \/ RemoveReadOwner(r) \/ DeleteTrip(r) \/ DeleteUser(r)
  <2>1. /\ q.pc \in {"roleReadOwner", "removeReadOwner", "deleteTrip", "deleteUser"}
        /\ \/ Finish(r)
           \/ Goto(r, "changeRole") /\ q.pc = "roleReadOwner"
           \/ Goto(r, "deleteMember") /\ q.pc = "removeReadOwner"
           \/ Goto(r, "cascadeTrip") \/ Goto(r, "cascadeTrips")
    BY <1>5 DEF RoleReadOwner, RemoveReadOwner, DeleteTrip, DeleteUser, Ready
  <2>2. ~q.promoted /\ ~q.moved  BY <1>1, <2>1 DEF RequestInv
  <2>3. CASE Goto(r, "changeRole") /\ q.pc = "roleReadOwner"
    BY <2>2, <2>3, GotoStep DEF PCs, PolicyStatements, Critical, Targeting, Granting
  <2>4. CASE Goto(r, "deleteMember") /\ q.pc = "removeReadOwner"
    BY <2>2, <2>4, GotoStep DEF PCs, PolicyStatements, Critical, Targeting, Granting
  <2>5. CASE Goto(r, "cascadeTrip") \/ Goto(r, "cascadeTrips")
    BY <2>1, <2>2, <2>5, GotoStep DEF PCs, PolicyStatements, Critical, Targeting, Granting
  <2>6. QED  BY <2>1, <2>3, <2>4, <2>5, FinishStep
<1>6. CASE ChangeRole(r)
  <2>1. CASE Finish(r)  BY <2>1, FinishStep
  <2>2. CASE ~Finish(r)
    <3>1. q.target \in Users  BY <1>1, <1>6 DEF ChangeRole, Ready, RequestInv, Targeting, Granting
    <3>2. /\ CommitMembers(r, [member EXCEPT ![q.target] = q.role]) /\ member[q.target] # "none"
          /\ UNCHANGED <<owner, invite, accounts>>
      BY <1>6, <2>2 DEF ChangeRole
    <3>3. q.role # "none" /\ owner # NoOne
      BY <1>1, <1>6, <3>1, <3>2 DEF ChangeRole, Ready, RequestInv, Granting, IInv, GoneIsEmpty
    <3>4. QED
      BY <1>0, <1>1, <3>1, <3>2, <3>3, MemberWrite DEF RequestRecord, IInv, NoOwnerGranted
  <2>3. QED  BY <2>1, <2>2
<1>7. CASE DeleteMember(r)
  <2>1. CASE Finish(r)  BY <2>1, FinishStep
  <2>2. CASE ~Finish(r)
    <3>1. /\ q.pc = "deleteMember" /\ q.match = "rows" /\ Blockers(r) = {}
          /\ CommitMembers(r, [member EXCEPT ![q.target] = "none"])
          /\ UNCHANGED <<owner, invite, accounts>>
      BY <1>7, <2>2 DEF DeleteMember, Ready
    <3>2. q.target \in Users  BY <1>1, <3>1 DEF RequestInv, Targeting
    <3>3. RowHolders(q.target) \subseteq {r}  BY <3>1, BlockersAt
    <3>4. "none" \in Memberships  BY DEF Memberships
    <3>5. QED  BY <1>0, <3>1, <3>2, <3>3, <3>4, MemberWrite DEF IInv, NoOwnerGranted
  <2>3. QED  BY <2>1, <2>2
<1>8. CASE CascadeTrip(r)
  <2>1. \A u \in Users : RowHolders(u) \subseteq {r}
    BY <1>8, BlockersAt DEF CascadeTrip
  <2>2. QED  BY <1>0, <1>8, <2>1, DropWrite DEF CascadeTrip
<1>9. CASE InsertInvite(r)
  <2>1. CASE Finish(r)  BY <2>1, FinishStep
  <2>2. CASE ~Finish(r)
    <3>1. /\ q.pc = "insertInvite"
          /\ invite' = [invite EXCEPT ![q.code] = [state |-> "live", role |-> q.role,
                                                    by |-> q.caller]]
          /\ req' = [req EXCEPT ![r] = Idle] /\ UNCHANGED <<owner, member, accounts, lock>>
      BY <1>9, <2>2 DEF InsertInvite, Ready
    <3>2. \A c \in Codes : invite'[c].role # "owner"
      BY <1>1, <3>1 DEF IInv, TypeOK, NoOwnerGranted
    <3>3. QED  BY <1>0, <3>1, <3>2, InviteWrite DEF Critical
  <2>3. QED  BY <2>1, <2>2
<1>10. CASE RevokeInvite(r)
  <2>1. CASE Finish(r)  BY <2>1, FinishStep
  <2>2. CASE ~Finish(r)
    <3>1. /\ q.pc = "revokeInvite" /\ invite' = [invite EXCEPT ![q.code] = Dead]
          /\ req' = [req EXCEPT ![r] = Idle] /\ UNCHANGED <<owner, member, accounts, lock>>
      BY <1>10, <2>2 DEF RevokeInvite, Ready
    <3>2. \A c \in Codes : invite'[c].role # "owner"
      BY <3>1 DEF IInv, TypeOK, NoOwnerGranted, Dead
    <3>3. QED  BY <1>0, <3>1, <3>2, InviteWrite DEF Critical
  <2>3. QED  BY <2>1, <2>2
<1>11. CASE Redeem(r)
  <2>1. CASE Finish(r)  BY <2>1, FinishStep
  <2>2. CASE ~Finish(r)
    <3>1. /\ q.pc = "redeem" /\ owner # NoOne
          /\ Rank[q.role] > Rank[member[q.caller]]
          /\ CommitMembers(r, [member EXCEPT ![q.caller] = q.role])
          /\ UNCHANGED <<owner, invite, accounts>>
      BY <1>11, <2>2 DEF Redeem
    <3>2. q.caller \in Users /\ q.role \in Memberships
      BY <1>1, <3>1 DEF RequestInv, RequestRecord
    <3>3. q.role # "none"
      BY <3>1, <3>2 DEF Rank, IInv, TypeOK, Memberships, Roles
    <3>4. QED  BY <1>0, <1>1, <3>1, <3>2, <3>3, MemberWrite DEF IInv, NoOwnerGranted
  <2>3. QED  BY <2>1, <2>2
<1>12. CASE CascadeTrips(r)
  <2> DEFINE new == [q EXCEPT !.pc = "cascadeMembers", !.moved = (owner = q.caller)]
  <2>1. /\ req' = [req EXCEPT ![r] = new] /\ UNCHANGED <<db, lock>>
        /\ q.pc = "cascadeTrips"
    BY <1>1, <1>12 DEF CascadeTrips, IInv, TypeOK, RequestRecord
  <2>2. /\ new \in RequestRecord /\ new.pc = "cascadeMembers" /\ new.role = q.role
        /\ new.caller = q.caller /\ new.promoted = q.promoted
    BY <1>1, ZenonT(60) DEF RequestRecord, PCs
  <2> HIDE DEF new
  <2>3. RequestInv(new)  BY <1>1, <2>1, <2>2 DEF RequestInv, Targeting, Granting, Critical
  <2>4. QED  BY <1>0, <1>1, <2>1, <2>2, <2>3, LocalStep DEF Critical
<1>13. CASE CascadeMembers(r)
  <2>1. q.pc = "cascadeMembers" /\ Blockers(r) = {}  BY <1>13 DEF CascadeMembers
  <2>2. CASE q.moved
    <3>1. \A u \in Users : RowHolders(u) \subseteq {r}  BY <2>1, <2>2, BlockersAt
    <3>2. DropTrip(r)  BY <1>13, <2>2 DEF CascadeMembers
    <3>3. QED  BY <1>0, <3>1, <3>2, DropWrite
  <2>3. CASE ~q.moved
    <3>1. /\ CommitMembers(r, [member EXCEPT ![q.caller] = "none"]) /\ owner' = owner
          /\ invite' = [c \in Codes |-> IF invite[c].by = q.caller THEN Dead ELSE invite[c]]
      BY <1>13, <2>3 DEF CascadeMembers
    <3>2. RowHolders(q.caller) \subseteq {r}  BY <2>1, <2>3, BlockersAt
    <3>3. \A c \in Codes : invite'[c].role # "owner"
      BY <3>1 DEF Dead, IInv, NoOwnerGranted
    <3>4. q.caller \in Users /\ "none" \in Memberships
      BY <1>1, <2>1 DEF RequestInv, Memberships
    <3>5. QED  BY <1>0, <3>1, <3>2, <3>3, <3>4, MemberWrite
  <2>4. QED  BY <2>2, <2>3
<1>14. QED
  BY <1>2, <1>3, <1>4, <1>5, <1>6, <1>7, <1>8, <1>9, <1>10, <1>11, <1>12, <1>13 DEF Step

-----------------------------------------------------------------------------
\* The initial states satisfy the inductive invariant.
LEMMA InitInv == Init => IInv
<1>1. SUFFICES ASSUME Init  PROVE IInv
  OBVIOUS
<1>2. \A r \in Requests : req[r] = Idle  BY <1>1 DEF Init
<1>3. TypeOK
  BY <1>1, IdleFacts DEF Init, TypeOK, Memberships, Roles
<1>4. OwnerRowIsNamed /\ GoneIsEmpty
  BY <1>1 DEF Init, OwnerRowIsNamed, GoneIsEmpty
<1>5. LockHeld /\ NoOwnerGranted
  BY <1>1, <1>2, IdleFacts DEF Init, LockHeld, NoOwnerGranted, Critical
<1>6. QED  BY <1>2, <1>3, <1>4, <1>5, IdleFacts DEF IInv

\* Every step, of requests, failures and the clock, keeps the inductive invariant.
LEMMA NextInv == IInv /\ [Next]_vars => IInv'
<1>1. SUFFICES ASSUME IInv, [Next]_vars  PROVE IInv'
  OBVIOUS
<1>2. ASSUME NEW r \in Requests, Arrive(r)  PROVE IInv'
  BY <1>1, <1>2, ArriveStep
<1>3. ASSUME NEW r \in Requests, Step(r)  PROVE IInv'
  BY <1>1, <1>3, StepStep
<1>4. ASSUME NEW r \in Requests, Fail(r) \/ DeadlockVictim(r)  PROVE IInv'
  BY <1>1, <1>4, FinishStep DEF Fail, DeadlockVictim
<1>5. ASSUME NEW c \in Codes, Expire(c)  PROVE IInv'
  <2>1. TypeOK'  BY <1>1, <1>5 DEF Expire, IInv, TypeOK, Dead, Memberships
  <2>2. \A d \in Codes : invite'[d].role # "owner"
    BY <1>1, <1>5 DEF Expire, IInv, TypeOK, NoOwnerGranted, Dead
  <2>3. QED  BY <1>1, <1>5, <2>1, <2>2, InviteWrite DEF Expire
<1>6. CASE UNCHANGED vars
  BY <1>1, <1>6 DEF vars, IInv, TypeOK, OwnerRowIsNamed, LockHeld, NoOwnerGranted,
     GoneIsEmpty, RequestInv
<1>7. QED  BY <1>1, <1>2, <1>3, <1>4, <1>5, <1>6 DEF Next

\* The inductive invariant holds in every reachable state.
THEOREM Invariance == Spec => []IInv
BY InitInv, NextInv, PTL DEF Spec

\* Type correctness, for any number of users, requests and codes.
THEOREM TypeCorrect == Spec => []TypeOK
<1>1. IInv => TypeOK  BY DEF IInv
<1>2. QED  BY <1>1, Invariance, PTL

\* At most one 'owner' membership, and it is the user trips.owner_id names: no
\* interleaving of members.ts, invites.ts, routes.ts and the erasure produces a
\* second owner.
THEOREM OneOwner == Spec => []OwnerRowIsNamed
<1>1. IInv => OwnerRowIsNamed  BY DEF IInv
<1>2. QED  BY <1>1, Invariance, PTL

-----------------------------------------------------------------------------
\* Every write of trips.owner_id that leaves a trip is the whole transfer: the step
\* of the commit of updateMemberHandler.
LEMMA TransferStepIsWhole == IInv /\ [Next]_vars => [MovesAsAWhole]_owner
<1>1. SUFFICES ASSUME IInv, Next, owner' # owner, owner' \in Users  PROVE MovesAsAWhole
  BY DEF vars, MovesAsAWhole
<1>2. PICK r \in Requests : Demote(r) /\ req[r].promoted
  <2>1. ASSUME NEW r \in Requests, Arrive(r)  PROVE FALSE
    BY <1>1, <2>1 DEF Arrive, RequestTransfer, RequestRemoval, RequestRoleChange, RequestRevoke,
       RequestJoin, RequestInvite, RequestDeleteTrip, RequestErase, Admit, db
  <2>2. ASSUME NEW r \in Requests, Fail(r) \/ DeadlockVictim(r)  PROVE FALSE
    BY <1>1, <2>2 DEF Fail, DeadlockVictim, Finish, db
  <2>3. ASSUME NEW c \in Codes, Expire(c)  PROVE FALSE
    BY <1>1, <2>3 DEF Expire
  <2>4. ASSUME NEW r \in Requests, Step(r), ~(Demote(r) /\ req[r].promoted)  PROVE FALSE
    BY <1>1, <2>4 DEF Step, TakeSnapshot, LockTrip, ReadOwner, ReadTarget, Promote, SetOwner,
       Demote, RoleReadOwner, ChangeRole, RemoveReadOwner, DeleteMember, DeleteTrip, CascadeTrip,
       InsertInvite, RevokeInvite, Redeem, DeleteUser, CascadeTrips, CascadeMembers, DropTrip,
       Finish, Goto, db
  <2>5. QED  BY <1>1, <2>1, <2>2, <2>3, <2>4 DEF Next
<1> DEFINE q == req[r]
           demoted == q.match = "rows" /\ member[q.prev] # "none"
           m == [u \in Users |-> IF u = q.prev /\ demoted THEN "editor"
                                 ELSE IF u = q.target THEN "owner" ELSE member[u]]
<1>3. RequestInv(q) /\ q \in RequestRecord  BY <1>1 DEF IInv, TypeOK
<1>4. /\ q.pc = "demote" /\ q.match # "unread" /\ q.moved
      /\ q.target \in Users /\ q.prev \in Users /\ q.target # q.prev
      /\ owner = q.prev /\ member[q.target] # "none"
      /\ q.match = "norows" => member[q.prev] # "owner"
  BY <1>2, <1>3 DEF Demote, Ready, RequestInv, Targeting, Critical
<1>5. member' = m /\ owner' = q.target  BY <1>2, <1>4 DEF Demote, CommitMembers
<1>6. member[owner] = "owner" => demoted  BY <1>3, <1>4 DEF RequestRecord
<1>7. QED  BY <1>4, <1>5, <1>6 DEF MovesAsAWhole

\* Ownership moves as a whole, in every behaviour.
THEOREM WholeTransfers == Spec => TransferIsWhole
BY TransferStepIsWhole, Invariance, PTL DEF Spec, TransferIsWhole

-----------------------------------------------------------------------------
\* Redeeming an invite raises roles only: the role granted beats the one replaced.
LEMMA RedeemRaises == IInv /\ [Next]_vars => [RaisesOnly]_vars
<1>1. SUFFICES ASSUME IInv, NEW r \in Requests, Redeem(r)
               PROVE  \A u \in Users : Rank[member'[u]] >= Rank[member[u]]
  BY DEF RaisesOnly
<1>2. \A u \in Users : Rank[member[u]] \in Nat
  BY <1>1 DEF Rank, IInv, TypeOK, Memberships, Roles
<1>3. CASE Finish(r)  BY <1>2, <1>3 DEF Finish, db
<1>4. CASE ~Finish(r)
  <2>1. /\ member' = [member EXCEPT ![req[r].caller] = req[r].role]
        /\ Rank[req[r].role] > Rank[member[req[r].caller]]
    BY <1>1, <1>4 DEF Redeem, CommitMembers
  <2>2. req[r].role \in Memberships
    BY <1>1 DEF IInv, TypeOK, RequestRecord
  <2>3. Rank[req[r].role] \in Nat
    BY <2>2 DEF Rank, Memberships, Roles
  <2>4. QED  BY <1>1, <1>2, <2>1, <2>3 DEF IInv, TypeOK
<1>5. QED  BY <1>3, <1>4

\* redeem_invite never lowers a role, in every behaviour.
THEOREM JoinsOnlyRaise == Spec => JoinOnlyRaises
BY RedeemRaises, Invariance, PTL DEF Spec, JoinOnlyRaises

-----------------------------------------------------------------------------
\* The foreign keys.  A transfer shares its target's account from the UPDATE of
\* trips on, an erasure deletes its caller's from the DELETE of users on, and each
\* waits for the other: nobody becomes the owner of a trip on the way out.
Sharing(q, u) == q.pc = "demote" /\ q.moved /\ q.target = u
Deleting(q, u) == q.pc \in {"cascadeTrips", "cascadeMembers"} /\ q.caller = u

AccountInv ==
    /\ \A q \in Requests, u \in Users : Sharing(req[q], u) => u \in accounts
    /\ \A p, q \in Requests, u \in Users : ~(Sharing(req[p], u) /\ Deleting(req[q], u))
    /\ \A q \in Requests : req[q].pc = "cascadeMembers" /\ ~req[q].moved =>
                             owner # req[q].caller

\* A step of r keeps AccountInv if r neither shares nor deletes an account afterwards
\* and makes nobody the owner whose account is being deleted.
LEMMA AccountKept ==
    ASSUME IInv, AccountInv, NEW r \in Requests,
           \A q \in Requests : q # r => /\ req'[q].pc = req[q].pc
                                       /\ req'[q].caller = req[q].caller
                                       /\ req'[q].target = req[q].target
                                       /\ req'[q].moved = req[q].moved,
           \A u \in Users : ~Sharing(req'[r], u) /\ ~Deleting(req'[r], u),
           req'[r].pc # "cascadeMembers",
           accounts' = accounts \/ \E u \in Users : /\ Deleting(req[r], u)
                                                     /\ accounts' = accounts \ {u},
           owner' \in {owner, NoOne} \/ (Sharing(req[r], owner') /\ owner' \in Users)
    PROVE  AccountInv'
<1>1. \A q \in Requests, u \in Users : Sharing(req'[q], u) => q # r /\ Sharing(req[q], u)
  BY DEF Sharing
<1>2. \A q \in Requests, u \in Users : Deleting(req'[q], u) => q # r /\ Deleting(req[q], u)
  BY DEF Deleting
<1>3. \A q \in Requests, u \in Users : Sharing(req'[q], u) => u \in accounts'
  BY <1>1 DEF AccountInv
<1>4. ASSUME NEW q \in Requests, req'[q].pc = "cascadeMembers", ~req'[q].moved
      PROVE  owner' # req'[q].caller
  <2>1. q # r /\ req[q].pc = "cascadeMembers" /\ ~req[q].moved /\ req'[q].caller = req[q].caller
    BY <1>4
  <2>2. req[q].caller \in Users /\ owner # req[q].caller
    BY <2>1 DEF AccountInv, IInv, RequestInv
  <2>3. Deleting(req[q], req[q].caller)  BY <2>1 DEF Deleting
  <2>4. ~Sharing(req[r], req[q].caller)  BY <2>2, <2>3 DEF AccountInv
  <2>5. QED  BY <2>1, <2>2, <2>4
<1>5. \A p, q \in Requests, u \in Users : ~(Sharing(req'[p], u) /\ Deleting(req'[q], u))
  BY <1>1, <1>2 DEF AccountInv
<1>6. QED  BY <1>3, <1>4, <1>5 DEF AccountInv, Sharing, Deleting

\* A step of r that writes no table keeps AccountInv if what r now shares or deletes
\* is neither deleted nor shared by another request.
LEMMA AccountEntered ==
    ASSUME AccountInv, NEW r \in Requests, UNCHANGED <<owner, accounts>>,
           \A q \in Requests : q # r => req'[q] = req[q],
           \A u \in Users : Sharing(req'[r], u) =>
               u \in accounts /\ \A q \in Requests : q # r => ~Deleting(req[q], u),
           \A u \in Users : Deleting(req'[r], u) =>
               \A q \in Requests : q # r => ~Sharing(req[q], u),
           req'[r].pc = "cascadeMembers" /\ ~req'[r].moved => owner # req'[r].caller
    PROVE  AccountInv'
<1>1. \A u \in Users : ~(Sharing(req'[r], u) /\ Deleting(req'[r], u))
  BY DEF Sharing, Deleting
<1>2. \A p, q \in Requests, u \in Users : ~(Sharing(req'[p], u) /\ Deleting(req'[q], u))
  BY <1>1 DEF AccountInv
<1>3. \A q \in Requests, u \in Users : Sharing(req'[q], u) => u \in accounts'
  BY DEF AccountInv
<1>4. \A q \in Requests : req'[q].pc = "cascadeMembers" /\ ~req'[q].moved =>
                          owner' # req'[q].caller
  BY DEF AccountInv
<1>5. QED  BY <1>2, <1>3, <1>4 DEF AccountInv, Sharing, Deleting

\* A request that ends shares and deletes nothing any more.
LEMMA AccountFinish ==
    ASSUME IInv, AccountInv, NEW r \in Requests, Finish(r)
    PROVE  AccountInv'
<1>1. \A q \in Requests : req'[q] = IF q = r THEN Idle ELSE req[q]
  BY DEF Finish, IInv, TypeOK
<1>2. QED
  BY <1>1, IdleFacts, AccountKept DEF Finish, db, Sharing, Deleting

\* Committing memberships ends r and leaves the others what they share and delete.
LEMMA AccountCommit ==
    ASSUME IInv, AccountInv, NEW r \in Requests, NEW m \in [Users -> Memberships],
           CommitMembers(r, m),
           accounts' = accounts \/ \E u \in Users : /\ Deleting(req[r], u)
                                                     /\ accounts' = accounts \ {u},
           owner' \in {owner, NoOne} \/ (Sharing(req[r], owner') /\ owner' \in Users)
    PROVE  AccountInv'
<1>1. req'[r] = Idle  BY DEF CommitMembers
<1>2. \A q \in Requests : q # r => /\ req'[q].pc = req[q].pc
                                  /\ req'[q].caller = req[q].caller
                                  /\ req'[q].target = req[q].target
                                  /\ req'[q].moved = req[q].moved
  BY CommitOthers DEF IInv
<1>3. QED  BY <1>1, <1>2, IdleFacts, AccountKept DEF Sharing, Deleting

\* Going on to a statement that shares and deletes nothing.
LEMMA AccountGoto ==
    ASSUME IInv, AccountInv, NEW r \in Requests, NEW pc \in PCs, Goto(r, pc),
           pc \notin {"cascadeTrips", "cascadeMembers"}, pc = "demote" => ~req[r].moved
    PROVE  AccountInv'
<1>1. req[r] \in RequestRecord  BY DEF IInv, TypeOK
<1>2. /\ \A q \in Requests : q # r => req'[q] = req[q]
      /\ req'[r].pc = pc /\ req'[r].moved = req[r].moved
  BY <1>1 DEF Goto, IInv, TypeOK, RequestRecord
<1>3. QED  BY <1>2, AccountEntered DEF Goto, db, Sharing, Deleting

\* Every step keeps AccountInv.
LEMMA AccountStep ==
    ASSUME IInv, AccountInv, NEW r \in Requests, Step(r)
    PROVE  AccountInv'
<1> DEFINE q == req[r]
<1>1. RequestInv(q) /\ q \in RequestRecord  BY DEF IInv, TypeOK
<1>2. CASE TakeSnapshot(r) \/ LockTrip(r) \/ ReadOwner(r) \/ Promote(r)
  <2>1. CASE Finish(r)  BY <2>1, AccountFinish
  <2>2. CASE ~Finish(r)
    <3>1. /\ \A p \in Requests : p # r => req'[p] = req[p]
          /\ UNCHANGED <<owner, accounts>>
          /\ req'[r].moved = q.moved /\ req'[r].caller = q.caller
          /\ req'[r].target = q.target
          /\ req'[r].pc = q.pc \/ req'[r].pc \in {"readOwner", "readTarget", "setOwner"}
      BY <1>1, <1>2, <2>2
      DEF TakeSnapshot, LockTrip, ReadOwner, Promote, RequestRecord, IInv, TypeOK, db
    <3>2. QED  BY <3>1, AccountEntered DEF Sharing, Deleting, AccountInv
  <2>3. QED  BY <2>1, <2>2
<1>3. CASE ReadTarget(r) \/ RoleReadOwner(r) \/ RemoveReadOwner(r) \/ DeleteTrip(r)
  BY <1>3, AccountFinish, AccountGoto
  DEF ReadTarget, RoleReadOwner, RemoveReadOwner, DeleteTrip, PCs, PolicyStatements
<1>4. CASE SetOwner(r)
  <2>0. q.pc = "setOwner" /\ Blockers(r) = {} /\ ~q.moved
    BY <1>1, <1>4 DEF SetOwner, Ready, RequestInv
  <2>1. CASE Finish(r)  BY <2>1, AccountFinish
  <2>2. CASE Goto(r, "demote")
    BY <2>0, <2>2, AccountGoto DEF PCs, PolicyStatements
  <2>3. CASE ~Finish(r) /\ ~Goto(r, "demote")
    <3>1. /\ q.match = "rows" /\ q.target \in accounts /\ UNCHANGED <<owner, accounts>>
          /\ \A p \in Requests : p # r => req'[p] = req[p]
          /\ req'[r].pc = "demote" /\ req'[r].target = q.target
      BY <1>1, <1>4, <2>3 DEF SetOwner, RequestRecord, IInv, TypeOK, db
    <3>2. \A p \in Requests : p # r => ~Deleting(req[p], q.target)
      BY <2>0, <3>1, BlockersAt DEF UserDeleters, Deleting
    <3>3. QED  BY <3>1, <3>2, AccountEntered DEF Sharing, Deleting
  <2>4. QED  BY <2>1, <2>2, <2>3
<1>5. CASE Demote(r)
  <2> DEFINE m == [u \in Users |-> IF u = q.prev /\ q.match = "rows" /\ member[q.prev] # "none"
                                   THEN "editor"
                                   ELSE IF u = q.target THEN "owner" ELSE member[u]]
  <2>1. CASE ~q.promoted  BY <1>5, <2>1, AccountFinish DEF Demote
  <2>2. CASE q.promoted
    <3>1. q.pc = "demote" /\ q.moved /\ q.target \in Users
      BY <1>1, <1>5, <2>2 DEF Demote, Ready, RequestInv, Targeting, Critical
    <3>2. CommitMembers(r, m) /\ owner' = q.target /\ accounts' = accounts
      BY <1>5, <2>2, <3>1 DEF Demote
    <3>3. m \in [Users -> Memberships]  BY DEF IInv, TypeOK, Memberships, Roles
    <3> HIDE DEF m
    <3>4. QED  BY <3>1, <3>2, <3>3, AccountCommit DEF Sharing
  <2>3. QED  BY <2>1, <2>2
<1>6. CASE ChangeRole(r) \/ DeleteMember(r) \/ Redeem(r)
  <2>1. CASE Finish(r)  BY <2>1, AccountFinish
  <2>2. CASE ~Finish(r)
    <3>1. PICK m \in [Users -> Memberships] : /\ CommitMembers(r, m)
                                              /\ UNCHANGED <<owner, accounts>>
      <4>1. /\ [member EXCEPT ![q.target] = "none"] \in [Users -> Memberships]
            /\ [member EXCEPT ![q.target] = q.role] \in [Users -> Memberships]
            /\ [member EXCEPT ![q.caller] = q.role] \in [Users -> Memberships]
        BY <1>1 DEF RequestRecord, IInv, TypeOK, Memberships
      <4>2. CASE ChangeRole(r)  BY <2>2, <4>1, <4>2 DEF ChangeRole
      <4>3. CASE DeleteMember(r)  BY <2>2, <4>1, <4>3 DEF DeleteMember
      <4>4. CASE Redeem(r)  BY <2>2, <4>1, <4>4 DEF Redeem
      <4>5. QED  BY <1>6, <4>2, <4>3, <4>4
    <3>2. QED  BY <3>1, AccountCommit
  <2>3. QED  BY <2>1, <2>2
<1>7. CASE CascadeTrip(r)
  <2>1. [u \in Users |-> "none"] \in [Users -> Memberships]  BY DEF Memberships
  <2>2. QED  BY <1>7, <2>1, AccountCommit DEF CascadeTrip, DropTrip
<1>8. CASE InsertInvite(r) \/ RevokeInvite(r)
  <2>1. CASE Finish(r)  BY <2>1, AccountFinish
  <2>2. CASE ~Finish(r)
    <3>1. req' = [req EXCEPT ![r] = Idle] /\ UNCHANGED <<owner, accounts>>
      BY <1>8, <2>2 DEF InsertInvite, RevokeInvite
    <3>2. \A p \in Requests : req'[p] = IF p = r THEN Idle ELSE req[p]
      BY <3>1 DEF IInv, TypeOK
    <3>3. QED  BY <3>1, <3>2, IdleFacts, AccountEntered DEF Sharing, Deleting
  <2>3. QED  BY <2>1, <2>2
<1>9. CASE DeleteUser(r)
  <2>1. CASE Finish(r)  BY <2>1, AccountFinish
  <2>2. CASE ~Finish(r)
    <3>1. /\ q.pc = "deleteUser" /\ Blockers(r) = {} /\ UNCHANGED <<owner, accounts>>
          /\ \A p \in Requests : p # r => req'[p] = req[p]
          /\ req'[r].pc = "cascadeTrips" /\ req'[r].caller = q.caller
      BY <1>1, <1>9, <2>2 DEF DeleteUser, Goto, RequestRecord, IInv, TypeOK, db
    <3>2. \A p \in Requests : p # r => ~Sharing(req[p], q.caller)
      BY <3>1, BlockersAt DEF UserSharers, Sharing
    <3>3. QED  BY <3>1, <3>2, AccountEntered DEF Sharing, Deleting
  <2>3. QED  BY <2>1, <2>2
<1>10. CASE CascadeTrips(r)
  <2>1. /\ q.pc = "cascadeTrips" /\ UNCHANGED <<owner, accounts>>
        /\ \A p \in Requests : p # r => req'[p] = req[p]
        /\ req'[r].pc = "cascadeMembers" /\ req'[r].caller = q.caller
        /\ req'[r].moved = (owner = q.caller)
    BY <1>1, <1>10 DEF CascadeTrips, RequestRecord, IInv, TypeOK, db
  <2>2. \A p \in Requests, u \in Users : Deleting(req'[r], u) => ~Sharing(req[p], u)
    BY <2>1 DEF AccountInv, Deleting
  <2>3. QED  BY <2>1, <2>2, AccountEntered DEF Sharing
<1>11. CASE CascadeMembers(r)
  <2>1. /\ Deleting(req[r], q.caller) /\ q.caller \in Users
        /\ accounts' = accounts \ {q.caller}
    BY <1>1, <1>11 DEF CascadeMembers, Deleting, RequestInv
  <2>2. PICK m \in [Users -> Memberships] : CommitMembers(r, m) /\ owner' \in {owner, NoOne}
    <3>1. CASE q.moved
      <4>1. [u \in Users |-> "none"] \in [Users -> Memberships]  BY DEF Memberships
      <4>2. QED  BY <1>11, <3>1, <4>1 DEF CascadeMembers, DropTrip
    <3>2. CASE ~q.moved
      <4>1. [member EXCEPT ![q.caller] = "none"] \in [Users -> Memberships]
        BY DEF IInv, TypeOK, Memberships
      <4>2. QED  BY <1>11, <3>2, <4>1 DEF CascadeMembers
    <3>3. QED  BY <3>1, <3>2
  <2>3. QED  BY <2>1, <2>2, AccountCommit
<1>12. QED
  BY <1>2, <1>3, <1>4, <1>5, <1>6, <1>7, <1>8, <1>9, <1>10, <1>11 DEF Step

-----------------------------------------------------------------------------
\* A step that leaves every row, membership and account where it is.
LEMMA DanglingIdle ==
    ASSUME NoDanglingRows, UNCHANGED <<owner, member, accounts>>,
           \A c \in Codes : invite'[c].state = "live" => invite'[c] = invite[c]
    PROVE  NoDanglingRows'
BY DEF NoDanglingRows

\* A write of the membership of somebody who has an account and a trip.
LEMMA DanglingMember ==
    ASSUME IInv, NoDanglingRows, NEW x \in accounts, NEW role,
           member' = [member EXCEPT ![x] = role],
           UNCHANGED <<owner, invite, accounts>>, owner # NoOne
    PROVE  NoDanglingRows'
BY DEF NoDanglingRows, IInv, TypeOK

\* The cascades take every row of the trip, the transfer waits for the deletion of
\* its target's account, and the other writers check their foreign keys.
LEMMA DanglingStep ==
    ASSUME IInv, AccountInv, NoDanglingRows, NEW r \in Requests, Step(r)
    PROVE  NoDanglingRows'
<1> DEFINE q == req[r]
<1>1. RequestInv(q) /\ q \in RequestRecord  BY DEF IInv, TypeOK
<1>2. CASE UNCHANGED db  BY <1>2, DanglingIdle DEF db
<1>3. CASE Demote(r) /\ q.promoted
  <2>1. /\ q.pc = "demote" /\ q.moved /\ q.target \in Users /\ q.prev \in Users
        /\ owner = q.prev /\ member[q.target] # "none"
    BY <1>1, <1>3 DEF Demote, Ready, RequestInv, Targeting, Critical
  <2>2. /\ owner' = q.target /\ UNCHANGED <<invite, accounts>>
        /\ \A u \in Users : member'[u] # "none" => member[u] # "none"
    BY <1>3, <2>1 DEF Demote, CommitMembers
  <2>3. q.target \in accounts  BY <2>1 DEF AccountInv, Sharing
  <2>4. QED  BY <2>1, <2>2, <2>3 DEF NoDanglingRows
<1>4. CASE ChangeRole(r) \/ DeleteMember(r)
  <2>1. CASE Finish(r)  BY <1>2, <2>1 DEF Finish
  <2>2. CASE ~Finish(r)
    <3>1. /\ q.target \in Users /\ member[q.target] # "none"
          /\ UNCHANGED <<owner, invite, accounts>>
          /\ \/ member' = [member EXCEPT ![q.target] = q.role]
             \/ member' = [member EXCEPT ![q.target] = "none"]
      BY <1>1, <1>4, <2>2
      DEF ChangeRole, DeleteMember, Ready, CommitMembers, RequestInv, Targeting
    <3>2. q.target \in accounts /\ owner # NoOne  BY <3>1 DEF NoDanglingRows
    <3>3. QED  BY <3>1, <3>2, DanglingMember
  <2>3. QED  BY <2>1, <2>2
<1>5. CASE Redeem(r)
  <2>1. CASE Finish(r)  BY <1>2, <2>1 DEF Finish
  <2>2. CASE ~Finish(r)
    <3>1. /\ q.caller \in accounts /\ owner # NoOne
          /\ UNCHANGED <<owner, invite, accounts>>
          /\ member' = [member EXCEPT ![q.caller] = q.role]
      BY <1>5, <2>2 DEF Redeem, CommitMembers
    <3>2. QED  BY <3>1, DanglingMember
  <2>3. QED  BY <2>1, <2>2
<1>6. CASE DropTrip(r)
  <2>1. /\ owner' = NoOne /\ \A u \in Users : member'[u] = "none"
        /\ \A c \in Codes : invite'[c].state # "live"
    BY <1>6 DEF DropTrip, CommitMembers, Dead, IInv, TypeOK
  <2>2. QED  BY <2>1 DEF NoDanglingRows
<1>7. CASE CascadeTrip(r)  BY <1>6, <1>7 DEF CascadeTrip
<1>8. CASE InsertInvite(r)
  <2>1. CASE Finish(r)  BY <1>2, <2>1 DEF Finish
  <2>2. CASE ~Finish(r)
    <3>1. /\ owner # NoOne /\ q.caller \in accounts /\ UNCHANGED <<owner, member, accounts>>
          /\ invite' = [invite EXCEPT ![q.code] = [state |-> "live", role |-> q.role,
                                                    by |-> q.caller]]
      BY <1>8, <2>2 DEF InsertInvite
    <3>2. \A c \in Codes : invite'[c] = invite[c] \/ invite'[c].by = q.caller
      BY <3>1 DEF IInv, TypeOK
    <3>3. QED  BY <3>1, <3>2 DEF NoDanglingRows
  <2>3. QED  BY <2>1, <2>2
<1>9. CASE RevokeInvite(r)
  <2>1. CASE Finish(r)  BY <1>2, <2>1 DEF Finish
  <2>2. CASE ~Finish(r)
    BY <1>9, <2>2, DanglingIdle DEF RevokeInvite, Dead, IInv, TypeOK
  <2>3. QED  BY <2>1, <2>2
<1>10. CASE CascadeMembers(r)
  <2>1. CASE q.moved  BY <1>6, <1>10, <2>1 DEF CascadeMembers
  <2>2. CASE ~q.moved
    <3>1. /\ q.pc = "cascadeMembers" /\ q.caller \in Users
          /\ accounts' = accounts \ {q.caller} /\ owner' = owner
          /\ member' = [member EXCEPT ![q.caller] = "none"]
          /\ invite' = [c \in Codes |-> IF invite[c].by = q.caller THEN Dead ELSE invite[c]]
      BY <1>1, <1>10, <2>2 DEF CascadeMembers, CommitMembers, RequestInv
    <3>2. owner # q.caller  BY <2>2, <3>1 DEF AccountInv
    <3>3. \A c \in Codes : invite'[c].state = "live" =>
                               invite'[c] = invite[c] /\ invite[c].by # q.caller
      BY <3>1 DEF Dead
    <3>4. \A u \in Users : member'[u] # "none" => member[u] # "none" /\ u # q.caller
      BY <3>1 DEF IInv, TypeOK
    <3>5. QED  BY <3>1, <3>2, <3>3, <3>4 DEF NoDanglingRows
  <2>3. QED  BY <2>1, <2>2
<1>11. QED
  BY <1>2, <1>3, <1>4, <1>5, <1>7, <1>8, <1>9, <1>10
  DEF Step, TakeSnapshot, LockTrip, ReadOwner, ReadTarget, Promote, SetOwner, Demote,
      RoleReadOwner, RemoveReadOwner, DeleteTrip, DeleteUser, CascadeTrips, Goto, Finish

DanglingInv == AccountInv /\ NoDanglingRows

\* The initial states satisfy the foreign-key invariant.
LEMMA InitDangling == Init => DanglingInv
<1>1. SUFFICES ASSUME Init  PROVE DanglingInv
  OBVIOUS
<1>2. \A r \in Requests : req[r] = Idle  BY <1>1 DEF Init
<1>3. AccountInv  BY <1>2, IdleFacts DEF AccountInv, Sharing, Deleting
<1>4. NoDanglingRows  BY <1>1 DEF Init, NoDanglingRows
<1>5. QED  BY <1>3, <1>4 DEF DanglingInv

\* Every step keeps the foreign-key invariant.
LEMMA NextDangling == IInv /\ DanglingInv /\ [Next]_vars => DanglingInv'
<1>1. SUFFICES ASSUME IInv, AccountInv, NoDanglingRows, [Next]_vars
               PROVE  AccountInv' /\ NoDanglingRows'
  BY DEF DanglingInv
<1>2. ASSUME NEW r \in Requests, Step(r)  PROVE AccountInv' /\ NoDanglingRows'
  BY <1>1, <1>2, AccountStep, DanglingStep
<1>3. ASSUME NEW r \in Requests, Finish(r)  PROVE AccountInv' /\ NoDanglingRows'
  BY <1>1, <1>3, AccountFinish, DanglingIdle DEF Finish, db
<1>4. ASSUME NEW r \in Requests, Arrive(r)  PROVE AccountInv' /\ NoDanglingRows'
  <2>1. PICK u \in Users, new \in RequestRecord : Fresh(new) /\ Admit(r, u, new)
    BY <1>1, <1>4, ArrivesFresh
  <2>2. /\ \A q \in Requests : q # r => req'[q] = req[q]
        /\ req'[r].pc \in FirstPCs /\ UNCHANGED db
    BY <1>1, <2>1 DEF Admit, Fresh, IInv, TypeOK
  <2>3. NoDanglingRows'  BY <1>1, <2>2, DanglingIdle DEF db
  <2>4. AccountInv'
    BY <1>1, <2>2, AccountEntered DEF db, FirstPCs, Sharing, Deleting
  <2>5. QED  BY <2>3, <2>4
<1>5. ASSUME NEW c \in Codes, Expire(c)  PROVE AccountInv' /\ NoDanglingRows'
  <2>1. UNCHANGED <<owner, member, accounts, req>>  BY <1>5 DEF Expire
  <2>2. \A d \in Codes : invite'[d].state = "live" => invite'[d] = invite[d]
    BY <1>1, <1>5 DEF Expire, Dead, IInv, TypeOK
  <2>3. QED  BY <1>1, <2>1, <2>2, DanglingIdle DEF AccountInv
<1>6. CASE UNCHANGED vars
  BY <1>1, <1>6, DanglingIdle DEF vars, AccountInv
<1>7. QED  BY <1>1, <1>2, <1>3, <1>4, <1>5, <1>6 DEF Next, Fail, DeadlockVictim

\* No membership and no usable invite outlives its trip or its account, however the
\* erasure's cascade, transfers, joins and invites interleave.
THEOREM ForeignKeysHold == Spec => []NoDanglingRows
<1>1. DanglingInv => NoDanglingRows  BY DEF DanglingInv
<1>2. QED  BY <1>1, InitDangling, NextDangling, Invariance, PTL DEF Spec
=============================================================================
