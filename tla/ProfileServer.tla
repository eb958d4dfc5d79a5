---------------------------- MODULE ProfileServer -----------------------------
(****************************************************************************)
(* The profile routes of one user.  A request is admitted with its session, *)
(* then runs its statements in one transaction; those that read before they *)
(* write take the user's advisory lock first.                               *)
(****************************************************************************)
EXTENDS Naturals

CONSTANTS
    Requests, Fields, Required, Values,
    NoOne           \* nobody holds the lock

ASSUME ConstantsAssumption == NoOne \notin Requests /\ Required \subseteq Fields

VARIABLES
    alive, traveler, versions,
    lock,           \* who holds the user's advisory lock
    req             \* the requests

serverVars == <<alive, traveler, versions, lock, req>>

Stages == {"idle", "sent", "begun", "locked", "read", "written", "answered"}
Puts == {"traveler", "taste"}
Kinds == {"none", "getTraveler", "getTaste", "erase"} \cup Puts
Outcomes == {"none", "done", "expired", "refused", "failed"}

Open(r) == req[r].stage \notin {"idle", "answered"}

\* The promise, of the requests that are not yet answered.
Wish(r) ==
    IF Open(r) /\ req[r].kind \in Puts \cup {"erase"}
    THEN [kind |-> req[r].kind, body |-> req[r].body]
    ELSE [kind |-> "none", body |-> [f \in Fields |-> "absent"]]

Log == INSTANCE ProfileLog WITH wanted <- [r \in Requests |-> Wish(r)]

Fresh == [stage |-> "idle", kind |-> "none", body |-> Log!NoRow,
          row |-> Log!NoRow, version |-> 0, outcome |-> "none"]

Init ==
    /\ alive = TRUE
    /\ traveler = Log!NoRow
    /\ versions = 0
    /\ lock = NoOne
    /\ req = [r \in Requests |-> Fresh]

At(r, kinds, stage) == req[r].kind \in kinds /\ req[r].stage = stage
Goto(r, stage) == req' = [req EXCEPT ![r].stage = stage]

\* The end of the transaction releases the lock, if it was taken.
Release(r) == lock' = IF lock = r THEN NoOne ELSE lock

Answer(r, outcome, row, version) ==
    req' = [req EXCEPT ![r] = [Fresh EXCEPT !.stage = "answered", !.kind = req[r].kind,
                                            !.outcome = outcome, !.row = row, !.version = version]]

Send(r, kind, body) ==
    /\ req[r].stage = "idle"
    /\ req' = [req EXCEPT ![r] = [Fresh EXCEPT !.stage = "sent", !.kind = kind, !.body = body]]
    /\ UNCHANGED <<alive, traveler, versions, lock>>

Forget(r) ==
    /\ req[r].stage = "answered"
    /\ req' = [req EXCEPT ![r] = Fresh]
    /\ UNCHANGED <<alive, traveler, versions, lock>>

\* The session is looked up before the transaction; an erasure takes it along.
Admit(r) ==
    /\ req[r].stage = "sent"
    /\ IF alive THEN Goto(r, "begun") ELSE Answer(r, "expired", Log!NoRow, 0)
    /\ UNCHANGED <<alive, traveler, versions, lock>>

GetTraveler(r) ==
    /\ At(r, {"getTraveler"}, "begun")
    /\ Answer(r, "done", traveler, 0)
    /\ UNCHANGED <<alive, traveler, versions, lock>>

\* The newest version.
GetTaste(r) ==
    /\ At(r, {"getTaste"}, "begun")
    /\ Answer(r, "done", Log!NoRow, versions)
    /\ UNCHANGED <<alive, traveler, versions, lock>>

\* The wrong lock: it is not exclusive.
LockUserShared(r) ==
    /\ At(r, Puts, "begun")
    /\ lock' = r
    /\ Goto(r, "locked")
    /\ UNCHANGED <<alive, traveler, versions>>

LockUser(r) ==
    /\ At(r, Puts, "begun")
    /\ lock = NoOne
    /\ lock' = r
    /\ Goto(r, "locked")
    /\ UNCHANGED <<alive, traveler, versions>>

ReadTraveler(r) ==
    /\ At(r, {"traveler"}, "locked")
    /\ req' = [req EXCEPT ![r].stage = "read", ![r].row = traveler]
    /\ UNCHANGED <<alive, traveler, versions, lock>>

\* A partial create is a 400; nothing was written.
Refuse(r) ==
    /\ At(r, {"traveler"}, "read")
    /\ ~Log!Complete(Log!Merge(req[r].row, req[r].body))
    /\ Answer(r, "refused", Log!NoRow, 0)
    /\ Release(r)
    /\ UNCHANGED <<alive, traveler, versions>>

\* The upsert refers to the users row: without it the statement fails.
WriteTraveler(r) ==
    /\ At(r, {"traveler"}, "read")
    /\ alive
    /\ Log!Complete(Log!Merge(req[r].row, req[r].body))
    /\ req' = [req EXCEPT ![r].stage = "written", ![r].row = Log!Merge(@, req[r].body)]
    /\ UNCHANGED <<alive, traveler, versions, lock>>

\* INSERT ... SELECT MAX(version) + 1
WriteTaste(r) ==
    /\ At(r, {"taste"}, "locked")
    /\ alive
    /\ req' = [req EXCEPT ![r].stage = "written", ![r].version = versions + 1]
    /\ UNCHANGED <<alive, traveler, versions, lock>>

Commit(r) ==
    /\ At(r, Puts, "written")
    /\ IF req[r].kind = "traveler"
       THEN traveler' = req[r].row /\ UNCHANGED versions
       ELSE versions' = req[r].version /\ UNCHANGED traveler
    /\ Answer(r, "done", req[r].row, req[r].version)
    /\ Release(r)
    /\ UNCHANGED alive

\* DELETE FROM users waits for the writes that refer to the row, and cascades.
Erase(r) ==
    /\ At(r, {"erase"}, "begun")
    /\ \A other \in Requests : req[other].stage # "written"
    /\ alive' = FALSE
    /\ traveler' = Log!NoRow
    /\ versions' = 0
    /\ Answer(r, "done", Log!NoRow, 0)
    /\ UNCHANGED lock

\* Any statement, or the commit, may fail: everything is rolled back.
Fail(r) ==
    /\ req[r].stage \in {"begun", "locked", "read", "written"}
    /\ Answer(r, "failed", Log!NoRow, 0)
    /\ Release(r)
    /\ UNCHANGED <<alive, traveler, versions>>

Serve(r) ==
    \/ Admit(r) \/ GetTraveler(r) \/ GetTaste(r) \/ LockUser(r) \/ ReadTraveler(r)
    \/ Refuse(r) \/ WriteTraveler(r) \/ WriteTaste(r) \/ Commit(r) \/ Erase(r) \/ Fail(r)

\* Whoever the clients are.
Client(r) ==
    \/ \E kind \in Kinds \ {"none"}, body \in Log!Bodies : Send(r, kind, body)
    \/ Forget(r)

Next == \E r \in Requests : Serve(r) \/ Client(r)

Spec == Init /\ [][Next]_serverVars

-----------------------------------------------------------------------------
Requested == [stage : Stages, kind : Kinds, body : Log!Bodies, row : Log!Rows,
              version : Nat, outcome : Outcomes]

ServerTypeOK ==
    /\ alive \in BOOLEAN
    /\ traveler \in Log!Rows
    /\ versions \in Nat
    /\ lock \in Requests \cup {NoOne}
    /\ req \in [Requests -> Requested]

\* Whatever overlaps, each write takes effect whole, at one moment, over what
\* is there at that moment (the promise of ProfileLog): no field of a partial
\* body is lost, no taste version is skipped or given twice.
Serial == Log!Spec

==============================================================================
