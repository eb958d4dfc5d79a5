------------------------------ MODULE ProfileLog ------------------------------
(****************************************************************************)
(* What the profile routes promise: every request that is answered with     *)
(* success took effect at one moment between its sending and its answer.    *)
(* A partial traveler body is merged over the row of that moment, so that   *)
(* no other request's field is lost; taste versions are 0, 1, 2 and so on,  *)
(* with no gap and no duplicate.                                            *)
(****************************************************************************)
EXTENDS Naturals

CONSTANTS
    Requests,
    Fields,         \* the columns of traveler_profiles
    Required,       \* the ones a new row must be given
    Values          \* what a column may hold

VARIABLES
    alive,          \* whether the user exists
    traveler,       \* the row of traveler_profiles
    versions,       \* how many rows of taste_profiles, numbered from 0
    wanted          \* what each request asks for, until it is answered

vars == <<alive, traveler, versions, wanted>>

\* A body leaves a column out, a row of the table does not.
Bodies == [Fields -> Values \cup {"absent"}]
Rows == [Fields -> Values \cup {"absent", "empty"}]
NoRow == [f \in Fields |-> "absent"]

\* What the body leaves out keeps its value; a column that need not be given
\* (languages) starts empty.
Merge(row, body) ==
    [f \in Fields |-> IF body[f] # "absent" THEN body[f]
                      ELSE IF row[f] # "absent" THEN row[f]
                      ELSE IF f \in Required THEN "absent" ELSE "empty"]

Complete(row) == \A f \in Required : row[f] # "absent"

Wishes == [kind : {"none", "traveler", "taste", "erase"}, body : Bodies]
NoWish == [kind |-> "none", body |-> NoRow]

Init ==
    /\ alive = TRUE
    /\ traveler = NoRow
    /\ versions = 0
    /\ wanted = [r \in Requests |-> NoWish]

Ask(r) ==
    /\ wanted[r] = NoWish
    /\ \E wish \in Wishes : wanted' = [wanted EXCEPT ![r] = wish]
    /\ UNCHANGED <<alive, traveler, versions>>

Served(r) == wanted' = [wanted EXCEPT ![r] = NoWish]

\* Refused, failed, or of somebody who is gone: no effect.
Withdraw(r) ==
    /\ Served(r)
    /\ UNCHANGED <<alive, traveler, versions>>

PutTraveler(r) ==
    /\ alive
    /\ wanted[r].kind = "traveler"
    /\ Complete(Merge(traveler, wanted[r].body))
    /\ traveler' = Merge(traveler, wanted[r].body)
    /\ Served(r)
    /\ UNCHANGED <<alive, versions>>

PutTaste(r) ==
    /\ alive
    /\ wanted[r].kind = "taste"
    /\ versions' = versions + 1
    /\ Served(r)
    /\ UNCHANGED <<alive, traveler>>

Erase(r) ==
    /\ wanted[r].kind = "erase"
    /\ alive' = FALSE
    /\ traveler' = NoRow
    /\ versions' = 0
    /\ Served(r)

Next == \E r \in Requests :
    Ask(r) \/ Withdraw(r) \/ PutTraveler(r) \/ PutTaste(r) \/ Erase(r)

Spec == Init /\ [][Next]_vars

==============================================================================
