---------------------------- MODULE CityLifecycle ----------------------------
(****************************************************************************)
(* What cities.brain_status promises its readers, whatever stages a build   *)
(* of the city goes through: 'building' while somebody is at work on it,    *)
(* 'warm' once a build found a skeleton of places, 'cold' again only from   *)
(* 'building'.  CityBuild, the orchestrator's stages, implements it.        *)
(****************************************************************************)

CONSTANT Builds                     \* calls of build_city for one city

VARIABLES
    status,         \* cities.brain_status
    skeleton,       \* the city has a canonical place
    phase           \* new, running, failing, over or stranded, of each build

vars == <<status, skeleton, phase>>

\* A 'failing' build met an exception or a cancellation; a 'stranded' one was
\* killed, or lost the chance to give the city back.
Init ==
    /\ status \in {"cold", "warm"}
    /\ skeleton \in BOOLEAN
    /\ status # "cold" => skeleton
    /\ phase = [b \in Builds |-> "new"]

Busy(b) == phase[b] \in {"running", "failing"}

Start(b) ==
    /\ phase[b] = "new"
    /\ status' = "building"
    /\ phase' = [phase EXCEPT ![b] = "running"]
    /\ UNCHANGED skeleton

\* A committed batch of places.
Grow(b) ==
    /\ phase[b] = "running"
    /\ skeleton' = TRUE
    /\ UNCHANGED <<status, phase>>

Warm(b) ==
    /\ phase[b] = "running"
    /\ skeleton
    /\ status' = "warm"
    /\ UNCHANGED <<skeleton, phase>>

\* Giving the city back: only from 'building', and only by a build that failed,
\* that found nothing, or that overlaps another.
Cool(b) ==
    /\ Busy(b)
    /\ status = "building"
    /\ \/ phase[b] = "failing"
       \/ ~skeleton
       \/ \E o \in Builds \ {b} : Busy(o) \/ phase[o] = "stranded"
    /\ status' = "cold"
    /\ UNCHANGED <<skeleton, phase>>

Falter(b) ==
    /\ phase[b] = "running"
    /\ phase' = [phase EXCEPT ![b] = "failing"]
    /\ UNCHANGED <<status, skeleton>>

\* A build leaves no 'building' behind that nobody else is responsible for.
Leave(b) ==
    /\ Busy(b)
    /\ status = "building" =>
         \E o \in Builds \ {b} : Busy(o) \/ phase[o] = "stranded"
    /\ phase' = [phase EXCEPT ![b] = "over"]
    /\ UNCHANGED <<status, skeleton>>

\* The build never began: its first statement failed.
Refuse(b) ==
    /\ phase[b] = "new"
    /\ phase' = [phase EXCEPT ![b] = "over"]
    /\ UNCHANGED <<status, skeleton>>

Strand(b) ==
    /\ Busy(b)
    /\ phase' = [phase EXCEPT ![b] = "stranded"]
    /\ UNCHANGED <<status, skeleton>>

Next ==
    \E b \in Builds :
        \/ Start(b) \/ Grow(b) \/ Warm(b) \/ Cool(b)
        \/ Falter(b) \/ Leave(b) \/ Refuse(b) \/ Strand(b)

Spec == Init /\ [][Next]_vars

==============================================================================
