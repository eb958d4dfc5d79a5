----------------------------- MODULE GroupVotes -----------------------------
(***************************************************************************)
(* What the members of one trip think of its places: votes                 *)
(* (votePlaceHandler of places/votes.ts) with the tally that each of them  *)
(* broadcasts (0017), while members come, go and change roles, accounts    *)
(* are erased and city stays removed; and the ranking that loadMergeInputs *)
(* and scoreCandidates make of it (merge/load.ts, merge/engine.ts).        *)
(*                                                                         *)
(* A vote's last statement, its trigger and COMMIT are two steps: a        *)
(* concurrent transaction may commit between them.  The loader's three     *)
(* statements share no snapshot.  Ownership of the trip never moves here   *)
(* (TripMembership), and the places of a stay are those it started with    *)
(* (PlaceOrdering).                                                        *)
(***************************************************************************)
EXTENDS Naturals, FiniteSets, Sequences, SequencesExt

CONSTANTS
    Users, Owner,
    Joined,         \* at the start, editors beside the owner, who voted for every place
    Places,         \* rows of trip_places
    StayOf(_),      \* trip_places.trip_city_id
    AddedBy(_),     \* trip_places.added_by
    PoiOf(_),       \* trip_places.poi_id
    Tastes,         \* what members' profiles may say
    Default,        \* what the loader takes a member without a profile for
    Requests,       \* votes that may run at the same time
    Known(_),       \* what is known of a place's tags: a set of at most one set
    MaxOps          \* bound on writes and votes

Ranking == INSTANCE GroupRanking

VARIABLES
    members,        \* trip_members in the order of joined_at
    role,           \* trip_members.role
    taste,          \* newest taste and traveler profile of each user
    places,         \* trip_places
    votes,          \* place_votes
    tally,          \* last tally broadcast for each place
    req,            \* a vote in each slot
    rank,           \* the ranking being made
    unheard,        \* history: places whose last tally missed a vote committed meanwhile
    ops             \* writes and votes so far

group == <<members, role, taste, places, votes>>
vars == <<group, tally, req, rank, unheard, ops>>

Stays == {StayOf(p) : p \in Places}
Editors == {"owner", "editor"}
VoteValues == {"up", "down"}
NoTally == [up |-> 0, down |-> 0, member_count |-> 0]

Idle == [pc |-> "idle", user |-> Owner, place |-> 1, vote |-> "up",
         tally |-> NoTally, late |-> FALSE]

NoRank == [pc |-> "none", scope |-> {}, members |-> <<>>, users |-> <<>>,
           candidates |-> {}, rows |-> <<>>,
           late |-> FALSE]   \* history: something was written since

Init ==
    /\ members = <<Owner>> \o SetToSeq(Joined)
    /\ role = [u \in Users |-> IF u = Owner THEN "owner"
                               ELSE IF u \in Joined THEN "editor" ELSE "none"]
    /\ taste = [u \in Users |-> Default]
    /\ places = Places
    /\ votes = [p \in Places |-> [u \in Users |-> IF u \in Joined THEN "up" ELSE "none"]]
    /\ tally = [p \in Places |-> [NoTally EXCEPT !.up = Cardinality(Joined)]]
    /\ req = [r \in Requests |-> Idle]
    /\ rank = NoRank
    /\ unheard = {}
    /\ ops = 0

Counted == ops < MaxOps /\ ops' = ops + 1

\* A write to the tables, which a ranking being made or shown may have missed.
Write == rank' = [rank EXCEPT !.late = rank.pc # "none"]

(***************************************************************************)
(* Votes.                                                                  *)
(***************************************************************************)
Number(row, value) == Cardinality({u \in DOMAIN row : row[u] = value})

\* The tally that the trigger counts from the rows it sees.
TallyOf(row, count) ==
    [up |-> Number(row, "up"), down |-> Number(row, "down"), member_count |-> count]

With(row, user, vote) == [row EXCEPT ![user] = vote]

Writing(p) == {r \in Requests : req[r].pc = "commit" /\ req[r].place = p}

\* requireAuth and assertEditor, before the transaction.
Ask(r, user, place, vote) ==
    /\ req[r].pc = "idle"
    /\ role[user] \in Editors
    /\ Counted
    /\ req' = [req EXCEPT ![r] = [Idle EXCEPT !.pc = "find", !.user = user,
                                              !.place = place, !.vote = vote]]
    /\ UNCHANGED <<group, tally, rank, unheard>>

\* The place must be of this trip, or the answer is 404.
FindPlace(r) ==
    /\ req[r].pc = "find"
    /\ req' = [req EXCEPT ![r] = IF req[r].place \in places
                                 THEN [@ EXCEPT !.pc = "upsert"] ELSE Idle]
    /\ UNCHANGED <<group, tally, rank, unheard, ops>>

\* Mutant of Upsert: a BEFORE trigger, which does not see its own row.
UpsertBefore(r) ==
    /\ req[r].pc = "upsert"
    /\ \A s \in Writing(req[r].place) : req[s].user # req[r].user
    /\ LET place == req[r].place
           user == req[r].user
       IN req' = [req EXCEPT ![r] =
             IF place \in places /\ role[user] \in Editors
             THEN [@ EXCEPT !.pc = "commit",
                            !.tally = TallyOf(votes[place], Len(members))]
             ELSE Idle]
    /\ UNCHANGED <<group, tally, rank, unheard, ops>>

\* The policy lets only an editor of the place's trip write.  The upsert waits
\* for an uncommitted row of the same place and user; the trigger counts the
\* committed rows and its own.
Upsert(r) ==
    /\ req[r].pc = "upsert"
    /\ \A s \in Writing(req[r].place) : req[s].user # req[r].user
    /\ LET place == req[r].place
           user == req[r].user
       IN req' = [req EXCEPT ![r] =
             IF place \in places /\ role[user] \in Editors
             THEN [@ EXCEPT !.pc = "commit",
                            !.tally = TallyOf(With(votes[place], user, req[r].vote),
                                              Len(members))]
             ELSE Idle]
    /\ UNCHANGED <<group, tally, rank, unheard, ops>>

\* The other votes of a place that are written but not committed have counted
\* without what commits now.
Miss(place) ==
    [s \in Requests |-> IF s \in Writing(place) THEN [req[s] EXCEPT !.late = TRUE]
                        ELSE req[s]]

Commit(r) ==
    /\ req[r].pc = "commit"
    /\ LET place == req[r].place IN
       /\ votes' = [votes EXCEPT ![place] = With(@, req[r].user, req[r].vote)]
       /\ tally' = [tally EXCEPT ![place] = req[r].tally]
       /\ unheard' = IF req[r].late THEN unheard \cup {place} ELSE unheard \ {place}
       /\ req' = [Miss(place) EXCEPT ![r] = Idle]
    /\ Write
    /\ UNCHANGED <<members, role, taste, places, ops>>

Fail(r) ==
    /\ req[r].pc \in {"find", "upsert", "commit"}
    /\ req' = [req EXCEPT ![r] = Idle]
    /\ UNCHANGED <<group, tally, rank, unheard, ops>>

(***************************************************************************)
(* Members, profiles and places.                                           *)
(***************************************************************************)
Join(user, as) ==
    /\ role[user] = "none" /\ as \in {"editor", "viewer"}
    /\ members' = Append(members, user)
    /\ role' = [role EXCEPT ![user] = as]
    /\ Counted /\ Write
    /\ UNCHANGED <<taste, places, votes, tally, req, unheard>>

ChangeRole(user, as) ==
    /\ role[user] \in {"editor", "viewer"} \ {as} /\ as \in {"editor", "viewer"}
    /\ role' = [role EXCEPT ![user] = as]
    /\ Counted /\ Write
    /\ UNCHANGED <<members, taste, places, votes, tally, req, unheard>>

Without(user) ==
    IF \E i \in DOMAIN members : members[i] = user
    THEN RemoveAt(members, CHOOSE i \in DOMAIN members : members[i] = user)
    ELSE members

\* A member who leaves or is removed leaves votes behind.
Leave(user) ==
    /\ role[user] \in {"editor", "viewer"}
    /\ role' = [role EXCEPT ![user] = "none"]
    /\ members' = Without(user)
    /\ Counted /\ Write
    /\ UNCHANGED <<taste, places, votes, tally, req, unheard>>

SaveTaste(user, new) ==
    /\ new # taste[user]
    /\ taste' = [taste EXCEPT ![user] = new]
    /\ Counted /\ Write
    /\ UNCHANGED <<members, role, places, votes, tally, req, unheard>>

\* Deleting these places waits for the votes being written to them; the
\* trigger of a vote row they take along finds no trip and sends nothing.
Cascade(gone) ==
    /\ \A p \in gone : Writing(p) = {}
    /\ places' = places \ gone

NoVotes == [u \in Users |-> "none"]

RemoveCity(user, stay) ==
    /\ role[user] \in Editors
    /\ LET gone == {p \in places : StayOf(p) = stay} IN
       /\ gone # {}
       /\ Cascade(gone)
       /\ votes' = [p \in Places |-> IF p \in gone THEN NoVotes ELSE votes[p]]
    /\ Counted /\ Write
    /\ UNCHANGED <<members, role, taste, tally, req, unheard>>

\* An account takes its membership, profile, votes and places along, once no
\* vote of its own is being written.  Each vote row sends a tally without it.
EraseUser(user) ==
    /\ user # Owner
    /\ \A r \in Requests : ~(req[r].pc = "commit" /\ req[r].user = user)
    /\ LET gone == {p \in places : AddedBy(p) = user}
           counted == {p \in places \ gone : votes[p][user] # "none"}
       IN /\ Cascade(gone)
          /\ votes' = [p \in Places |-> IF p \in gone THEN NoVotes
                                        ELSE With(votes[p], user, "none")]
          /\ role' = [role EXCEPT ![user] = "none"]
          /\ members' = Without(user)
          /\ \E n \in {Len(members), Len(members')} :
                tally' = [p \in Places |-> IF p \in counted THEN TallyOf(votes'[p], n)
                                           ELSE tally[p]]
          /\ unheard' = unheard \ counted
          /\ req' = [r \in Requests |-> IF req[r].place \in counted
                                        THEN Miss(req[r].place)[r] ELSE req[r]]
    /\ taste' = [taste EXCEPT ![user] = Default]
    /\ Counted /\ Write

(***************************************************************************)
(* The ranking.                                                            *)
(***************************************************************************)
\* loadMergeInputs for the whole trip or one city stay.
LoadMembers(scope) ==
    /\ rank.pc = "none"
    /\ rank' = [NoRank EXCEPT !.pc = "places", !.scope = scope, !.users = members,
                              !.members = [i \in DOMAIN members |-> taste[members[i]]]]
    /\ UNCHANGED <<group, tally, req, unheard, ops>>

LoadPlaces ==
    /\ rank.pc = "places"
    /\ rank' = [rank EXCEPT
          !.pc = "votes",
          !.candidates = {p \in places : StayOf(p) \in rank.scope}]
    /\ UNCHANGED <<group, tally, req, unheard, ops>>

\* A vote is put at the index of the member who gave it; that of somebody who
\* is not among the members read is left out.
Aligned(users, row) == [i \in DOMAIN users |-> row[users[i]]]

\* The engine is called with the categories, tags and prices its caller knows.
LoadVotesAndScore(category, price) ==
    /\ rank.pc = "votes"
    /\ rank' = [rank EXCEPT
          !.pc = "done",
          !.rows = Ranking!scoreCandidates(rank.members,
             [p \in rank.candidates |->
                [poi_id |-> PoiOf(p), category |-> category[PoiOf(p)],
                 tags |-> Known(p), price_tier |-> price[PoiOf(p)],
                 votes |-> Aligned(rank.users, votes[p])]])]
    /\ UNCHANGED <<group, tally, req, unheard, ops>>

Dismiss ==
    /\ rank.pc = "done"
    /\ rank' = NoRank
    /\ UNCHANGED <<group, tally, req, unheard, ops>>

Votes ==
    \E r \in Requests :
       \/ \E u \in Users, p \in Places, v \in VoteValues : Ask(r, u, p, v)
       \/ FindPlace(r)
       \/ Upsert(r)
       \/ Commit(r)
       \/ Fail(r)

Changes ==
    \E u \in Users :
       \/ \E as \in {"editor", "viewer"} : Join(u, as) \/ ChangeRole(u, as)
       \/ Leave(u)
       \/ \E new \in Tastes : SaveTaste(u, new)
       \/ \E stay \in Stays : RemoveCity(u, stay)
       \/ EraseUser(u)

Rankings(category, price) ==
    \/ \E scope \in {Stays} \cup {{s} : s \in Stays} : LoadMembers(scope)
    \/ LoadPlaces
    \/ LoadVotesAndScore(category, price)
    \/ Dismiss

(***************************************************************************)
(* Properties.                                                             *)
(***************************************************************************)
\* The last tally broadcast for a place is that of the votes committed, unless
\* another vote of the place, or an erasure, was committed between that tally's
\* count and its own commit.
TallyAgrees ==
    \A p \in places \ unheard :
       /\ tally[p].up = Number(votes[p], "up")
       /\ tally[p].down = Number(votes[p], "down")

Members == {u \in Users : role[u] # "none"}

Heard(p, vote) == Cardinality({u \in Members : votes[p][u] = vote})

\* An interest may name a category or a tag.
For(p, category) ==
    {u \in Members : \/ votes[p][u] = "up"
                     \/ taste[u].interests \cap ({category} \cup UNION Known(p)) # {}}

\* A ranking never counts more votes than members.  One that no write overtook
\* counts exactly the votes of those who are members, leaves no place in that
\* any of them excludes, flags the misery of whoever voted against, and keeps
\* such a place only if a third of the members, and more, are for it.
RankingHears(category) ==
    rank.pc = "done" =>
       \A p \in DOMAIN rank.rows :
          LET row == rank.rows[p]
          IN /\ row.up + row.down <= row.member_count
             /\ ~rank.late =>
                  /\ row.up = Heard(p, "up") /\ row.down = Heard(p, "down")
                  /\ row.member_count = Cardinality(Members)
                  /\ (\E u \in Members : category[PoiOf(p)] \in taste[u].hard_exclusions)
                        => row.excluded
                  /\ Heard(p, "down") > 0 =>
                        /\ "misery" \in row.flags
                        /\ ~row.excluded =>
                              100 * Cardinality(For(p, category[PoiOf(p)]))
                                >= 34 * row.member_count
=============================================================================
