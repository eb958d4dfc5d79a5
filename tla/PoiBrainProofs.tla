---------------------------- MODULE PoiBrainProofs ----------------------------
(***************************************************************************)
(* Proofs about PoiBrain, for any places, transactions and observations.   *)
(*                                                                         *)
(* The argument.  A redirect is set only by a merge that holds both rows,  *)
(* has seen both canonical and nothing pointing at the one merged away.    *)
(* Another merge that would set a redirect of either row, or point one at  *)
(* the row merged away, must hold that row too, so what the merge has seen *)
(* stays true until it commits.  An unmerge only removes a redirect, and   *)
(* holds the journal row that recorded it.  Coordinates and undo rest on   *)
(* this invariant; their own arguments stand before their sections.        *)
(***************************************************************************)
EXTENDS PoiBrain, TLAPS

\* What a transaction knows of the tables at each of its statements.
Knows(q) ==
    /\ q.pc # "idle" => q.b \in Pois
    /\ q.pc \notin {"idle", "readJournal", "find"} => q.a \in Pois
    /\ q.pc \in {"lockKept", "lockMerged", "checkIncoming", "merge"} =>
         q.a \in Here /\ q.b \in Here /\ q.a # q.b
    /\ q.pc \in {"lockMerged", "checkIncoming", "merge"} =>
         redirect[q.a] = NoPoi /\ q.was.ext # NoPoi
    /\ q.pc \in {"checkIncoming", "merge"} => redirect[q.b] = NoPoi
    /\ q.pc = "merge" => \A p \in Pois : redirect[p] # q.b
    /\ q.pc \in {"lockHead", "checkLater", "unmerge"} =>
         q.entry \in LiveMerges(q.b) /\ journal[q.entry].kept = q.a
    /\ q.pc \in {"find", "lockFound", "insertPoi"} => ~q.locked
    /\ q.pc = "setCoord" =>
         q.obs \in Observations /\ q.head \in Pois /\ q.head \in Here \cup {q.a}

\* No two transactions hold the same row.
LocksExclude ==
    \A r, s \in Requests : r # s =>
        /\ Locked(req[r]) \cap Locked(req[s]) = {}
        /\ Undoing(req[r]) \cap Undoing(req[s]) = {}

\* What an unmerge restores is a row.
SnapshotsAreRows == \A i \in DOMAIN journal : journal[i].snapshot.ext # NoPoi

IInv ==
    /\ TypeOK
    /\ NoChains
    /\ JournalInStep
    /\ SnapshotsAreRows
    /\ LocksExclude
    /\ \A r \in Requests : Knows(req[r])

-----------------------------------------------------------------------------
USE BrainAssumption

\* The idle slot is well typed, knows nothing and holds nothing.
LEMMA IdleFacts == /\ Idle \in RequestRecord
                   /\ Knows(Idle)
                   /\ Locked(Idle) = {} /\ Undoing(Idle) = {}
BY DEF Idle, RequestRecord, PCs, Contents, NoObservation, Knows, Locked, Undoing

\* Every consensus is a set of observations.
LEMMA ConsensusType ==
    ASSUME NEW rows, NEW red, NEW h
    PROVE  Consensus(rows, red, h) \in SUBSET Observations
BY DEF Consensus, Contributing, Eligible

JournalRow == [kept : Pois, merged : Pois, snapshot : Contents, live : BOOLEAN]

\* A position in the journal is a number, and there is a row at it.
LEMMA JournalType ==
    ASSUME TypeOK
    PROVE  /\ journal \in Seq(JournalRow)
           /\ DOMAIN journal = 1 .. Len(journal)
           /\ Len(journal) \in Nat
           /\ \A i \in DOMAIN journal : i \in Nat /\ journal[i] \in JournalRow
<1>1. journal \in Seq(JournalRow)  BY DEF TypeOK, JournalRow
<1>2. QED  BY <1>1

\* A transaction that moves on alone keeps the invariant, if what it knows now holds and
\* what it holds now is free.
LEMMA GotoStep ==
    ASSUME IInv, NEW r \in Requests, NEW q \in RequestRecord, Goto(r, q), Knows(q),
           \A s \in Requests \ {r} : /\ Locked(q) \cap Locked(req[s]) = {}
                                     /\ Undoing(q) \cap Undoing(req[s]) = {}
    PROVE  IInv'
<1> USE DEF IInv
<1>1. req' = [req EXCEPT ![r] = q] /\ UNCHANGED <<redirect, ext, refs, coord, log, expired,
              journal, overtaken, learned, arrivals>>
  BY DEF Goto
<1>2. \A s \in Requests : req'[s] = IF s = r THEN q ELSE req[s]
  BY <1>1 DEF TypeOK
<1>3. TypeOK'  BY <1>1 DEF TypeOK
<1>4. /\ NoChains' /\ JournalInStep' /\ SnapshotsAreRows'
  BY <1>1 DEF NoChains, JournalInStep, SnapshotsAreRows, LiveMerges, Here
<1>5. \A x : Knows(x) => Knows(x)'
  BY <1>1 DEF Knows, Here, LiveMerges
<1>6. \A x : Locked(x)' = Locked(x) /\ Undoing(x)' = Undoing(x)
  BY DEF Locked, Undoing
<1>7. \A s \in Requests : Knows(req[s])'
  BY <1>1, <1>2, <1>5 DEF Knows, LiveMerges, Here
<1>8. LocksExclude'
  BY <1>2 DEF LocksExclude
<1>9. QED  BY <1>3, <1>4, <1>7, <1>8

\* Waiting in Blockers keeps locks exclusive.
LEMMA Free ==
    ASSUME NEW r \in Requests, NEW s \in Requests \ {r}, Blockers(r) = {}
    PROVE  /\ req[r].pc \in {"lockKept", "lockHead", "lockFound"} => req[r].a \notin Locked(req[s])
           /\ req[r].pc = "lockMerged" => req[r].b \notin Locked(req[s])
           /\ req[r].pc = "readJournal" => req[r].b \notin Undoing(req[s])
<1>1. CASE req[r].pc \in {"lockKept", "lockHead", "lockFound"}  BY <1>1 DEF Blockers
<1>2. CASE req[r].pc = "lockMerged"  BY <1>2 DEF Blockers
<1>3. CASE req[r].pc = "readJournal"  BY <1>3 DEF Blockers
<1>4. QED  BY <1>1, <1>2, <1>3

\* Giving up keeps the invariant.
LEMMA RollbackStep ==
    ASSUME IInv, NEW r \in Requests, Rollback(r)
    PROVE  IInv'
BY IdleFacts, GotoStep DEF Rollback

\* So does the arrival of a call.
LEMMA ArriveStep ==
    ASSUME IInv, NEW r \in Requests, NEW q \in RequestRecord, Arrive(r, q), Knows(q),
           Locked(q) = {}, Undoing(q) = {}
    PROVE  IInv'
<1> USE DEF IInv
<1>1. /\ req' = [req EXCEPT ![r] = q] /\ arrivals' = arrivals + 1 /\ arrivals < MaxArrivals
      /\ UNCHANGED <<redirect, ext, refs, coord, log, expired, journal, overtaken, learned>>
  BY DEF Arrive
<1>2. \A s \in Requests : req'[s] = IF s = r THEN q ELSE req[s]
  BY <1>1 DEF TypeOK
<1>3. arrivals' \in 0 .. MaxArrivals  BY <1>1 DEF TypeOK
<1>4. TypeOK'  BY <1>1, <1>3 DEF TypeOK
<1>5. NoChains' /\ JournalInStep' /\ SnapshotsAreRows'
  BY <1>1 DEF NoChains, JournalInStep, SnapshotsAreRows, LiveMerges, Here
<1>6. \A s \in Requests : Knows(req[s])'
  BY <1>1, <1>2 DEF Knows, LiveMerges, Here
<1>7. LocksExclude'  BY <1>2 DEF LocksExclude
<1>8. QED  BY <1>4, <1>5, <1>6, <1>7

LEMMA CallStep ==
    ASSUME IInv, NEW r \in Requests, Call(r)
    PROVE  IInv'
<1>1. ASSUME NEW p \in Pois, CallUnmerge(r, p)  PROVE IInv'
  <2> DEFINE q == [Idle EXCEPT !.pc = "readJournal", !.b = p]
  <2>1. q \in RequestRecord /\ q.pc = "readJournal" /\ q.b = p
    BY IdleFacts DEF RequestRecord, Idle, PCs
  <2>2. Knows(q) /\ Locked(q) = {} /\ Undoing(q) = {}
    BY <2>1 DEF Knows, Locked, Undoing
  <2>3. QED  BY <1>1, <2>1, <2>2, ArriveStep DEF CallUnmerge
<1>2. ASSUME NEW p \in Pois, NEW o \in Pois, CallMerge(r, p, o)  PROVE IInv'
  <2> DEFINE q == [Idle EXCEPT !.pc = "lockKept", !.a = p, !.b = o]
  <2>1. q \in RequestRecord /\ q.pc = "lockKept" /\ q.a = p /\ q.b = o
    BY IdleFacts DEF RequestRecord, Idle, PCs
  <2>2. Knows(q) /\ Locked(q) = {} /\ Undoing(q) = {}
    BY <1>2, <2>1 DEF Knows, Locked, Undoing, CallMerge
  <2>3. QED  BY <1>2, <2>1, <2>2, ArriveStep DEF CallMerge
<1>3. ASSUME NEW p \in Pois, NEW o \in Observations \cup {NoObservation}, CallIngest(r, p, o)
      PROVE  IInv'
  <2> DEFINE q == [Idle EXCEPT !.pc = "find", !.b = p, !.obs = o]
  <2>1. q \in RequestRecord /\ q.pc = "find" /\ q.b = p /\ ~q.locked
    BY IdleFacts DEF RequestRecord, Idle, PCs
  <2>2. Knows(q) /\ Locked(q) = {} /\ Undoing(q) = {}
    BY <2>1 DEF Knows, Locked, Undoing
  <2>3. QED  BY <1>3, <2>1, <2>2, ArriveStep DEF CallIngest
<1>4. QED  BY <1>1, <1>2, <1>3 DEF Call

\* A transaction that only moves on keeps the invariant.
LEMMA MoveStep ==
    ASSUME IInv, NEW r \in Requests,
           \/ LockKept(r) \/ LockMerged(r) \/ CheckIncoming(r) \/ ReadJournal(r)
           \/ LockHead(r) \/ CheckLater(r) \/ Find(r) \/ LockFound(r) \/ InsertPoi(r)
    PROVE  IInv'
<1> DEFINE now == req[r]
<1>a. now \in RequestRecord /\ Knows(now)  BY DEF IInv, TypeOK
<1>b. \A s \in Requests \ {r} : /\ Locked(now) \cap Locked(req[s]) = {}
                                /\ Undoing(now) \cap Undoing(req[s]) = {}
  BY DEF IInv, LocksExclude
<1>c. TypeOK /\ NoChains /\ JournalInStep  BY DEF IInv
<1> HIDE DEF now
<1>1. CASE LockKept(r)
  <2> DEFINE q == [now EXCEPT !.pc = "lockMerged", !.was = Row(now.a)]
  <2>1. Ready(r, "lockKept") /\ (Rollback(r) \/ (redirect[now.a] = NoPoi /\ Goto(r, q)))
    BY <1>1 DEF LockKept, now
  <2>2. now.pc = "lockKept" /\ Blockers(r) = {}  BY <2>1 DEF Ready, now
  <2>3. now.a \in Pois /\ now.a \in Here  BY <1>a, <2>2 DEF Knows
  <2>4. Row(now.a) \in Contents
    BY <1>c, <2>3 DEF TypeOK, Contents, Row
  <2>5. q \in RequestRecord /\ q.pc = "lockMerged" /\ q.a = now.a /\ q.b = now.b
        /\ q.was.ext = ext[now.a]
    BY <1>a, <2>4 DEF RequestRecord, PCs, Row
  <2> HIDE DEF q
  <2>6. CASE redirect[now.a] = NoPoi /\ Goto(r, q)
    <3>1. Knows(q)  BY <1>a, <2>2, <2>3, <2>5, <2>6 DEF Knows, Here
    <3>2. Locked(q) = {now.a} /\ Undoing(q) = {}  BY <2>5 DEF Locked, Undoing
    <3>3. \A s \in Requests \ {r} : now.a \notin Locked(req[s])  BY <2>2, Free DEF now
    <3>4. QED  BY <2>5, <2>6, <3>1, <3>2, <3>3, GotoStep
  <2>7. QED  BY <2>1, <2>6, RollbackStep
<1>2. CASE LockMerged(r)
  <2> DEFINE q == [now EXCEPT !.pc = "checkIncoming"]
  <2>1. Ready(r, "lockMerged") /\ (Rollback(r) \/ (redirect[now.b] = NoPoi /\ Goto(r, q)))
    BY <1>2 DEF LockMerged, now
  <2>2. now.pc = "lockMerged" /\ Blockers(r) = {}  BY <2>1 DEF Ready, now
  <2>3. q \in RequestRecord /\ q.pc = "checkIncoming" /\ q.a = now.a /\ q.b = now.b
        /\ q.was = now.was
    BY <1>a DEF RequestRecord, PCs
  <2> HIDE DEF q
  <2>4. CASE redirect[now.b] = NoPoi /\ Goto(r, q)
    <3>1. Knows(q)  BY <1>a, <2>2, <2>3, <2>4 DEF Knows
    <3>2. Locked(q) = Locked(now) \cup {now.b} /\ Undoing(q) = {}
      BY <2>2, <2>3 DEF Locked, Undoing
    <3>3. \A s \in Requests \ {r} : now.b \notin Locked(req[s])  BY <2>2, Free DEF now
    <3>4. QED  BY <1>b, <2>3, <2>4, <3>1, <3>2, <3>3, GotoStep
  <2>5. QED  BY <2>1, <2>4, RollbackStep
<1>3. CASE CheckIncoming(r)
  <2> DEFINE q == [now EXCEPT !.pc = "merge"]
  <2>1. Ready(r, "checkIncoming")
        /\ (Rollback(r) \/ ((\A p \in Pois : redirect[p] # now.b) /\ Goto(r, q)))
    BY <1>3 DEF CheckIncoming, now
  <2>2. now.pc = "checkIncoming"  BY <2>1 DEF Ready, now
  <2>3. q \in RequestRecord /\ q.pc = "merge" /\ q.a = now.a /\ q.b = now.b /\ q.was = now.was
    BY <1>a DEF RequestRecord, PCs
  <2> HIDE DEF q
  <2>4. CASE (\A p \in Pois : redirect[p] # now.b) /\ Goto(r, q)
    <3>1. Knows(q)  BY <1>a, <2>2, <2>3, <2>4 DEF Knows
    <3>2. Locked(q) = Locked(now) /\ Undoing(q) = {}  BY <2>2, <2>3 DEF Locked, Undoing
    <3>3. QED  BY <1>b, <2>3, <2>4, <3>1, <3>2, GotoStep
  <2>5. QED  BY <2>1, <2>4, RollbackStep
<1>4. CASE ReadJournal(r)
  <2>1. Ready(r, "readJournal") /\ (Rollback(r) \/ \E i \in LiveMerges(now.b) :
            Goto(r, [now EXCEPT !.pc = "lockHead", !.entry = i, !.a = journal[i].kept]))
    BY <1>4 DEF ReadJournal, now
  <2>2. now.pc = "readJournal" /\ Blockers(r) = {}  BY <2>1 DEF Ready, now
  <2>3. ASSUME NEW i \in LiveMerges(now.b),
               Goto(r, [now EXCEPT !.pc = "lockHead", !.entry = i, !.a = journal[i].kept])
        PROVE  IInv'
    <3> DEFINE q == [now EXCEPT !.pc = "lockHead", !.entry = i, !.a = journal[i].kept]
    <3>1. i \in Nat /\ journal[i].kept \in Pois  BY <1>c, JournalType DEF LiveMerges, JournalRow
    <3>2. q \in RequestRecord /\ q.pc = "lockHead" /\ q.a = journal[i].kept /\ q.b = now.b
          /\ q.entry = i
      BY <1>a, <3>1 DEF RequestRecord, PCs
    <3>3. Goto(r, q)  BY <2>3
    <3> HIDE DEF q
    <3>4. Knows(q)  BY <1>a, <2>2, <3>1, <3>2 DEF Knows
    <3>5. Locked(q) = {} /\ Undoing(q) = {now.b}  BY <3>2 DEF Locked, Undoing
    <3>6. \A s \in Requests \ {r} : now.b \notin Undoing(req[s])  BY <2>2, Free DEF now
    <3>7. QED  BY <3>2, <3>3, <3>4, <3>5, <3>6, GotoStep
  <2>4. QED  BY <2>1, <2>3, RollbackStep
<1>5. CASE LockHead(r)
  <2> DEFINE q == [now EXCEPT !.pc = "checkLater"]
  <2>1. now.pc = "lockHead" /\ Blockers(r) = {} /\ Goto(r, q)
    BY <1>5 DEF LockHead, Ready, now
  <2>2. q \in RequestRecord /\ q.pc = "checkLater" /\ q.a = now.a /\ q.b = now.b
        /\ q.entry = now.entry
    BY <1>a DEF RequestRecord, PCs
  <2> HIDE DEF q
  <2>3. Knows(q)  BY <1>a, <2>1, <2>2 DEF Knows
  <2>4. Locked(q) = {now.a} /\ Undoing(q) = Undoing(now)  BY <2>1, <2>2 DEF Locked, Undoing
  <2>5. \A s \in Requests \ {r} : now.a \notin Locked(req[s])  BY <2>1, Free DEF now
  <2>6. QED  BY <1>b, <2>1, <2>2, <2>3, <2>4, <2>5, GotoStep
<1>6. CASE CheckLater(r)
  <2> DEFINE q == [now EXCEPT !.pc = "unmerge"]
  <2>1. now.pc = "checkLater" /\ (Rollback(r) \/ Goto(r, q))
    BY <1>6 DEF CheckLater, Ready, now
  <2>2. q \in RequestRecord /\ q.pc = "unmerge" /\ q.a = now.a /\ q.b = now.b
        /\ q.entry = now.entry
    BY <1>a DEF RequestRecord, PCs
  <2> HIDE DEF q
  <2>3. Knows(q)  BY <1>a, <2>1, <2>2 DEF Knows
  <2>4. Locked(q) = Locked(now) /\ Undoing(q) = Undoing(now)
    BY <2>1, <2>2 DEF Locked, Undoing
  <2>5. QED  BY <1>b, <2>1, <2>2, <2>3, <2>4, GotoStep, RollbackStep
<1>7. CASE Find(r)
  <2>1. now.pc = "find"  BY <1>7 DEF Find, Ready, now
  <2>2. now.b \in Pois /\ ~now.locked  BY <1>a, <2>1 DEF Knows
  <2>3. PICK p \in Pois, pc \in {"lockFound", "insertPoi"} :
            Goto(r, [now EXCEPT !.pc = pc, !.a = p])
    BY <1>7, <2>2 DEF Find, now, Canonical, Here
  <2> DEFINE q == [now EXCEPT !.pc = pc, !.a = p]
  <2>4. q \in RequestRecord /\ q.pc = pc /\ q.a = p /\ q.b = now.b /\ q.locked = now.locked
    BY <1>a DEF RequestRecord, PCs
  <2>5. Goto(r, q)  BY <2>3
  <2> HIDE DEF q
  <2>6. Knows(q)  BY <2>2, <2>4 DEF Knows
  <2>7. Locked(q) = {} /\ Undoing(q) = {}  BY <2>4 DEF Locked, Undoing
  <2>8. QED  BY <2>4, <2>5, <2>6, <2>7, GotoStep
<1>8. CASE LockFound(r)
  <2> DEFINE q == [now EXCEPT !.pc = "observe", !.locked = TRUE]
  <2>1. now.pc = "lockFound" /\ Blockers(r) = {} /\ Goto(r, q)
    BY <1>8 DEF LockFound, Ready, now
  <2>2. q \in RequestRecord /\ q.pc = "observe" /\ q.a = now.a /\ q.b = now.b
    BY <1>a DEF RequestRecord, PCs
  <2> HIDE DEF q
  <2>3. Knows(q)  BY <1>a, <2>1, <2>2 DEF Knows
  <2>4. Locked(q) \subseteq {now.a} /\ Undoing(q) = {}  BY <2>2 DEF Locked, Undoing
  <2>5. \A s \in Requests \ {r} : now.a \notin Locked(req[s])  BY <2>1, Free DEF now
  <2>6. QED  BY <2>1, <2>2, <2>3, <2>4, <2>5, GotoStep
<1>9. CASE InsertPoi(r)
  <2> DEFINE q == [now EXCEPT !.pc = "observe"]
  <2>1. now.pc = "insertPoi" /\ Goto(r, q)
    BY <1>9 DEF InsertPoi, Ready, now
  <2>2. q \in RequestRecord /\ q.pc = "observe" /\ q.a = now.a /\ q.b = now.b
        /\ q.locked = now.locked
    BY <1>a DEF RequestRecord, PCs
  <2> HIDE DEF q
  <2>3. Knows(q)  BY <1>a, <2>1, <2>2 DEF Knows
  <2>4. ~q.locked  BY <1>a, <2>1, <2>2 DEF Knows
  <2>5. Locked(q) = {} /\ Undoing(q) = {}  BY <2>2, <2>4 DEF Locked, Undoing
  <2>6. QED  BY <2>1, <2>2, <2>3, <2>5, GotoStep
<1>10. QED
  BY <1>1, <1>2, <1>3, <1>4, <1>5, <1>6, <1>7, <1>8, <1>9

-----------------------------------------------------------------------------
\* The same transaction, but for what history says of its reads.
Alike(q, n) ==
    /\ n.pc = q.pc /\ n.a = q.a /\ n.b = q.b /\ n.was = q.was /\ n.entry = q.entry
    /\ n.locked = q.locked /\ n.obs = q.obs /\ n.head = q.head

LEMMA AlikeHolds ==
    ASSUME NEW q, NEW n, Alike(q, n)
    PROVE  Locked(n) = Locked(q) /\ Undoing(n) = Undoing(q)
BY DEF Alike, Locked, Undoing

\* A commit ends its transaction and leaves the others where they are, with the locks
\* they hold.
LEMMA CommitOthers ==
    ASSUME IInv, NEW r \in Requests, NEW H, Commit(r, H)
    PROVE  /\ req' \in [Requests -> RequestRecord]
           /\ req'[r] = Idle
           /\ \A s \in Requests \ {r} : Alike(req[s], req'[s])
           /\ LocksExclude'
<1>1. req \in [Requests -> RequestRecord]  BY DEF IInv, TypeOK
<1> DEFINE late(s) == H \cap {req[s].head, Canon(req[s].a)} # {}
           q(s) == [req[s] EXCEPT !.late = @ \/ (req[s].pc = "setCoord" /\ late(s))]
<1>2. ASSUME NEW s \in Requests  PROVE q(s) \in RequestRecord /\ Alike(req[s], q(s))
  <2>1. req[s] \in RequestRecord  BY <1>1
  <2>2. (req[s].late \/ (req[s].pc = "setCoord" /\ late(s))) \in BOOLEAN
    OBVIOUS
  <2>3. QED  BY <2>1, <2>2 DEF RequestRecord, Alike
<1>3. req' = [s \in Requests |-> IF s = r THEN Idle ELSE q(s)]
  BY DEF Commit
<1> HIDE DEF q
<1>4. /\ req' \in [Requests -> RequestRecord]
      /\ req'[r] = Idle
      /\ \A s \in Requests \ {r} : Alike(req[s], req'[s])
  BY <1>2, <1>3, IdleFacts
<1>5. /\ Locked(req'[r]) = {} /\ Undoing(req'[r]) = {}
      /\ \A s \in Requests \ {r} : Locked(req'[s]) = Locked(req[s])
                                  /\ Undoing(req'[s]) = Undoing(req[s])
  BY <1>4, IdleFacts, AlikeHolds
<1>6. LocksExclude'  BY <1>5 DEF IInv, LocksExclude
<1>7. QED  BY <1>4, <1>6

\* What another transaction knows depends on redirects, rows and live journal entries; a
\* commit that keeps these for it keeps what it knows.
LEMMA StillKnows ==
    ASSUME IInv, NEW s \in Requests, Alike(req[s], req'[s]),
           Here \subseteq Here',
           req[s].pc \in {"lockMerged", "checkIncoming", "merge"} => redirect'[req[s].a] = NoPoi,
           req[s].pc \in {"checkIncoming", "merge"} => redirect'[req[s].b] = NoPoi,
           req[s].pc = "merge" => \A p \in Pois : redirect'[p] # req[s].b,
           req[s].pc \in {"lockHead", "checkLater", "unmerge"} =>
               /\ req[s].entry \in DOMAIN journal' /\ journal'[req[s].entry].live
               /\ journal'[req[s].entry].merged = req[s].b
               /\ journal'[req[s].entry].kept = req[s].a
    PROVE  Knows(req[s])'
<1>1. Knows(req[s])  BY DEF IInv
<1>2. QED  BY <1>1 DEF Alike, Knows, LiveMerges

LEMMA IdleKnows ==
    ASSUME NEW s \in Requests, req'[s] = Idle
    PROVE  Knows(req[s])'
BY DEF Knows, Idle

\* A commit that leaves redirects and journal alone, and no row without an id, keeps
\* the invariant.
LEMMA PlainCommit ==
    ASSUME IInv, NEW r \in Requests, NEW H, Commit(r, H), TypeOK',
           redirect' = redirect, journal' = journal, Here \subseteq Here'
    PROVE  IInv'
<1>1. /\ req'[r] = Idle /\ LocksExclude'
      /\ \A s \in Requests \ {r} : Alike(req[s], req'[s])
  BY CommitOthers
<1>2. NoChains' /\ JournalInStep' /\ SnapshotsAreRows'
  BY DEF IInv, NoChains, JournalInStep, SnapshotsAreRows, LiveMerges
<1>3. ASSUME NEW s \in Requests  PROVE Knows(req[s])'
  <2>1. CASE s = r  BY <1>1, <2>1, IdleKnows
  <2>2. CASE s # r
    <3>1. Knows(req[s])  BY DEF IInv
    <3>2. QED  BY <1>1, <2>2, <3>1, StillKnows DEF Knows, LiveMerges
  <2>3. QED  BY <2>1, <2>2
<1>4. QED  BY <1>1, <1>2, <1>3 DEF IInv

\* What an ingestion writes to pois is well typed, and a row stays a row.
LEMMA WriteType ==
    ASSUME IInv, NEW r \in Requests, req[r].pc \in {"observe", "setCoord"}, WritePoi(r)
    PROVE  /\ ext' \in [Pois -> Pois \cup {NoPoi}]
           /\ refs' \in [Pois -> SUBSET Pois]
           /\ learned' \subseteq Pois
           /\ Here \subseteq Here'
<1>1. req[r].a \in Pois /\ req[r].b \in Pois  BY DEF IInv, Knows
<1>2. TypeOK  BY DEF IInv
<1>3. CASE req[r].locked \/ req[r].a \notin Here
  <2>1. /\ ext' = [ext EXCEPT ![req[r].a] = req[r].b]
        /\ refs' = [refs EXCEPT ![req[r].a] = @ \cup {req[r].b}]
        /\ learned' \subseteq learned \cup {req[r].a}
    BY <1>3 DEF WritePoi
  <2>2. QED  BY <1>1, <1>2, <2>1 DEF TypeOK, Here
<1>4. CASE ~(req[r].locked \/ req[r].a \notin Here)
  BY <1>2, <1>4 DEF WritePoi, TypeOK, Here
<1>5. QED  BY <1>3, <1>4

\* The statements of an ingestion that may commit.
LEMMA ObserveStep ==
    ASSUME IInv, NEW r \in Requests, Observe(r)
    PROVE  IInv'
<1> DEFINE now == req[r]
           row == <<now.obs, now.a>>
           q == [now EXCEPT !.pc = "setCoord", !.head = Canon(now.a),
                            !.from = Consensus(log \cup {row}, redirect, Canon(now.a))]
<1>1. now \in RequestRecord /\ Knows(now) /\ TypeOK /\ now.pc = "observe"
  BY DEF IInv, TypeOK, Observe, Ready
<1>2. CASE now.obs = NoObservation \/ row \in log
  <2>1. WritePoi(r) /\ Commit(r, {}) /\ UNCHANGED <<redirect, coord, log, expired, journal,
            overtaken, arrivals>>
    BY <1>2 DEF Observe
  <2>2. TypeOK'  BY <1>1, <2>1, WriteType, CommitOthers DEF TypeOK
  <2>3. QED  BY <1>1, <2>1, <2>2, WriteType, PlainCommit
<1>3. CASE ~(now.obs = NoObservation \/ row \in log)
  <2>1. Goto(r, q)  BY <1>3 DEF Observe
  <2>2. now.a \in Pois /\ Canon(now.a) \in Pois /\ Canon(now.a) \in Here \cup {now.a}
    BY <1>1 DEF Knows, Canon, TypeOK, IInv, NoChains
  <2>3. q \in RequestRecord /\ q.pc = "setCoord" /\ q.a = now.a /\ q.b = now.b
        /\ q.obs = now.obs /\ q.head = Canon(now.a) /\ q.locked = now.locked
    BY <1>1, <2>2, ConsensusType DEF RequestRecord, PCs
  <2>4. now.obs \in Observations  BY <1>1, <1>3 DEF RequestRecord
  <2> HIDE DEF q
  <2>5. Knows(q)  BY <1>1, <2>2, <2>3, <2>4 DEF Knows
  <2>6. Locked(q) = Locked(now) /\ Undoing(q) = Undoing(now)
    BY <1>1, <2>3 DEF Locked, Undoing
  <2>7. \A s \in Requests \ {r} : /\ Locked(now) \cap Locked(req[s]) = {}
                                  /\ Undoing(now) \cap Undoing(req[s]) = {}
    BY DEF IInv, LocksExclude
  <2>8. QED  BY <2>1, <2>3, <2>5, <2>6, <2>7, GotoStep
<1>4. QED  BY <1>2, <1>3

LEMMA SetCoordStep ==
    ASSUME IInv, NEW r \in Requests, SetCoord(r)
    PROVE  IInv'
<1> DEFINE now == req[r]
<1>1. now \in RequestRecord /\ Knows(now) /\ TypeOK /\ now.pc = "setCoord"
  BY DEF IInv, TypeOK, SetCoord, Ready
<1>2. now.obs \in Observations /\ now.head \in Pois /\ now.a \in Pois
      /\ now.from \in SUBSET Observations /\ Canon(now.a) \in Pois
  BY <1>1 DEF Knows, Canon, TypeOK, RequestRecord
<1>3. /\ WritePoi(r) /\ Commit(r, {now.head, Canon(now.a)})
      /\ log' = log \cup {<<now.obs, now.a>>}
      /\ coord' = [coord EXCEPT ![now.head] = now.from]
      /\ overtaken' \subseteq overtaken \cup {now.head, Canon(now.a)}
      /\ UNCHANGED <<redirect, expired, journal, arrivals>>
  BY DEF SetCoord
<1>4. /\ coord' \in [Pois -> SUBSET Observations] /\ log' \subseteq Observations \X Pois
      /\ overtaken' \subseteq Pois
  BY <1>1, <1>2, <1>3 DEF TypeOK
<1>5. TypeOK'  BY <1>1, <1>3, <1>4, WriteType, CommitOthers DEF TypeOK
<1>6. QED  BY <1>1, <1>3, <1>5, WriteType, PlainCommit

\* poi_merge's commit.
LEMMA MergeStep ==
    ASSUME IInv, NEW r \in Requests, Merge(r)
    PROVE  IInv'
<1>1. /\ TypeOK /\ NoChains /\ JournalInStep /\ SnapshotsAreRows /\ LocksExclude
      /\ req[r] \in RequestRecord /\ Knows(req[r]) /\ req[r].pc = "merge"
  BY DEF IInv, TypeOK, Merge, Ready
<1>a. PICK a \in Pois, b \in Pois, was \in Contents :
          a = req[r].a /\ b = req[r].b /\ was = req[r].was
  BY <1>1 DEF Knows, RequestRecord
<1>2. /\ a \in Here /\ b \in Here /\ a # b
      /\ redirect[a] = NoPoi /\ redirect[b] = NoPoi /\ was.ext # NoPoi
      /\ \A p \in Pois : redirect[p] # b
  BY <1>1, <1>a DEF Knows
<1> DEFINE both == Union(was, Row(b))
           entry == [kept |-> a, merged |-> b, snapshot |-> was, live |-> TRUE]
<1>3. /\ journal' = Append(journal, entry)
      /\ ext' = [ext EXCEPT ![a] = both.ext]
      /\ refs' = [refs EXCEPT ![a] = both.refs]
      /\ redirect' = [redirect EXCEPT ![b] = a]
      /\ coord' = [coord EXCEPT ![a] = Consensus(log, redirect', a)]
      /\ overtaken' = overtaken \ {a}
      /\ Commit(r, {a, b})
      /\ UNCHANGED <<log, expired, learned, arrivals>>
  BY <1>a DEF Merge
<1>4. both.ext \in Pois /\ both.refs \in SUBSET Pois
  BY <1>1, <1>2 DEF Union, Contents, TypeOK, Row
<1>5. entry \in JournalRow /\ journal \in Seq(JournalRow) /\ Len(journal) \in Nat
  BY <1>1, <1>2, JournalType DEF JournalRow
<1> DEFINE top == Len(journal) + 1
<1>6. /\ journal' \in Seq(JournalRow) /\ DOMAIN journal' = DOMAIN journal \cup {top}
      /\ top \notin DOMAIN journal /\ journal'[top] = entry
      /\ \A i \in DOMAIN journal : journal'[i] = journal[i]
  <2> HIDE DEF entry
  <2>1. journal' = Append(journal, entry)  BY <1>3
  <2>2. QED  BY <1>5, <2>1
<1>7. /\ req' \in [Requests -> RequestRecord] /\ req'[r] = Idle /\ LocksExclude'
      /\ \A s \in Requests \ {r} : Alike(req[s], req'[s])
  BY <1>3, CommitOthers
<1>8. TypeOK'
  <2>1. coord' \in [Pois -> SUBSET Observations]
    BY <1>1, <1>3, ConsensusType DEF TypeOK
  <2>2. redirect' \in [Pois -> Pois \cup {NoPoi}] /\ overtaken' \subseteq Pois
    BY <1>1, <1>2, <1>3 DEF TypeOK
  <2>3. ext' \in [Pois -> Pois \cup {NoPoi}] /\ refs' \in [Pois -> SUBSET Pois]
    BY <1>1, <1>3, <1>4 DEF TypeOK
  <2>4. QED  BY <1>1, <1>3, <1>6, <1>7, <2>1, <2>2, <2>3 DEF TypeOK, JournalRow
<1>9. Here' = Here
  <2>1. ext' = [ext EXCEPT ![a] = both.ext] /\ both.ext # NoPoi  BY <1>3, <1>4
  <2> HIDE DEF both
  <2>2. QED  BY <1>1, <1>2, <2>1 DEF Here, TypeOK
<1>10. \A p \in Pois : redirect'[p] = IF p = b THEN a ELSE redirect[p]
  BY <1>1, <1>3 DEF TypeOK
<1>11. NoChains'
  BY <1>1, <1>2, <1>9, <1>10 DEF NoChains, Here
<1>12. JournalInStep'
  <2>1. ASSUME NEW p \in Pois, p # b  PROVE LiveMerges(p)' = LiveMerges(p)
    BY <1>6, <2>1 DEF LiveMerges
  <2>2. LiveMerges(b)' = {top}
    <3>1. LiveMerges(b) = {}  BY <1>1, <1>2 DEF JournalInStep
    <3>2. QED  BY <1>6, <3>1 DEF LiveMerges
  <2>3. ASSUME NEW p \in Pois
        PROVE  /\ redirect'[p] = NoPoi => LiveMerges(p)' = {}
               /\ redirect'[p] # NoPoi => \E i \in LiveMerges(p)' :
                     LiveMerges(p)' = {i} /\ journal'[i].kept = redirect'[p]
    <3>1. CASE p = b
      BY <1>2, <1>6, <1>10, <2>2, <3>1
    <3>2. CASE p # b
      <4>1. /\ redirect[p] = NoPoi => LiveMerges(p) = {}
            /\ redirect[p] # NoPoi => \E i \in LiveMerges(p) :
                  LiveMerges(p) = {i} /\ journal[i].kept = redirect[p]
        BY <1>1 DEF JournalInStep
      <4>2. \A i \in LiveMerges(p) : journal'[i] = journal[i]
        BY <1>6 DEF LiveMerges
      <4>3. QED  BY <1>10, <2>1, <3>2, <4>1, <4>2
    <3>3. QED  BY <3>1, <3>2
  <2>4. QED  BY <2>3 DEF JournalInStep
<1>13. SnapshotsAreRows'
  BY <1>1, <1>2, <1>6 DEF SnapshotsAreRows
<1>14. ASSUME NEW s \in Requests  PROVE Knows(req[s])'
  <2>1. CASE s = r  BY <1>7, <2>1, IdleKnows
  <2>2. CASE s # r
    <3>1. Knows(req[s]) /\ Alike(req[s], req'[s])  BY <1>7, <2>2 DEF IInv
    <3>2. Locked(req[s]) \cap {a, b} = {}
      BY <1>1, <1>a, <2>2 DEF LocksExclude, Locked
    <3>3. req[s].pc \in {"lockMerged", "checkIncoming", "merge"} => redirect'[req[s].a] = NoPoi
      BY <1>10, <3>1, <3>2 DEF Knows, Locked
    <3>4. req[s].pc \in {"checkIncoming", "merge"} => redirect'[req[s].b] = NoPoi
      BY <1>10, <3>1, <3>2 DEF Knows, Locked
    <3>5. req[s].pc = "merge" => \A p \in Pois : redirect'[p] # req[s].b
      BY <1>10, <3>1, <3>2 DEF Knows, Locked
    <3>6. req[s].pc \in {"lockHead", "checkLater", "unmerge"} =>
               /\ req[s].entry \in DOMAIN journal' /\ journal'[req[s].entry].live
               /\ journal'[req[s].entry].merged = req[s].b
               /\ journal'[req[s].entry].kept = req[s].a
      BY <1>6, <3>1 DEF Knows, LiveMerges
    <3>7. QED  BY <1>9, <3>1, <3>3, <3>4, <3>5, <3>6, StillKnows
  <2>3. QED  BY <2>1, <2>2
<1>15. QED  BY <1>7, <1>8, <1>11, <1>12, <1>13, <1>14 DEF IInv

\* poi_unmerge's commit.
LEMMA UnmergeStep ==
    ASSUME IInv, NEW r \in Requests, Unmerge(r)
    PROVE  IInv'
<1>1. /\ TypeOK /\ NoChains /\ JournalInStep /\ SnapshotsAreRows /\ LocksExclude
      /\ req[r] \in RequestRecord /\ Knows(req[r]) /\ req[r].pc = "unmerge"
  BY DEF IInv, TypeOK, Unmerge, Ready
<1>a. PICK a \in Pois, b \in Pois, e \in DOMAIN journal :
          a = req[r].a /\ b = req[r].b /\ e = req[r].entry
  BY <1>1 DEF Knows, LiveMerges
<1>2. /\ e \in LiveMerges(b) /\ e \in DOMAIN journal
      /\ journal[e].live /\ journal[e].merged = b /\ journal[e].kept = a
  BY <1>1, <1>a DEF Knows, LiveMerges
<1>3. /\ journal \in Seq(JournalRow) /\ journal[e] \in JournalRow
      /\ DOMAIN journal = 1 .. Len(journal)
  BY <1>1, <1>2, JournalType
<1> DEFINE snap == journal[e].snapshot
<1>4. snap \in Contents /\ snap.ext \in Pois /\ snap.refs \in SUBSET Pois
  BY <1>1, <1>2, <1>3 DEF JournalRow, Contents, SnapshotsAreRows
<1>5. /\ ext' = [ext EXCEPT ![a] = snap.ext]
      /\ refs' = [refs EXCEPT ![a] = snap.refs]
      /\ redirect' = [redirect EXCEPT ![b] = NoPoi]
      /\ journal' = [journal EXCEPT ![e].live = FALSE]
      /\ coord' = [coord EXCEPT ![a] = Consensus(log, redirect', a),
                                ![b] = Consensus(log, redirect', b)]
      /\ overtaken' = overtaken \ {a, b}
      /\ Commit(r, {a, b})
      /\ UNCHANGED <<log, expired, learned, arrivals>>
  BY <1>a DEF Unmerge
<1>6. /\ req' \in [Requests -> RequestRecord] /\ req'[r] = Idle /\ LocksExclude'
      /\ \A s \in Requests \ {r} : Alike(req[s], req'[s])
  BY <1>5, CommitOthers
<1>7. /\ journal' \in Seq(JournalRow) /\ DOMAIN journal' = DOMAIN journal
      /\ ~journal'[e].live
      /\ \A i \in DOMAIN journal : i # e => journal'[i] = journal[i]
      /\ \A i \in DOMAIN journal : journal'[i].snapshot = journal[i].snapshot
  <2> DEFINE stamped == [journal[e] EXCEPT !.live = FALSE]
  <2>1. /\ stamped \in JournalRow /\ ~stamped.live
        /\ stamped.snapshot = journal[e].snapshot
    BY <1>3 DEF JournalRow
  <2>2. journal' = [journal EXCEPT ![e] = stamped]  BY <1>5
  <2> HIDE DEF stamped
  <2>3. QED  BY <1>2, <1>3, <2>1, <2>2
<1>8. TypeOK'
  <2>1. coord' \in [Pois -> SUBSET Observations]
    <3>1. /\ Consensus(log, redirect', a) \in SUBSET Observations
          /\ Consensus(log, redirect', b) \in SUBSET Observations
      BY ConsensusType
    <3>2. QED  BY <1>1, <1>5, <3>1 DEF TypeOK
  <2>2. redirect' \in [Pois -> Pois \cup {NoPoi}] /\ overtaken' \subseteq Pois
    BY <1>1, <1>5 DEF TypeOK
  <2>3. ext' \in [Pois -> Pois \cup {NoPoi}] /\ refs' \in [Pois -> SUBSET Pois]
    BY <1>1, <1>4, <1>5 DEF TypeOK
  <2>4. QED  BY <1>1, <1>5, <1>6, <1>7, <2>1, <2>2, <2>3 DEF TypeOK, JournalRow
<1>9. Here \subseteq Here'
  BY <1>1, <1>4, <1>5 DEF Here, TypeOK
<1>10. \A p \in Pois : redirect'[p] = IF p = b THEN NoPoi ELSE redirect[p]
  BY <1>1, <1>5 DEF TypeOK
<1>11. NoChains'
  BY <1>1, <1>9, <1>10 DEF NoChains, Here
<1>12. JournalInStep'
  <2>1. ASSUME NEW p \in Pois, p # b  PROVE LiveMerges(p)' = LiveMerges(p)
    <3>1. journal'[e].live = FALSE  BY <1>7
    <3>2. e \notin LiveMerges(p)  BY <1>2, <2>1 DEF LiveMerges
    <3>3. QED  BY <1>7, <3>2 DEF LiveMerges
  <2>2. LiveMerges(b)' = {}
    <3>1. redirect[b] # NoPoi  BY <1>1, <1>2 DEF JournalInStep
    <3>2. LiveMerges(b) = {e}
      BY <1>1, <1>2, <3>1 DEF JournalInStep
    <3>3. QED  BY <1>7, <3>2 DEF LiveMerges
  <2>3. ASSUME NEW p \in Pois
        PROVE  /\ redirect'[p] = NoPoi => LiveMerges(p)' = {}
               /\ redirect'[p] # NoPoi => \E i \in LiveMerges(p)' :
                     LiveMerges(p)' = {i} /\ journal'[i].kept = redirect'[p]
    <3>1. CASE p = b  BY <1>10, <2>2, <3>1
    <3>2. CASE p # b
      <4>1. /\ redirect[p] = NoPoi => LiveMerges(p) = {}
            /\ redirect[p] # NoPoi => \E i \in LiveMerges(p) :
                  LiveMerges(p) = {i} /\ journal[i].kept = redirect[p]
        BY <1>1 DEF JournalInStep
      <4>2. \A i \in LiveMerges(p) : journal'[i] = journal[i]
        BY <1>2, <1>7, <3>2 DEF LiveMerges
      <4>3. QED  BY <1>10, <2>1, <3>2, <4>1, <4>2
    <3>3. QED  BY <3>1, <3>2
  <2>4. QED  BY <2>3 DEF JournalInStep
<1>13. SnapshotsAreRows'
  BY <1>1, <1>7 DEF SnapshotsAreRows
<1>14. ASSUME NEW s \in Requests  PROVE Knows(req[s])'
  <2>1. CASE s = r  BY <1>6, <2>1, IdleKnows
  <2>2. CASE s # r
    <3>1. Knows(req[s]) /\ Alike(req[s], req'[s])  BY <1>6, <2>2 DEF IInv
    <3>2. req[s].pc \in {"lockMerged", "checkIncoming", "merge"} => redirect'[req[s].a] = NoPoi
      BY <1>10, <3>1 DEF Knows
    <3>3. req[s].pc \in {"checkIncoming", "merge"} => redirect'[req[s].b] = NoPoi
      BY <1>10, <3>1 DEF Knows
    <3>4. req[s].pc = "merge" => \A p \in Pois : redirect'[p] # req[s].b
      BY <1>1, <1>10, <3>1 DEF Knows
    <3>5. req[s].pc \in {"lockHead", "checkLater", "unmerge"} =>
               /\ req[s].entry \in DOMAIN journal' /\ journal'[req[s].entry].live
               /\ journal'[req[s].entry].merged = req[s].b
               /\ journal'[req[s].entry].kept = req[s].a
      <4>1. SUFFICES ASSUME req[s].pc \in {"lockHead", "checkLater", "unmerge"}
                     PROVE  req[s].entry \in DOMAIN journal /\ req[s].entry # e
                            /\ journal[req[s].entry].live
                            /\ journal[req[s].entry].merged = req[s].b
                            /\ journal[req[s].entry].kept = req[s].a
        BY <1>7
      <4>2. req[s].b # b  BY <1>1, <1>a, <2>2, <4>1 DEF LocksExclude, Undoing
      <4>3. QED  BY <1>2, <3>1, <4>1, <4>2 DEF Knows, LiveMerges
    <3>6. QED  BY <1>9, <3>1, <3>2, <3>3, <3>4, <3>5, StillKnows
  <2>3. QED  BY <2>1, <2>2
<1>15. QED  BY <1>6, <1>8, <1>11, <1>12, <1>13, <1>14 DEF IInv

\* Time and the purge touch neither redirects nor journal, and nobody's statement.
LEMMA QuietStep ==
    ASSUME IInv, TypeOK', redirect' = redirect, journal' = journal, ext' = ext,
           \A s \in Requests : Alike(req[s], req'[s])
    PROVE  IInv'
<1>1. NoChains' /\ JournalInStep' /\ SnapshotsAreRows' /\ Here' = Here
  BY DEF IInv, NoChains, JournalInStep, SnapshotsAreRows, LiveMerges, Here
<1>2. ASSUME NEW s \in Requests  PROVE Knows(req[s])'
  <2>1. Knows(req[s])  BY DEF IInv
  <2>2. QED  BY <1>1, <2>1, StillKnows DEF Knows, LiveMerges
<1>3. \A s \in Requests : /\ Locked(req'[s]) = Locked(req[s])
                          /\ Undoing(req'[s]) = Undoing(req[s])
  BY AlikeHolds
<1>4. LocksExclude'  BY <1>3 DEF IInv, LocksExclude
<1>5. QED  BY <1>1, <1>2, <1>4 DEF IInv

LEMMA ExpireStep ==
    ASSUME IInv, NEW o \in Observations, Expire(o)
    PROVE  IInv'
<1> DEFINE q(s) == [req[s] EXCEPT !.late = @ \/ o \in req[s].from]
<1>1. TypeOK  BY DEF IInv
<1>2. req' = [s \in Requests |-> q(s)] /\ o \in Perishable
      /\ expired' = expired \cup {o} /\ overtaken' = overtaken \cup {p \in Pois : o \in coord[p]}
      /\ UNCHANGED <<redirect, ext, refs, coord, log, journal, learned, arrivals>>
  BY DEF Expire
<1>3. ASSUME NEW s \in Requests  PROVE q(s) \in RequestRecord /\ Alike(req[s], q(s))
  <2>1. req[s] \in RequestRecord  BY <1>1 DEF TypeOK
  <2>2. (req[s].late \/ o \in req[s].from) \in BOOLEAN  OBVIOUS
  <2>3. QED  BY <2>1, <2>2 DEF RequestRecord, Alike
<1> HIDE DEF q
<1>4. TypeOK'  BY <1>1, <1>2, <1>3 DEF TypeOK
<1>5. QED  BY <1>2, <1>3, <1>4, QuietStep

LEMMA PurgeStep ==
    ASSUME IInv, Purge
    PROVE  IInv'
<1>1. TypeOK  BY DEF IInv
<1> DEFINE gone == {row \in log : row[1] \in expired}
           heads == {Canon(row[2]) : row \in gone}
<1>2. /\ arrivals < MaxArrivals /\ arrivals' = arrivals + 1
      /\ log' \subseteq log /\ overtaken' \subseteq overtaken
      /\ coord' = [p \in Pois |-> IF p \in heads THEN Consensus(log', redirect, p) ELSE coord[p]]
      /\ UNCHANGED <<redirect, ext, refs, expired, journal, req, learned>>
  BY DEF Purge
<1>3. arrivals' \in 0 .. MaxArrivals  BY <1>1, <1>2 DEF TypeOK
<1>4. coord' \in [Pois -> SUBSET Observations]
  <2>1. \A p \in Pois : Consensus(log', redirect, p) \in SUBSET Observations
    BY ConsensusType
  <2>2. QED  BY <1>1, <1>2, <2>1 DEF TypeOK
<1>5. TypeOK'  BY <1>1, <1>2, <1>3, <1>4 DEF TypeOK
<1>6. QED  BY <1>2, <1>5, QuietStep DEF Alike

-----------------------------------------------------------------------------
\* The initial states satisfy the invariant,
LEMMA InitInv == Init => IInv
<1>1. SUFFICES ASSUME Init  PROVE IInv
  OBVIOUS
<1>2. /\ redirect = [p \in Pois |-> NoPoi] /\ journal = <<>>
      /\ \A r \in Requests : req[r] = Idle
  BY <1>1 DEF Init
<1>3. TypeOK  BY <1>1, IdleFacts DEF Init, TypeOK
<1>4. NoChains /\ JournalInStep /\ SnapshotsAreRows
  BY <1>2 DEF NoChains, JournalInStep, SnapshotsAreRows, LiveMerges
<1>5. LocksExclude /\ \A r \in Requests : Knows(req[r])
  BY <1>2, IdleFacts DEF LocksExclude
<1>6. QED  BY <1>3, <1>4, <1>5 DEF IInv

\* and every step keeps it.
LEMMA NextInv == IInv /\ [Next]_vars => IInv'
<1>1. SUFFICES ASSUME IInv, [Next]_vars  PROVE IInv'
  OBVIOUS
<1>2. ASSUME NEW r \in Requests, Step(r)  PROVE IInv'
  BY <1>1, <1>2, MoveStep, MergeStep, UnmergeStep, ObserveStep, SetCoordStep DEF Step
<1>3. ASSUME NEW r \in Requests, Call(r)  PROVE IInv'
  BY <1>1, <1>3, CallStep
<1>4. ASSUME NEW r \in Requests, Rollback(r)  PROVE IInv'
  BY <1>1, <1>4, RollbackStep
<1>5. ASSUME NEW o \in Observations, Expire(o)  PROVE IInv'
  BY <1>1, <1>5, ExpireStep
<1>6. CASE Purge  BY <1>1, <1>6, PurgeStep
<1>7. CASE UNCHANGED vars
  <2>1. TypeOK'  BY <1>1, <1>7 DEF IInv, TypeOK, vars
  <2>2. QED  BY <1>1, <1>7, <2>1, QuietStep DEF vars, Alike
<1>8. QED  BY <1>1, <1>2, <1>3, <1>4, <1>5, <1>6, <1>7 DEF Next, Fail, DeadlockVictim

\* The inductive invariant of merges, unmerges, ingestions, expiries and purges.
THEOREM Invariance == Spec => []IInv
BY InitInv, NextInv, PTL DEF Spec

\* Every reachable state is well typed.
THEOREM TypeCorrect == Spec => []TypeOK
<1>1. IInv => TypeOK  BY DEF IInv
<1>2. QED  BY <1>1, Invariance, PTL

\* "merged_into always points at a canonical POI": one hop resolves every duplicate.
THEOREM OneHop == Spec => []NoChains
<1>1. IInv => NoChains  BY DEF IInv
<1>2. QED  BY <1>1, Invariance, PTL

\* Redirects and the merge journal never disagree.
THEOREM RedirectsJournaled == Spec => []JournalInStep
<1>1. IInv => JournalInStep  BY DEF IInv
<1>2. QED  BY <1>1, Invariance, PTL

-----------------------------------------------------------------------------
(***************************************************************************)
(* Coordinates.  A transaction whose reads nobody has overtaken holds the  *)
(* consensus that its own observation makes; every commit that changes     *)
(* the consensus of a head overtakes the reads that concern it.            *)
(***************************************************************************)
\* Consensus, as a function of everything it reads.
ConsensusOf(rows, red, gone, h) ==
    Contributing({o \in Observations \ gone : \E p \in Group(red, h) : <<o, p>> \in rows})

ReadsHold(q) ==
    q.pc = "setCoord" /\ ~q.late =>
        /\ q.head = Canon(q.a)
        /\ q.from = ConsensusOf(log \cup {<<q.obs, q.a>>}, redirect, expired, q.head)

Settled == \A p \in Canonical \ overtaken : coord[p] = ConsensusOf(log, redirect, expired, p)

\* Places without a row have no observations and no coordinate.
NothingUnborn ==
    /\ \A o \in Observations, p \in Pois : <<o, p>> \in log => p \in Here
    /\ \A p \in Pois \ Here : coord[p] = {} /\ redirect[p] = NoPoi

CoordInv ==
    /\ Settled
    /\ NothingUnborn
    /\ \A r \in Requests : ReadsHold(req[r])

LEMMA ConsensusIs ==
    \A rows, red, h : Consensus(rows, red, h) = ConsensusOf(rows, red, expired, h)
BY DEF Consensus, Eligible, ConsensusOf

LEMMA SettledIs == (Settled <=> CoordSettled)
BY ConsensusIs DEF Settled, CoordSettled

\* A consensus is that of the rows of its group.
LEMMA SameRows ==
    ASSUME NEW rows1, NEW rows2, NEW red1, NEW red2, NEW gone, NEW h,
           \A o \in Observations \ gone :
               (\E p \in Group(red1, h) : <<o, p>> \in rows1)
               <=> (\E p \in Group(red2, h) : <<o, p>> \in rows2)
    PROVE  ConsensusOf(rows1, red1, gone, h) = ConsensusOf(rows2, red2, gone, h)
BY DEF ConsensusOf

\* An observation that expires without contributing was outweighed.
LEMMA ContributingWithout ==
    ASSUME NEW S \in SUBSET Observations, NEW o, o \notin Contributing(S)
    PROVE  Contributing(S \ {o}) = Contributing(S)
<1>1. CASE o \notin S  BY <1>1
<1>2. CASE o \in S
  <2>1. PICK x \in S : Provider(x) = Provider(o) /\ ~(x <= o)  BY <1>2 DEF Contributing
  <2>2. S \subseteq Nat  OBVIOUS
  <2>3. x \in S \ {o} /\ x > o  BY <1>2, <2>1, <2>2
  <2>4. ASSUME NEW y \in S \ {o}, \A z \in S \ {o} : Provider(z) = Provider(y) => z <= y
        PROVE  \A z \in S : Provider(z) = Provider(y) => z <= y
    BY <1>2, <2>1, <2>2, <2>3, <2>4
  <2>5. QED  BY <2>4, <1>2, <2>1, <2>3 DEF Contributing
<1>3. QED  BY <1>1, <1>2

LEMMA ExpireConsensus ==
    ASSUME NEW rows, NEW red, NEW gone, NEW h, NEW o \in Observations,
           o \notin ConsensusOf(rows, red, gone, h)
    PROVE  ConsensusOf(rows, red, gone \cup {o}, h) = ConsensusOf(rows, red, gone, h)
<1> DEFINE S == {x \in Observations \ gone : \E p \in Group(red, h) : <<x, p>> \in rows}
<1>1. S \in SUBSET Observations /\ o \notin Contributing(S)  BY DEF ConsensusOf
<1>2. {x \in Observations \ (gone \cup {o}) : \E p \in Group(red, h) : <<x, p>> \in rows}
        = S \ {o}
  OBVIOUS
<1>3. QED  BY <1>1, <1>2, ContributingWithout DEF ConsensusOf

\* A transaction that only moves on, calls or gives up.
LEMMA CoordFrame ==
    ASSUME CoordInv, UNCHANGED <<redirect, ext, coord, log, expired, overtaken>>,
           \A s \in Requests : ReadsHold(req'[s])
    PROVE  CoordInv'
<1>1. Here' = Here /\ Canonical' = Canonical  BY DEF Here, Canonical
<1>2. Settled'  BY <1>1 DEF CoordInv, Settled, ConsensusOf
<1>3. NothingUnborn'  BY <1>1 DEF CoordInv, NothingUnborn
<1>4. \A s \in Requests : ReadsHold(req[s])'
  BY DEF ReadsHold, Canon, ConsensusOf
<1>5. QED  BY <1>2, <1>3, <1>4 DEF CoordInv

LEMMA CoordGoto ==
    ASSUME IInv, CoordInv, NEW r \in Requests, NEW q,
           Goto(r, q) \/ Arrive(r, q), ReadsHold(q)
    PROVE  CoordInv'
<1>1. req' = [req EXCEPT ![r] = q]
      /\ UNCHANGED <<redirect, ext, coord, log, expired, overtaken>>
  BY DEF Goto, Arrive
<1>2. \A s \in Requests : ReadsHold(req'[s])
  BY <1>1 DEF IInv, TypeOK, CoordInv
<1>3. QED  BY <1>1, <1>2, CoordFrame

\* The reads of another transaction still hold after the commit of r, if the consensus of
\* the heads outside H is what it was.
LEMMA StillReads ==
    ASSUME IInv, CoordInv, NEW r \in Requests, NEW H, Commit(r, H), expired' = expired,
           \A s \in Requests \ {r} :
              req[s].pc = "setCoord" /\ req[s].head = Canon(req[s].a) /\ req[s].head \notin H =>
                 /\ redirect'[req[s].a] = redirect[req[s].a]
                 /\ ConsensusOf(log' \cup {<<req[s].obs, req[s].a>>}, redirect', expired, req[s].head)
                    = ConsensusOf(log \cup {<<req[s].obs, req[s].a>>}, redirect, expired, req[s].head)
    PROVE  \A s \in Requests : ReadsHold(req[s])'
<1>1. req'[r] = Idle /\ \A s \in Requests \ {r} : Alike(req[s], req'[s])
  BY CommitOthers
<1>2. TypeOK  BY DEF IInv
<1>3. ASSUME NEW s \in Requests  PROVE ReadsHold(req[s])'
  <2>1. CASE s = r  BY <1>1, <2>1 DEF ReadsHold, Idle
  <2>2. CASE s # r
    <3>1. SUFFICES ASSUME req'[s].pc = "setCoord", ~req'[s].late
                   PROVE  ReadsHold(req[s])'
      BY DEF ReadsHold
    <3>2. Alike(req[s], req'[s])  BY <1>1, <2>2
    <3>3. req[s].pc = "setCoord"  BY <3>1, <3>2 DEF Alike
    <3>4. /\ req'[s].from = req[s].from
          /\ ~req[s].late /\ {req[s].head, Canon(req[s].a)} \cap H = {}
      <4> DEFINE over == req[s].late \/ (req[s].pc = "setCoord"
                                         /\ H \cap {req[s].head, Canon(req[s].a)} # {})
      <4>1. req[s] \in RequestRecord  BY <1>2 DEF TypeOK
      <4>2. req'[s] = [req[s] EXCEPT !.late = over]  BY <2>2 DEF Commit
      <4> HIDE DEF over
      <4>3. req'[s].from = req[s].from /\ req'[s].late = over  BY <4>1, <4>2 DEF RequestRecord
      <4>4. ~over  BY <3>1, <4>3
      <4>5. QED  BY <3>3, <4>3, <4>4 DEF over
    <3>5. /\ req[s].head = Canon(req[s].a)
          /\ req[s].from = ConsensusOf(log \cup {<<req[s].obs, req[s].a>>}, redirect, expired,
                                       req[s].head)
      BY <3>3, <3>4 DEF CoordInv, ReadsHold
    <3>6. PICK h, x, o : h = req[s].head /\ x = req[s].a /\ o = req[s].obs
      OBVIOUS
    <3>7. h = req'[s].head /\ x = req'[s].a /\ o = req'[s].obs  BY <3>2, <3>6 DEF Alike
    <3>8. /\ redirect'[x] = redirect[x]
          /\ ConsensusOf(log' \cup {<<o, x>>}, redirect', expired, h)
             = ConsensusOf(log \cup {<<o, x>>}, redirect, expired, h)
      BY <2>2, <3>3, <3>4, <3>5, <3>6
    <3>9. /\ h = Canon(x)'
          /\ req'[s].from = ConsensusOf(log' \cup {<<o, x>>}, redirect', expired', h)
      BY <3>4, <3>5, <3>6, <3>8 DEF Canon
    <3>10. QED  BY <3>7, <3>9 DEF ReadsHold, Canon, ConsensusOf
  <2>3. QED  BY <2>1, <2>2
<1>4. QED  BY <1>3

\* A statement that reads no observations.
LEMMA CoordMove ==
    ASSUME IInv, CoordInv, NEW r \in Requests,
           \/ Rollback(r) \/ Call(r)
           \/ LockKept(r) \/ LockMerged(r) \/ CheckIncoming(r) \/ ReadJournal(r)
           \/ LockHead(r) \/ CheckLater(r) \/ Find(r) \/ LockFound(r) \/ InsertPoi(r)
    PROVE  CoordInv'
<1> DEFINE Quiet(q) == Goto(r, q) \/ Arrive(r, q)
<1>1. req[r] \in RequestRecord  BY DEF IInv, TypeOK
<1>2. Idle.pc = "idle"  BY DEF Idle
<1>3. SUFFICES \E q : q.pc # "setCoord" /\ Quiet(q)
  BY CoordGoto DEF ReadsHold
<1>4. CASE Rollback(r)  BY <1>2, <1>4 DEF Rollback
<1>5. CASE Call(r)
  <2>1. ASSUME NEW p \in Pois, CallUnmerge(r, p)  PROVE \E q : q.pc # "setCoord" /\ Quiet(q)
    <3>1. [Idle EXCEPT !.pc = "readJournal", !.b = p].pc # "setCoord"  BY DEF Idle
    <3>2. QED  BY <2>1, <3>1 DEF CallUnmerge
  <2>2. ASSUME NEW p \in Pois, NEW o \in Pois, CallMerge(r, p, o)
        PROVE  \E q : q.pc # "setCoord" /\ Quiet(q)
    <3>1. [Idle EXCEPT !.pc = "lockKept", !.a = p, !.b = o].pc # "setCoord"  BY DEF Idle
    <3>2. QED  BY <2>2, <3>1 DEF CallMerge
  <2>3. ASSUME NEW p \in Pois, NEW o \in Observations \cup {NoObservation}, CallIngest(r, p, o)
        PROVE  \E q : q.pc # "setCoord" /\ Quiet(q)
    <3>1. [Idle EXCEPT !.pc = "find", !.b = p, !.obs = o].pc # "setCoord"  BY DEF Idle
    <3>2. QED  BY <2>3, <3>1 DEF CallIngest
  <2>4. QED  BY <1>5, <2>1, <2>2, <2>3 DEF Call
<1>6. CASE LockKept(r)
  <2> DEFINE q == [req[r] EXCEPT !.pc = "lockMerged",
                      !.was = Row(req[r].a)]
  <2>1. q.pc # "setCoord"  BY <1>1 DEF RequestRecord
  <2>2. Rollback(r) \/ Goto(r, q)  BY <1>6 DEF LockKept
  <2>3. QED  BY <1>4, <2>1, <2>2
<1>7. CASE LockMerged(r)
  <2>1. [req[r] EXCEPT !.pc = "checkIncoming"].pc # "setCoord"  BY <1>1 DEF RequestRecord
  <2>2. QED  BY <1>4, <1>7, <2>1 DEF LockMerged
<1>8. CASE CheckIncoming(r)
  <2>1. [req[r] EXCEPT !.pc = "merge"].pc # "setCoord"  BY <1>1 DEF RequestRecord
  <2>2. QED  BY <1>4, <1>8, <2>1 DEF CheckIncoming
<1>9. CASE ReadJournal(r)
  <2>1. \A i : [req[r] EXCEPT !.pc = "lockHead", !.entry = i, !.a = journal[i].kept].pc # "setCoord"
    BY <1>1 DEF RequestRecord
  <2>2. QED  BY <1>4, <1>9, <2>1 DEF ReadJournal
<1>10. CASE LockHead(r)
  <2>1. [req[r] EXCEPT !.pc = "checkLater"].pc # "setCoord"  BY <1>1 DEF RequestRecord
  <2>2. QED  BY <1>10, <2>1 DEF LockHead
<1>11. CASE CheckLater(r)
  <2>1. [req[r] EXCEPT !.pc = "unmerge"].pc # "setCoord"  BY <1>1 DEF RequestRecord
  <2>2. QED  BY <1>4, <1>11, <2>1 DEF CheckLater
<1>12. CASE Find(r)
  <2>1. \A p : /\ [req[r] EXCEPT !.pc = "lockFound", !.a = p].pc # "setCoord"
               /\ [req[r] EXCEPT !.pc = "insertPoi", !.a = p].pc # "setCoord"
    BY <1>1 DEF RequestRecord
  <2>2. QED  BY <1>12, <2>1 DEF Find
<1>13. CASE LockFound(r)
  <2>1. [req[r] EXCEPT !.pc = "observe", !.locked = TRUE].pc # "setCoord"
    BY <1>1 DEF RequestRecord
  <2>2. QED  BY <1>13, <2>1 DEF LockFound
<1>14. CASE InsertPoi(r)
  <2>1. [req[r] EXCEPT !.pc = "observe"].pc # "setCoord"  BY <1>1 DEF RequestRecord
  <2>2. QED  BY <1>14, <2>1 DEF InsertPoi
<1>15. QED
  BY <1>4, <1>5, <1>6, <1>7, <1>8, <1>9, <1>10, <1>11, <1>12, <1>13, <1>14

\* What the commit of an ingestion adds to the rows is the place it was about.
LEMMA WriteRows ==
    ASSUME IInv, NEW r \in Requests, req[r].pc \in {"observe", "setCoord"}, WritePoi(r)
    PROVE  Here' = Here \cup {req[r].a}
<1>1. req[r].a \in Pois /\ req[r].b \in Pois  BY DEF IInv, Knows
<1>2. TypeOK  BY DEF IInv
<1>3. CASE req[r].locked \/ req[r].a \notin Here
  <2>1. ext' = [ext EXCEPT ![req[r].a] = req[r].b]  BY <1>3 DEF WritePoi
  <2>2. QED  BY <1>1, <1>2, <2>1 DEF TypeOK, Here
<1>4. CASE ~(req[r].locked \/ req[r].a \notin Here)
  BY <1>2, <1>4 DEF WritePoi, TypeOK, Here
<1>5. QED  BY <1>3, <1>4

\* Nobody is redirected to a place without a row, which has no observations.
LEMMA UnbornConsensus ==
    ASSUME IInv, CoordInv, NEW p \in Pois \ Here
    PROVE  ConsensusOf(log, redirect, expired, p) = {}
<1>1. Group(redirect, p) = {p}
  BY DEF IInv, NoChains, TypeOK, Group
<1>2. \A o \in Observations : <<o, p>> \notin log
  BY DEF CoordInv, NothingUnborn
<1>3. QED  BY <1>1, <1>2 DEF ConsensusOf, Contributing

LEMMA CoordObserve ==
    ASSUME IInv, CoordInv, NEW r \in Requests, Observe(r)
    PROVE  CoordInv'
<1>0. PICK now, x : now = req[r] /\ x = req[r].a
  OBVIOUS
<1> DEFINE row == <<now.obs, x>>
           q == [now EXCEPT !.pc = "setCoord", !.head = Canon(x),
                            !.from = Consensus(log \cup {row}, redirect, Canon(x))]
<1>1. now \in RequestRecord /\ Knows(now) /\ TypeOK /\ now.pc = "observe" /\ x \in Pois
  BY <1>0 DEF IInv, TypeOK, Observe, Ready, Knows
<1>2. CASE now.obs = NoObservation \/ row \in log
  <2>1. WritePoi(r) /\ Commit(r, {}) /\ UNCHANGED <<redirect, coord, log, expired, journal,
            overtaken, arrivals>>
    BY <1>0, <1>2 DEF Observe
  <2>2. Here' = Here \cup {x}  BY <1>0, <1>1, <2>1, WriteRows
  <2>3. \A s \in Requests : ReadsHold(req[s])'  BY <2>1, StillReads
  <2>4. Settled'
    <3>1. ASSUME NEW p \in Canonical', p \notin overtaken
          PROVE  coord[p] = ConsensusOf(log, redirect, expired, p)
      <4>1. CASE p \in Here
        BY <2>1, <3>1, <4>1 DEF CoordInv, Settled, Canonical
      <4>2. CASE p \notin Here
        BY <4>2, UnbornConsensus DEF CoordInv, NothingUnborn, Canonical, Here
      <4>3. QED  BY <4>1, <4>2
    <3>2. QED  BY <2>1, <3>1 DEF Settled, ConsensusOf
  <2>5. NothingUnborn'  BY <2>1, <2>2 DEF CoordInv, NothingUnborn
  <2>6. QED  BY <2>3, <2>4, <2>5 DEF CoordInv
<1>3. CASE ~(now.obs = NoObservation \/ row \in log)
  <2>1. Goto(r, q)  BY <1>0, <1>3 DEF Observe
  <2>2. q.a = x /\ q.obs = now.obs /\ q.head = Canon(x)
        /\ q.from = Consensus(log \cup {row}, redirect, Canon(x))
    BY <1>0, <1>1 DEF RequestRecord
  <2> HIDE DEF q
  <2>3. ReadsHold(q)  BY <2>2, ConsensusIs DEF ReadsHold
  <2>4. QED  BY <2>1, <2>3, CoordGoto
<1>4. QED  BY <1>2, <1>3

\* A new observation of x is a matter of the head of x only.
With(rows, o, x) == rows \cup {<<o, x>>}

LEMMA OtherHeads ==
    ASSUME NEW x, NEW o, NEW rows, NEW h \in Pois, h # Canon(x), redirect[h] = NoPoi
    PROVE  ConsensusOf(With(rows, o, x), redirect, expired, h)
             = ConsensusOf(rows, redirect, expired, h)
<1>1. x \notin Group(redirect, h)
  BY DEF Group, Canon
<1>2. QED  BY <1>1, SameRows DEF With

LEMMA CoordSetCoord ==
    ASSUME IInv, CoordInv, NEW r \in Requests, SetCoord(r)
    PROVE  CoordInv'
<1>0. PICK now, x, h, o : now = req[r] /\ x = req[r].a /\ h = req[r].head /\ o = req[r].obs
  OBVIOUS
<1> DEFINE row == <<o, x>>
<1>1. /\ now \in RequestRecord /\ Knows(now) /\ ReadsHold(now) /\ TypeOK /\ now.pc = "setCoord"
      /\ x \in Pois /\ h \in Pois /\ o \in Observations
  BY <1>0 DEF IInv, TypeOK, SetCoord, Ready, Knows, CoordInv
<1>2. /\ WritePoi(r) /\ Commit(r, {h, Canon(x)})
      /\ log' = log \cup {row}
      /\ coord' = [coord EXCEPT ![h] = now.from]
      /\ overtaken' = IF now.late THEN overtaken \cup {h, Canon(x)} ELSE overtaken \ {h}
      /\ UNCHANGED <<redirect, expired, journal, arrivals>>
  BY <1>0 DEF SetCoord
<1>3. Here' = Here \cup {x}  BY <1>0, <1>1, <1>2, WriteRows
<1>4. Canon(x) \in Pois  BY <1>1 DEF Canon, TypeOK
<1>5. \A p \in Pois : coord'[p] = IF p = h THEN now.from ELSE coord[p]
  BY <1>1, <1>2 DEF TypeOK
<1>6. Settled'
  <2>1. ASSUME NEW p \in Pois, p \in Canonical', p \notin overtaken'
        PROVE  coord'[p] = ConsensusOf(log', redirect, expired, p)
    <3>1. CASE p = Canon(x)
      <4>1. ~now.late  BY <1>2, <2>1, <3>1
      <4>2. h = Canon(x) /\ now.from = ConsensusOf(log \cup {row}, redirect, expired, h)
        BY <1>0, <1>1, <4>1 DEF ReadsHold
      <4>3. QED  BY <1>2, <1>5, <3>1, <4>2
    <3>2. CASE p # Canon(x)
      <4>1. p # h
        <5>1. CASE now.late  BY <1>2, <2>1, <5>1
        <5>2. CASE ~now.late  BY <1>0, <1>1, <3>2, <5>2 DEF ReadsHold
        <5>3. QED  BY <5>1, <5>2
      <4>2. redirect[p] = NoPoi  BY <1>2, <2>1 DEF Canonical
      <4>3. p # x  BY <3>2, <4>2 DEF Canon
      <4>4. p \in Canonical \ overtaken  BY <1>2, <1>3, <2>1, <4>1, <4>2, <4>3 DEF Canonical
      <4>5. coord[p] = ConsensusOf(log, redirect, expired, p)
        BY <4>4 DEF CoordInv, Settled
      <4>6. ConsensusOf(log', redirect, expired, p) = ConsensusOf(log, redirect, expired, p)
        <5>1. log' = With(log, o, x)  BY <1>2 DEF With
        <5>2. QED  BY <2>1, <3>2, <4>2, <5>1, OtherHeads
      <4>7. QED  BY <1>2, <1>5, <4>1, <4>5, <4>6
    <3>3. QED  BY <3>1, <3>2
  <2>2. Canonical' \subseteq Pois  BY DEF Canonical, Here
  <2>3. QED  BY <1>2, <2>1, <2>2 DEF Settled, ConsensusOf
<1>7. NothingUnborn'
  <2>1. \A y \in Observations, p \in Pois : <<y, p>> \in log' => p \in Here'
    BY <1>2, <1>3 DEF CoordInv, NothingUnborn
  <2>2. ASSUME NEW p \in Pois, p \notin Here'  PROVE coord'[p] = {} /\ redirect[p] = NoPoi
    <3>1. p \notin Here /\ p # x  BY <1>3, <2>2
    <3>2. coord[p] = {} /\ redirect[p] = NoPoi  BY <3>1 DEF CoordInv, NothingUnborn
    <3>3. CASE p # h  BY <1>5, <3>2, <3>3
    <3>4. CASE p = h
      <4>1. p \in Here  BY <1>0, <1>1, <3>1, <3>4 DEF Knows
      <4>2. QED  BY <3>1, <4>1
    <3>5. QED  BY <3>3, <3>4
  <2>3. QED  BY <1>2, <2>1, <2>2 DEF NothingUnborn
<1>8. \A s \in Requests : ReadsHold(req[s])'
  <2>1. ASSUME NEW s \in Requests \ {r}, req[s].pc = "setCoord",
               req[s].head = Canon(req[s].a), req[s].head \notin {h, Canon(x)}
        PROVE  ConsensusOf(log' \cup {<<req[s].obs, req[s].a>>}, redirect', expired, req[s].head)
                 = ConsensusOf(log \cup {<<req[s].obs, req[s].a>>}, redirect, expired, req[s].head)
    <3>1. req[s].a \in Pois /\ req[s].head \in Pois  BY <2>1 DEF IInv, Knows
    <3>2. redirect[req[s].head] = NoPoi  BY <2>1, <3>1 DEF Canon, IInv, NoChains
    <3>3. PICK rows, more : /\ rows = log \cup {<<req[s].obs, req[s].a>>}
                            /\ more = log' \cup {<<req[s].obs, req[s].a>>}
      OBVIOUS
    <3>4. more = With(rows, o, x)  BY <1>2, <3>3 DEF With
    <3>5. ConsensusOf(more, redirect, expired, req[s].head)
            = ConsensusOf(rows, redirect, expired, req[s].head)
      BY <2>1, <3>1, <3>2, <3>4, OtherHeads
    <3>6. QED  BY <1>2, <3>3, <3>5
  <2>2. QED  BY <1>2, <2>1, StillReads
<1>9. QED  BY <1>6, <1>7, <1>8 DEF CoordInv

\* Moving b to or from the group of a leaves the groups of other heads as they are.
LEMMA OtherGroups ==
    ASSUME NEW a, NEW b \in Pois, NEW red1, NEW red2, NEW rows, NEW gone, NEW h, h \notin {a, b},
           \A p \in Pois \ {b} : red2[p] = red1[p],
           {red1[b], red2[b]} \subseteq {a, NoPoi}, h # NoPoi
    PROVE  ConsensusOf(rows, red2, gone, h) = ConsensusOf(rows, red1, gone, h)
<1>1. Group(red2, h) = Group(red1, h)  BY DEF Group
<1>2. QED  BY <1>1 DEF ConsensusOf

\* The coordinates after a commit that moves b to or from the group of a and recomputes
\* the heads among the two.
LEMMA CoordRegroup ==
    ASSUME IInv, CoordInv, NEW r \in Requests, NEW a \in Here, NEW b \in Here, a # b,
           Commit(r, {a, b}),
           Here' = Here, UNCHANGED <<log, expired>>,
           \A p \in Pois \ {b} : redirect'[p] = redirect[p],
           {redirect[b], redirect'[b]} \subseteq {a, NoPoi},
           redirect'[b] = NoPoi => coord'[b] = ConsensusOf(log, redirect', expired, b),
           coord'[a] = ConsensusOf(log, redirect', expired, a),
           \A p \in Pois \ {a, b} : coord'[p] = coord[p],
           overtaken \subseteq overtaken' \cup {a, b}
    PROVE  CoordInv'
<1>1. a \in Pois /\ b \in Pois  BY DEF Here
<1>2. Settled'
  <2>1. ASSUME NEW p \in Pois, p \in Canonical', p \notin overtaken'
        PROVE  coord'[p] = ConsensusOf(log, redirect', expired, p)
    <3>1. redirect'[p] = NoPoi /\ p \in Here  BY <2>1 DEF Canonical
    <3>2. CASE p \in {a, b}  BY <3>1, <3>2
    <3>3. CASE p \notin {a, b}
      <4>1. p \in Canonical \ overtaken  BY <2>1, <3>1, <3>3 DEF Canonical
      <4>2. coord[p] = ConsensusOf(log, redirect, expired, p)
        BY <4>1 DEF CoordInv, Settled
      <4>3. p # NoPoi  OBVIOUS
      <4>4. ConsensusOf(log, redirect', expired, p) = ConsensusOf(log, redirect, expired, p)
        BY <1>1, <3>3, <4>3, OtherGroups
      <4>5. QED  BY <1>1, <3>3, <4>2, <4>4
    <3>4. QED  BY <3>2, <3>3
  <2>2. Canonical' \subseteq Pois  BY DEF Canonical, Here
  <2>3. QED  BY <2>1, <2>2 DEF Settled, ConsensusOf
<1>3. NothingUnborn'
  BY <1>1 DEF CoordInv, NothingUnborn
<1>4. \A s \in Requests : ReadsHold(req[s])'
  <2>1. ASSUME NEW s \in Requests \ {r}, req[s].pc = "setCoord",
               req[s].head = Canon(req[s].a), req[s].head \notin {a, b}
        PROVE  /\ redirect'[req[s].a] = redirect[req[s].a]
               /\ ConsensusOf(log' \cup {<<req[s].obs, req[s].a>>}, redirect', expired, req[s].head)
                  = ConsensusOf(log \cup {<<req[s].obs, req[s].a>>}, redirect, expired, req[s].head)
    <3>1. req[s].a \in Pois /\ req[s].head \in Pois  BY <2>1 DEF IInv, Knows
    <3>2. req[s].a # b  BY <2>1 DEF Canon
    <3>3. PICK rows : rows = log \cup {<<req[s].obs, req[s].a>>}
      OBVIOUS
    <3>4. req[s].head # NoPoi  BY <3>1
    <3>5. ConsensusOf(rows, redirect', expired, req[s].head)
            = ConsensusOf(rows, redirect, expired, req[s].head)
      BY <1>1, <2>1, <3>4, OtherGroups
    <3>6. QED  BY <3>1, <3>2, <3>3, <3>5
  <2>2. QED  BY <2>1, StillReads
<1>5. QED  BY <1>2, <1>3, <1>4 DEF CoordInv

LEMMA CoordMerge ==
    ASSUME IInv, CoordInv, NEW r \in Requests, Merge(r)
    PROVE  CoordInv'
<1>1. TypeOK /\ req[r] \in RequestRecord /\ Knows(req[r]) /\ req[r].pc = "merge"
  BY DEF IInv, TypeOK, Merge, Ready
<1>2. PICK a \in Here, b \in Here, was \in Contents :
          a = req[r].a /\ b = req[r].b /\ was = req[r].was
  BY <1>1 DEF Knows, RequestRecord
<1>3. a # b /\ redirect[b] = NoPoi /\ was.ext # NoPoi /\ a \in Pois /\ b \in Pois
  BY <1>1, <1>2 DEF Knows, Here
<1>4. /\ ext' = [ext EXCEPT ![a] = Union(was, Row(b)).ext]
      /\ redirect' = [redirect EXCEPT ![b] = a]
      /\ coord' = [coord EXCEPT ![a] = Consensus(log, redirect', a)]
      /\ overtaken' = overtaken \ {a}
      /\ Commit(r, {a, b})
      /\ UNCHANGED <<log, expired>>
  BY <1>2 DEF Merge
<1>5. Here' = Here  BY <1>1, <1>3, <1>4 DEF Here, TypeOK, Union
<1>6. /\ \A p \in Pois \ {b} : redirect'[p] = redirect[p]
      /\ redirect'[b] = a
      /\ coord'[a] = Consensus(log, redirect', a)
      /\ \A p \in Pois \ {a, b} : coord'[p] = coord[p]
  BY <1>1, <1>3, <1>4 DEF TypeOK
<1>7. a # NoPoi /\ Consensus(log, redirect', a) = ConsensusOf(log, redirect', expired, a)
  BY <1>3, ConsensusIs
<1>8. QED  BY <1>3, <1>4, <1>5, <1>6, <1>7, CoordRegroup

LEMMA CoordUnmerge ==
    ASSUME IInv, CoordInv, NEW r \in Requests, Unmerge(r)
    PROVE  CoordInv'
<1>1. TypeOK /\ NoChains /\ req[r] \in RequestRecord /\ Knows(req[r]) /\ req[r].pc = "unmerge"
  BY DEF IInv, TypeOK, Unmerge, Ready
<1>2. PICK a \in Pois, b \in Pois, e \in DOMAIN journal :
          a = req[r].a /\ b = req[r].b /\ e = req[r].entry
  BY <1>1 DEF Knows, LiveMerges
<1>3. e \in LiveMerges(b) /\ journal[e].kept = a  BY <1>1, <1>2 DEF Knows
<1>4. redirect[b] = a  BY <1>3 DEF IInv, JournalInStep
<1>5. a \in Here /\ b \in Here /\ a # b
  BY <1>1, <1>4 DEF NoChains, CoordInv, NothingUnborn
<1>6. journal[e].snapshot.ext # NoPoi  BY DEF IInv, SnapshotsAreRows
<1>7. /\ ext' = [ext EXCEPT ![a] = journal[e].snapshot.ext]
      /\ redirect' = [redirect EXCEPT ![b] = NoPoi]
      /\ coord' = [coord EXCEPT ![a] = Consensus(log, redirect', a),
                                ![b] = Consensus(log, redirect', b)]
      /\ overtaken' = overtaken \ {a, b}
      /\ Commit(r, {a, b})
      /\ UNCHANGED <<log, expired>>
  BY <1>2 DEF Unmerge
<1>8. Here' = Here  BY <1>1, <1>5, <1>6, <1>7 DEF Here, TypeOK
<1>9. /\ \A p \in Pois \ {b} : redirect'[p] = redirect[p]
      /\ redirect'[b] = NoPoi
      /\ coord'[a] = Consensus(log, redirect', a) /\ coord'[b] = Consensus(log, redirect', b)
      /\ \A p \in Pois \ {a, b} : coord'[p] = coord[p]
  BY <1>1, <1>5, <1>7 DEF TypeOK
<1>10. /\ Consensus(log, redirect', a) = ConsensusOf(log, redirect', expired, a)
       /\ Consensus(log, redirect', b) = ConsensusOf(log, redirect', expired, b)
  BY ConsensusIs
<1>11. QED  BY <1>4, <1>5, <1>7, <1>8, <1>9, <1>10, CoordRegroup

LEMMA CoordExpire ==
    ASSUME IInv, CoordInv, NEW o \in Observations, Expire(o)
    PROVE  CoordInv'
<1>1. /\ expired' = expired \cup {o} /\ overtaken' = overtaken \cup {p \in Pois : o \in coord[p]}
      /\ req' = [q \in Requests |-> [req[q] EXCEPT !.late = @ \/ o \in req[q].from]]
      /\ UNCHANGED <<redirect, ext, coord, log>>
  BY DEF Expire
<1>2. Here' = Here /\ Canonical' = Canonical  BY <1>1 DEF Here, Canonical
<1>3. Settled'
  <2>1. ASSUME NEW p \in Canonical, p \notin overtaken'
        PROVE  coord[p] = ConsensusOf(log, redirect, expired', p)
    <3>1. p \in Pois  BY DEF Canonical, Here
    <3>2. p \notin overtaken /\ o \notin coord[p]  BY <1>1, <2>1, <3>1
    <3>3. coord[p] = ConsensusOf(log, redirect, expired, p)
      BY <3>2 DEF CoordInv, Settled
    <3>4. ConsensusOf(log, redirect, expired \cup {o}, p) = ConsensusOf(log, redirect, expired, p)
      BY <3>2, <3>3, ExpireConsensus
    <3>5. QED  BY <1>1, <3>3, <3>4
  <2>2. QED  BY <1>1, <1>2, <2>1 DEF Settled, ConsensusOf
<1>4. NothingUnborn'  BY <1>1, <1>2 DEF CoordInv, NothingUnborn
<1>5. ASSUME NEW s \in Requests  PROVE ReadsHold(req[s])'
  <2>1. req[s] \in RequestRecord  BY DEF IInv, TypeOK
  <2>2. SUFFICES ASSUME req'[s].pc = "setCoord", ~req'[s].late
                 PROVE  ReadsHold(req[s])'
    BY DEF ReadsHold
  <2>3. PICK q : q = req[s]
    OBVIOUS
  <2>4. /\ req'[s].a = q.a /\ req'[s].obs = q.obs /\ req'[s].head = q.head
        /\ req'[s].from = q.from /\ q.pc = "setCoord" /\ ~q.late /\ o \notin q.from
    <3> DEFINE over == req[s].late \/ o \in req[s].from
    <3>1. req'[s] = [q EXCEPT !.late = over]  BY <1>1, <2>3
    <3> HIDE DEF over
    <3>2. /\ req'[s].a = q.a /\ req'[s].obs = q.obs /\ req'[s].head = q.head
          /\ req'[s].from = q.from /\ req'[s].pc = q.pc /\ req'[s].late = over
      BY <2>1, <2>3, <3>1 DEF RequestRecord
    <3>3. ~over  BY <2>2, <3>2
    <3>4. QED  BY <2>2, <2>3, <3>2, <3>3 DEF over
  <2>5. PICK rows : rows = log \cup {<<q.obs, q.a>>}
    OBVIOUS
  <2>6. q.head = Canon(q.a) /\ q.from = ConsensusOf(rows, redirect, expired, q.head)
    BY <2>3, <2>4, <2>5 DEF CoordInv, ReadsHold
  <2>7. ConsensusOf(rows, redirect, expired \cup {o}, q.head) = q.from
    BY <2>4, <2>6, ExpireConsensus
  <2>8. QED  BY <1>1, <2>4, <2>5, <2>6, <2>7 DEF ReadsHold, Canon, ConsensusOf
<1>6. QED  BY <1>3, <1>4, <1>5 DEF CoordInv

LEMMA CoordPurge ==
    ASSUME IInv, CoordInv, Purge
    PROVE  CoordInv'
<1> DEFINE gone == {row \in log : row[1] \in expired}
           heads == {Canon(row[2]) : row \in gone}
<1>1. TypeOK /\ NoChains  BY DEF IInv
<1>2. /\ log' = log \ gone
      /\ \A r \in Requests : req[r].pc # "setCoord"
      /\ coord' = [p \in Pois |-> IF p \in heads THEN Consensus(log', redirect, p) ELSE coord[p]]
      /\ overtaken' = overtaken \ heads
      /\ UNCHANGED <<redirect, ext, refs, expired, journal, req, learned>>
  BY DEF Purge
<1>3. Here' = Here /\ Canonical' = Canonical  BY <1>2 DEF Here, Canonical
<1>4. \A h : ConsensusOf(log', redirect, expired, h) = ConsensusOf(log, redirect, expired, h)
  <2>1. \A o \in Observations \ expired, p \in Pois : <<o, p>> \in log' <=> <<o, p>> \in log
    BY <1>2
  <2>2. ASSUME NEW h
        PROVE  ConsensusOf(log', redirect, expired, h) = ConsensusOf(log, redirect, expired, h)
    <3>1. \A o \in Observations \ expired :
              (\E p \in Group(redirect, h) : <<o, p>> \in log')
              <=> (\E p \in Group(redirect, h) : <<o, p>> \in log)
      BY <1>2
    <3>2. QED  BY <3>1, SameRows
  <2>3. QED  BY <2>2
<1>5. \A p \in Pois : coord'[p] = IF p \in heads THEN ConsensusOf(log', redirect, expired, p) ELSE coord[p]
  BY <1>2, ConsensusIs
<1>6. Settled'
  <2>1. ASSUME NEW p \in Canonical, p \notin overtaken'
        PROVE  coord'[p] = ConsensusOf(log', redirect, expired, p)
    <3>1. p \in Pois  BY DEF Canonical, Here
    <3>2. CASE p \in heads  BY <1>5, <3>1, <3>2
    <3>3. CASE p \notin heads
      BY <1>2, <1>4, <1>5, <2>1, <3>1, <3>3 DEF CoordInv, Settled
    <3>4. QED  BY <3>2, <3>3
  <2>2. QED  BY <1>2, <1>3, <2>1 DEF Settled, ConsensusOf
<1>7. NothingUnborn'
  <2>1. heads \subseteq Here
    <3>1. ASSUME NEW row \in log  PROVE Canon(row[2]) \in Here
      <4>1. row[1] \in Observations /\ row[2] \in Pois /\ row = <<row[1], row[2]>>
        BY <1>1 DEF TypeOK
      <4>2. row[2] \in Here  BY <4>1 DEF CoordInv, NothingUnborn
      <4>3. QED  BY <1>1, <4>1, <4>2 DEF Canon, NoChains
    <3>2. QED  BY <3>1
  <2>2. QED  BY <1>2, <1>3, <1>5, <2>1 DEF CoordInv, NothingUnborn
<1>8. \A s \in Requests : ReadsHold(req[s])'
  BY <1>2 DEF ReadsHold
<1>9. QED  BY <1>6, <1>7, <1>8 DEF CoordInv

LEMMA CoordInit == Init => CoordInv
<1>1. SUFFICES ASSUME Init  PROVE CoordInv
  OBVIOUS
<1>2. /\ redirect = [p \in Pois |-> NoPoi] /\ coord = [p \in Pois |-> {}] /\ log = {}
      /\ \A r \in Requests : req[r] = Idle
  BY <1>1 DEF Init
<1>3. \A p : ConsensusOf(log, redirect, expired, p) = {}
  BY <1>2 DEF ConsensusOf, Contributing
<1>4. Settled  BY <1>2, <1>3 DEF Settled, Canonical, Here
<1>5. NothingUnborn  BY <1>2 DEF NothingUnborn
<1>6. \A r \in Requests : ReadsHold(req[r])  BY <1>2 DEF ReadsHold, Idle
<1>7. QED  BY <1>4, <1>5, <1>6 DEF CoordInv

LEMMA CoordNext == IInv /\ CoordInv /\ [Next]_vars => CoordInv'
<1>1. SUFFICES ASSUME IInv, CoordInv, [Next]_vars  PROVE CoordInv'
  OBVIOUS
<1>2. ASSUME NEW r \in Requests, Step(r)  PROVE CoordInv'
  BY <1>1, <1>2, CoordMove, CoordMerge, CoordUnmerge, CoordObserve, CoordSetCoord DEF Step
<1>3. ASSUME NEW r \in Requests, Call(r) \/ Rollback(r)  PROVE CoordInv'
  BY <1>1, <1>3, CoordMove
<1>4. ASSUME NEW o \in Observations, Expire(o)  PROVE CoordInv'
  BY <1>1, <1>4, CoordExpire
<1>5. CASE Purge  BY <1>1, <1>5, CoordPurge
<1>6. CASE UNCHANGED vars
  <2>1. \A s \in Requests : ReadsHold(req'[s])  BY <1>1, <1>6 DEF CoordInv, vars
  <2>2. QED  BY <1>1, <1>6, <2>1, CoordFrame DEF vars
<1>7. QED  BY <1>1, <1>2, <1>3, <1>4, <1>5, <1>6 DEF Next, Fail, DeadlockVictim

\* A coordinate is the consensus of the live observations of its group, unless the reads
\* it was computed from were overtaken: for any number of concurrent transactions.
THEOREM CoordinatesSettle == Spec => []CoordSettled
<1>1. CoordInv => CoordSettled  BY SettledIs DEF CoordInv
<1>2. QED  BY <1>1, CoordInit, CoordNext, Invariance, PTL DEF Spec

-----------------------------------------------------------------------------
(***************************************************************************)
(* Undo.  The kept place is locked from the read that becomes the snapshot *)
(* to the commit, and from the LIFO check to the restore.                  *)
(***************************************************************************)
Later(i) == {j \in DOMAIN journal : j > i /\ journal[j].live /\ journal[j].kept = journal[i].kept}

\* What the merge in journal row i leaves to be peeled off.
Peels(i) ==
    LET united == Union(journal[i].snapshot, Row(journal[i].merged))
    IN  /\ Later(i) = {} => Row(journal[i].kept) = united
        /\ \A j \in Later(i) : (\A k \in Later(i) : j <= k) => journal[j].snapshot = united

Exempt(i) == journal[i].kept \in learned \/ journal[i].merged \in learned

\* What a transaction holds of the place it keeps: its row as it read it, and no later merge.
Steady(q) ==
    /\ q.pc \in {"lockMerged", "checkIncoming", "merge"} => q.was = Row(q.a)
    /\ q.pc = "unmerge" => \A j \in DOMAIN journal :
          journal[j].live /\ journal[j].kept = q.a => j <= q.entry

PeelInv ==
    /\ \A i \in DOMAIN journal : journal[i].live /\ ~Exempt(i) => Peels(i)
    /\ \A r \in Requests : Steady(req[r])

LEMMA PeelInvIs == PeelInv => UndoPeels
BY DEF PeelInv, UndoPeels, Peels, Later, Exempt

\* A live merge's duplicate has a row and is redirected to its kept place, a row too.
LEMMA LiveMerge ==
    ASSUME IInv, CoordInv, NEW i \in DOMAIN journal, journal[i].live
    PROVE  /\ journal[i].merged \in Here /\ journal[i].kept \in Here
           /\ journal[i].kept \in Pois /\ journal[i].merged \in Pois
           /\ redirect[journal[i].merged] = journal[i].kept
           /\ journal[i].kept # journal[i].merged
           /\ redirect[journal[i].kept] = NoPoi
<1>1. TypeOK /\ JournalInStep /\ NoChains  BY DEF IInv
<1>2. journal[i].merged \in Pois /\ journal[i].kept \in Pois
  BY <1>1, JournalType DEF JournalRow
<1>3. i \in LiveMerges(journal[i].merged)  BY DEF LiveMerges
<1>4. redirect[journal[i].merged] = journal[i].kept
  BY <1>1, <1>2, <1>3 DEF JournalInStep
<1>5. redirect[journal[i].merged] # NoPoi  BY <1>2, <1>4
<1>6. QED  BY <1>1, <1>2, <1>4, <1>5 DEF NoChains, CoordInv, NothingUnborn

\* A commit or a move that leaves the journal and the contents of rows alone.
LEMMA PeelFrame ==
    ASSUME PeelInv, UNCHANGED <<ext, refs, journal, learned>>,
           \A s \in Requests : Steady(req'[s])
    PROVE  PeelInv'
<1>1. \A i : Peels(i)' = Peels(i)  BY DEF Peels, Later, Row, Union
<1>2. \A i : Exempt(i)' = Exempt(i)  BY DEF Exempt
<1>3. QED  BY <1>1, <1>2 DEF PeelInv, Row, Steady

LEMMA PeelGoto ==
    ASSUME IInv, PeelInv, NEW r \in Requests, NEW q, Goto(r, q) \/ Arrive(r, q), Steady(q)
    PROVE  PeelInv'
<1>1. req' = [req EXCEPT ![r] = q] /\ UNCHANGED <<ext, refs, journal, learned>>
  BY DEF Goto, Arrive
<1>2. \A s \in Requests : req'[s] = IF s = r THEN q ELSE req[s]
  BY <1>1 DEF IInv, TypeOK
<1>3. QED  BY <1>1, <1>2, PeelFrame DEF PeelInv

\* The statements of a merge and an unmerge before their commits,
LEMMA PeelMove ==
    ASSUME IInv, PeelInv, NEW r \in Requests,
           \/ LockKept(r) \/ LockMerged(r) \/ CheckIncoming(r) \/ CheckLater(r)
    PROVE  PeelInv'
<1>1. req[r] \in RequestRecord /\ TypeOK  BY DEF IInv, TypeOK
<1>2. Idle.pc = "idle"  BY DEF Idle
<1>3. CASE Rollback(r)  BY <1>2, <1>3, PeelGoto DEF Rollback, Steady
<1>4. CASE LockKept(r)
  <2> DEFINE q == [req[r] EXCEPT !.pc = "lockMerged", !.was = Row(req[r].a)]
  <2>1. q.pc = "lockMerged" /\ q.was = Row(q.a)  BY <1>1 DEF RequestRecord
  <2>2. Rollback(r) \/ Goto(r, q)  BY <1>4 DEF LockKept
  <2> HIDE DEF q
  <2>3. QED  BY <1>3, <2>1, <2>2, PeelGoto DEF Steady
<1>5. CASE LockMerged(r)
  <2> DEFINE q == [req[r] EXCEPT !.pc = "checkIncoming"]
  <2>1. q.pc = "checkIncoming" /\ q.was = req[r].was /\ q.a = req[r].a
    BY <1>1 DEF RequestRecord
  <2>2. req[r].was = Row(req[r].a)  BY <1>5 DEF LockMerged, Ready, PeelInv, Steady
  <2>3. Rollback(r) \/ Goto(r, q)  BY <1>5 DEF LockMerged
  <2> HIDE DEF q
  <2>4. QED  BY <1>3, <2>1, <2>2, <2>3, PeelGoto DEF Steady
<1>6. CASE CheckIncoming(r)
  <2> DEFINE q == [req[r] EXCEPT !.pc = "merge"]
  <2>1. q.pc = "merge" /\ q.was = req[r].was /\ q.a = req[r].a
    BY <1>1 DEF RequestRecord
  <2>2. req[r].was = Row(req[r].a)  BY <1>6 DEF CheckIncoming, Ready, PeelInv, Steady
  <2>3. Rollback(r) \/ Goto(r, q)  BY <1>6 DEF CheckIncoming
  <2> HIDE DEF q
  <2>4. QED  BY <1>3, <2>1, <2>2, <2>3, PeelGoto DEF Steady
<1>7. CASE CheckLater(r)
  <2> DEFINE q == [req[r] EXCEPT !.pc = "unmerge"]
  <2>1. q.pc = "unmerge" /\ q.entry = req[r].entry /\ q.a = req[r].a
    BY <1>1 DEF RequestRecord
  <2>2. Rollback(r) \/ (Goto(r, q) /\ ~\E j \in DOMAIN journal :
            journal[j].kept = req[r].a /\ journal[j].live /\ j > req[r].entry)
    BY <1>7 DEF CheckLater
  <2>3. req[r].entry \in Nat /\ \A j \in DOMAIN journal : j \in Nat
    BY <1>1, JournalType DEF RequestRecord
  <2> HIDE DEF q
  <2>4. QED  BY <1>3, <2>1, <2>2, <2>3, PeelGoto DEF Steady
<1>8. QED  BY <1>4, <1>5, <1>6, <1>7

\* and those of others.
LEMMA PeelElse ==
    ASSUME IInv, PeelInv, NEW r \in Requests,
           \/ Rollback(r) \/ Call(r) \/ ReadJournal(r) \/ LockHead(r)
           \/ Find(r) \/ LockFound(r) \/ InsertPoi(r)
    PROVE  PeelInv'
<1> DEFINE Calm(q) == q.pc \in PCs \ {"lockMerged", "checkIncoming", "merge", "unmerge"}
           Moves(q) == Goto(r, q) \/ Arrive(r, q)
<1>1. req[r] \in RequestRecord  BY DEF IInv, TypeOK
<1>2. SUFFICES \E q : Calm(q) /\ Moves(q)
  BY PeelGoto DEF Steady, PCs
<1>3. CASE Rollback(r)
  <2>1. Calm(Idle)  BY DEF Idle, PCs
  <2>2. QED  BY <1>3, <2>1 DEF Rollback
<1>4. CASE Call(r)
  <2>1. ASSUME NEW p \in Pois, CallUnmerge(r, p)  PROVE \E q : Calm(q) /\ Moves(q)
    <3>1. Calm([Idle EXCEPT !.pc = "readJournal", !.b = p])  BY DEF Idle, PCs
    <3>2. QED  BY <2>1, <3>1 DEF CallUnmerge
  <2>2. ASSUME NEW p \in Pois, NEW o \in Pois, CallMerge(r, p, o)
        PROVE  \E q : Calm(q) /\ Moves(q)
    <3>1. Calm([Idle EXCEPT !.pc = "lockKept", !.a = p, !.b = o])  BY DEF Idle, PCs
    <3>2. QED  BY <2>2, <3>1 DEF CallMerge
  <2>3. ASSUME NEW p \in Pois, NEW o \in Observations \cup {NoObservation}, CallIngest(r, p, o)
        PROVE  \E q : Calm(q) /\ Moves(q)
    <3>1. Calm([Idle EXCEPT !.pc = "find", !.b = p, !.obs = o])  BY DEF Idle, PCs
    <3>2. QED  BY <2>3, <3>1 DEF CallIngest
  <2>4. QED  BY <1>4, <2>1, <2>2, <2>3 DEF Call
<1>5. CASE ReadJournal(r)
  <2>1. \A i : Calm([req[r] EXCEPT !.pc = "lockHead", !.entry = i, !.a = journal[i].kept])
    BY <1>1 DEF RequestRecord, PCs
  <2>2. QED  BY <1>3, <1>5, <2>1 DEF ReadJournal
<1>6. CASE LockHead(r)
  <2>1. Calm([req[r] EXCEPT !.pc = "checkLater"])  BY <1>1 DEF RequestRecord, PCs
  <2>2. QED  BY <1>6, <2>1 DEF LockHead
<1>7. CASE Find(r)
  <2>1. \A p : /\ Calm([req[r] EXCEPT !.pc = "lockFound", !.a = p])
               /\ Calm([req[r] EXCEPT !.pc = "insertPoi", !.a = p])
    BY <1>1 DEF RequestRecord, PCs
  <2>2. QED  BY <1>7, <2>1 DEF Find
<1>8. CASE LockFound(r)
  <2>1. Calm([req[r] EXCEPT !.pc = "observe", !.locked = TRUE])  BY <1>1 DEF RequestRecord, PCs
  <2>2. QED  BY <1>8, <2>1 DEF LockFound
<1>9. CASE InsertPoi(r)
  <2>1. Calm([req[r] EXCEPT !.pc = "observe"])  BY <1>1 DEF RequestRecord, PCs
  <2>2. QED  BY <1>9, <2>1 DEF InsertPoi
<1>10. QED  BY <1>3, <1>4, <1>5, <1>6, <1>7, <1>8, <1>9
\* What is left to peel off stays the same while the rows and the later merges do.
LEMMA PeelKeeps ==
    ASSUME NEW i, Peels(i), Later(i)' = Later(i),
           journal'[i] = journal[i], \A j \in Later(i) : journal'[j] = journal[j],
           Row(journal[i].kept)' = Row(journal[i].kept),
           Row(journal[i].merged)' = Row(journal[i].merged)
    PROVE  Peels(i)'
<1>0. PICK m : m = journal[i]
  OBVIOUS
<1>1. /\ ext'[m.kept] = ext[m.kept] /\ refs'[m.kept] = refs[m.kept]
      /\ ext'[m.merged] = ext[m.merged] /\ refs'[m.merged] = refs[m.merged]
  BY <1>0 DEF Row
<1>2. PICK united : united = Union(m.snapshot, Row(m.merged))
  OBVIOUS
<1>3. Union(m.snapshot, Row(m.merged))' = united  BY <1>1, <1>2 DEF Union, Row
<1>4. Later(i) = {} => Row(m.kept)' = united  BY <1>0, <1>1, <1>2 DEF Peels, Row
<1>5. \A j \in Later(i) : (\A k \in Later(i) : j <= k) => journal'[j].snapshot = united
  BY <1>0, <1>2 DEF Peels
<1>6. QED  BY <1>0, <1>3, <1>4, <1>5 DEF Peels

\* A commit that changes one row, which it holds or inserts, leaves the others steady.
LEMMA SteadyOthers ==
    ASSUME IInv, CoordInv, PeelInv, NEW r \in Requests, NEW H, Commit(r, H),
           NEW x \in Locked(req[r]) \cup (Pois \ Here),
           \A p \in Pois \ {x} : ext'[p] = ext[p] /\ refs'[p] = refs[p],
           \A j \in DOMAIN journal' : journal'[j].live /\ journal'[j].kept # x =>
               /\ j \in DOMAIN journal /\ journal[j].live
               /\ journal[j].kept = journal'[j].kept
    PROVE  \A s \in Requests : Steady(req[s])'
<1>1. /\ req'[r] = Idle /\ \A s \in Requests \ {r} : Alike(req[s], req'[s])
  BY CommitOthers
<1>2. ASSUME NEW s \in Requests  PROVE Steady(req[s])'
  <2>1. CASE s = r  BY <1>1, <2>1 DEF Steady, Idle
  <2>2. CASE s # r
    <3>1. /\ Alike(req[s], req'[s]) /\ Steady(req[s]) /\ Knows(req[s])
          /\ Locked(req[r]) \cap Locked(req[s]) = {}
      BY <1>1, <2>2 DEF PeelInv, IInv, LocksExclude
    <3>2. PICK q : q = req[s]
      OBVIOUS
    <3>3. q.pc \in {"lockMerged", "checkIncoming", "merge", "unmerge"} =>
              q.a \in Pois /\ q.a # x
      <4>1. SUFFICES ASSUME q.pc \in {"lockMerged", "checkIncoming", "merge", "unmerge"}
                     PROVE  q.a \in Pois /\ q.a # x
        OBVIOUS
      <4>2. q.a \in Locked(q)  BY <4>1 DEF Locked
      <4>3. q.a \in Here
        <5>1. CASE q.pc = "unmerge"
          <6>1. q.entry \in DOMAIN journal /\ journal[q.entry].live /\ journal[q.entry].kept = q.a
            BY <3>1, <3>2, <5>1 DEF Knows, LiveMerges
          <6>2. QED  BY <6>1, LiveMerge
        <5>2. CASE q.pc # "unmerge"  BY <3>1, <3>2, <4>1, <5>2 DEF Knows
        <5>3. QED  BY <5>1, <5>2
      <4>4. QED  BY <3>1, <3>2, <4>2, <4>3 DEF Here
    <3>4. req'[s].pc = q.pc /\ req'[s].a = q.a /\ req'[s].was = q.was /\ req'[s].entry = q.entry
      BY <3>1, <3>2 DEF Alike
    <3>5. Steady(q)  BY <3>1, <3>2
    <3>6. q.pc \in {"lockMerged", "checkIncoming", "merge"} =>
              q.was = [ext |-> ext'[q.a], refs |-> refs'[q.a]]
      BY <3>3, <3>5 DEF Steady, Row
    <3>7. q.pc = "unmerge" => \A j \in DOMAIN journal' :
              journal'[j].live /\ journal'[j].kept = q.a => j <= q.entry
      BY <3>3, <3>5 DEF Steady
    <3>8. QED  BY <3>4, <3>6, <3>7 DEF Steady, Row
  <2>3. QED  BY <2>1, <2>2
<1>3. QED  BY <1>2

\* An ingestion writes a row of its own, or one it is noted to have updated.
LEMMA PeelWrite ==
    ASSUME IInv, CoordInv, PeelInv, NEW r \in Requests, NEW H, Commit(r, H),
           req[r].pc \in {"observe", "setCoord"}, WritePoi(r), journal' = journal
    PROVE  PeelInv'
<1>0. PICK x \in Pois : x = req[r].a
  BY DEF IInv, Knows
<1>1. TypeOK  BY DEF IInv
<1>2. CASE req[r].locked \/ x \notin Here
  <2>1. /\ \A p \in Pois \ {x} : ext'[p] = ext[p] /\ refs'[p] = refs[p]
        /\ learned \subseteq learned' /\ (req[r].locked => x \in learned')
    BY <1>0, <1>1, <1>2 DEF WritePoi, TypeOK
  <2>2. x \in Locked(req[r]) \cup (Pois \ Here)  BY <1>0, <1>2 DEF Locked
  <2>3. \A s \in Requests : Steady(req[s])'  BY <2>1, <2>2, SteadyOthers
  <2>4. ASSUME NEW i \in DOMAIN journal, journal[i].live,
               journal[i].kept \notin learned' /\ journal[i].merged \notin learned'
        PROVE  Peels(i)'
    <3>1. Peels(i)  BY <2>1, <2>4 DEF PeelInv, Exempt
    <3>2. /\ journal[i].kept \in Here \cap Pois /\ journal[i].merged \in Here \cap Pois
      BY <2>4, LiveMerge
    <3>3. x \notin {journal[i].kept, journal[i].merged}  BY <1>2, <2>1, <2>4, <3>2
    <3>4. /\ Row(journal[i].kept)' = Row(journal[i].kept)
          /\ Row(journal[i].merged)' = Row(journal[i].merged)
      BY <2>1, <3>2, <3>3 DEF Row
    <3>5. Later(i)' = Later(i)  BY DEF Later
    <3>6. QED  BY <3>1, <3>4, <3>5, PeelKeeps
  <2>5. QED  BY <2>3, <2>4 DEF PeelInv, Exempt
<1>3. CASE ~(req[r].locked \/ x \notin Here)
  <2>1. UNCHANGED <<ext, refs, learned>>  BY <1>0, <1>3 DEF WritePoi
  <2>2. /\ req'[r] = Idle /\ \A s \in Requests \ {r} : Alike(req[s], req'[s])
    BY CommitOthers
  <2>3. \A s \in Requests : Steady(req'[s])
    BY <2>2 DEF PeelInv, Steady, Alike, Idle
  <2>4. QED  BY <2>1, <2>3, PeelFrame
<1>4. QED  BY <1>2, <1>3

LEMMA PeelObserve ==
    ASSUME IInv, CoordInv, PeelInv, NEW r \in Requests, Observe(r) \/ SetCoord(r)
    PROVE  PeelInv'
<1>1. CASE SetCoord(r)
  <2>1. req[r].pc = "setCoord" /\ WritePoi(r) /\ Commit(r, {req[r].head, Canon(req[r].a)})
        /\ journal' = journal
    BY <1>1 DEF SetCoord, Ready
  <2>2. QED  BY <2>1, PeelWrite
<1>2. CASE Observe(r)
  <2> DEFINE q == [req[r] EXCEPT !.pc = "setCoord", !.head = Canon(req[r].a),
              !.from = Consensus(log \cup {<<req[r].obs, req[r].a>>}, redirect, Canon(req[r].a))]
  <2>1. q.pc = "setCoord"  BY DEF IInv, TypeOK, RequestRecord
  <2>2. /\ req[r].pc = "observe"
        /\ Goto(r, q) \/ (WritePoi(r) /\ Commit(r, {}) /\ journal' = journal)
    BY <1>2 DEF Observe, Ready
  <2> HIDE DEF q
  <2>3. Steady(q)  BY <2>1 DEF Steady
  <2>4. QED  BY <2>2, <2>3, PeelGoto, PeelWrite
<1>3. QED  BY <1>1, <1>2

LEMMA PeelMerge ==
    ASSUME IInv, CoordInv, PeelInv, NEW r \in Requests, Merge(r)
    PROVE  PeelInv'
<1>1. TypeOK /\ req[r] \in RequestRecord /\ Knows(req[r]) /\ req[r].pc = "merge"
  BY DEF IInv, TypeOK, Merge, Ready
<1>2. PICK a \in Pois, b \in Pois, was \in Contents :
          a = req[r].a /\ b = req[r].b /\ was = req[r].was
  BY <1>1 DEF Knows, RequestRecord
<1>b. PICK H : H = {a, b}
  OBVIOUS
<1>3. a # b /\ redirect[a] = NoPoi /\ was = Row(a)
  BY <1>1, <1>2 DEF Knows, PeelInv, Steady
<1> DEFINE both == Union(was, Row(b))
           entry == [kept |-> a, merged |-> b, snapshot |-> was, live |-> TRUE]
<1>a. PICK top \in Nat : top = Len(journal) + 1
  BY <1>1, JournalType
<1>4. /\ journal' = Append(journal, entry)
      /\ ext' = [ext EXCEPT ![a] = both.ext]
      /\ refs' = [refs EXCEPT ![a] = both.refs]
      /\ Commit(r, H)
      /\ UNCHANGED learned
  BY <1>2, <1>b DEF Merge
<1>5. /\ DOMAIN journal' = DOMAIN journal \cup {top} /\ journal'[top] = entry
      /\ \A i \in DOMAIN journal : i \in Nat /\ i < top /\ journal'[i] = journal[i]
      /\ top \in Nat
  <2>1. entry \in JournalRow /\ journal \in Seq(JournalRow) /\ Len(journal) \in Nat
        /\ DOMAIN journal = 1 .. Len(journal)
    BY <1>1, <1>2, JournalType DEF JournalRow
  <2> HIDE DEF entry
  <2>2. journal' = Append(journal, entry)  BY <1>4
  <2>3. QED  BY <1>a, <2>1, <2>2
<1>6. /\ \A p \in Pois \ {a} : ext'[p] = ext[p] /\ refs'[p] = refs[p]
      /\ ext'[a] = both.ext /\ refs'[a] = both.refs
  BY <1>1, <1>2, <1>4 DEF TypeOK
<1>7. \A s \in Requests : Steady(req[s])'
  <2>1. a \in Locked(req[r])  BY <1>1, <1>2 DEF Locked
  <2>2. \A j \in DOMAIN journal' : journal'[j].live /\ journal'[j].kept # a =>
            j \in DOMAIN journal /\ journal[j].live /\ journal[j].kept = journal'[j].kept
    BY <1>5
  <2>3. QED  BY <1>4, <1>6, <2>1, <2>2, SteadyOthers
<1>8. /\ top \in DOMAIN journal' /\ journal'[top].kept = a /\ journal'[top].merged = b
      /\ journal'[top].snapshot = was /\ journal'[top].live
  BY <1>5
<1>9. Peels(top)'
  <2>1. Later(top)' = {}  BY <1>5 DEF Later
  <2>2. Row(a)' = Union(was, Row(b))  BY <1>6 DEF Row, Union
  <2>3. Row(b)' = Row(b)  BY <1>2, <1>3, <1>6 DEF Row
  <2>4. Union(was, Row(b))' = Union(was, Row(b))  BY <2>3 DEF Union
  <2>5. QED  BY <1>8, <2>1, <2>2, <2>4 DEF Peels
<1>10. ASSUME NEW i \in DOMAIN journal, journal[i].live, ~Exempt(i)
       PROVE  Peels(i)'
  <2>1. PICK m : m = journal[i]
    OBVIOUS
  <2>2. Peels(i) /\ journal'[i] = m  BY <1>5, <1>10, <2>1 DEF PeelInv
  <2>3. m.merged \in Pois /\ m.kept \in Pois /\ m.merged # a
    BY <1>3, <1>10, <2>1, LiveMerge
  <2>4. Row(m.merged)' = Row(m.merged)  BY <1>6, <2>3 DEF Row
  <2>5. CASE m.kept = a
    <3>1. Later(i)' = Later(i) \cup {top}
      BY <1>5, <1>8, <2>1, <2>5 DEF Later
    <3>2. PICK united : united = Union(m.snapshot, Row(m.merged))
      OBVIOUS
    <3>3. Union(m.snapshot, Row(m.merged))' = united  BY <2>4, <3>2 DEF Union
    <3>4. ASSUME NEW j \in Later(i)', \A k \in Later(i)' : j <= k
          PROVE  journal'[j].snapshot = united
      <4>1. CASE j \in Later(i)
        BY <1>5, <2>1, <2>2, <3>1, <3>2, <3>4, <4>1 DEF Peels, Later
      <4>2. CASE j \notin Later(i)
        <5>1. j = top  BY <3>1, <4>2
        <5>2. Later(i) = {}  BY <1>5, <3>1, <3>4, <5>1 DEF Later
        <5>3. Row(a) = united  BY <2>1, <2>2, <2>5, <3>2, <5>2 DEF Peels
        <5>4. QED  BY <1>3, <1>8, <5>1, <5>3
      <4>3. QED  BY <4>1, <4>2
    <3>5. Later(i)' # {}  BY <3>1
    <3>6. \A j \in Later(i)' : (\A k \in Later(i)' : j <= k) => journal'[j].snapshot = united
      BY <3>4
    <3>7. QED  BY <2>2, <3>3, <3>5, <3>6 DEF Peels
  <2>6. CASE m.kept # a
    <3>1. Later(i)' = Later(i)  BY <1>5, <1>8, <2>1, <2>6 DEF Later
    <3>2. Row(m.kept)' = Row(m.kept)  BY <1>6, <2>3, <2>6 DEF Row
    <3>3. \A j \in Later(i) : journal'[j] = journal[j]  BY <1>5 DEF Later
    <3>4. QED  BY <2>1, <2>2, <2>4, <3>1, <3>2, <3>3, PeelKeeps
  <2>7. QED  BY <2>5, <2>6
<1>11. ASSUME NEW i \in DOMAIN journal', journal'[i].live,
              journal'[i].kept \notin learned' /\ journal'[i].merged \notin learned'
       PROVE  Peels(i)'
  <2>1. CASE i = top  BY <1>9, <2>1
  <2>2. CASE i # top  BY <1>4, <1>5, <1>10, <1>11, <2>2 DEF Exempt
  <2>3. QED  BY <2>1, <2>2
<1>12. QED  BY <1>7, <1>11 DEF PeelInv, Exempt

LEMMA PeelUnmerge ==
    ASSUME IInv, CoordInv, PeelInv, NEW r \in Requests, Unmerge(r)
    PROVE  PeelInv'
<1>1. TypeOK /\ req[r] \in RequestRecord /\ Knows(req[r]) /\ req[r].pc = "unmerge"
  BY DEF IInv, TypeOK, Unmerge, Ready
<1>2. PICK a \in Pois, b \in Pois, e \in DOMAIN journal :
          a = req[r].a /\ b = req[r].b /\ e = req[r].entry
  BY <1>1 DEF Knows, LiveMerges
<1>b. PICK H : H = {a, b}
  OBVIOUS
<1>3. journal[e].live /\ journal[e].kept = a
  BY <1>1, <1>2 DEF Knows, LiveMerges
<1>4. redirect[a] = NoPoi  BY <1>3, LiveMerge
<1>5. \A j \in DOMAIN journal : journal[j].live /\ journal[j].kept = a => j <= e
  BY <1>1, <1>2 DEF PeelInv, Steady
<1>6. /\ ext' = [ext EXCEPT ![a] = journal[e].snapshot.ext]
      /\ refs' = [refs EXCEPT ![a] = journal[e].snapshot.refs]
      /\ journal' = [journal EXCEPT ![e].live = FALSE]
      /\ Commit(r, H)
      /\ UNCHANGED learned
  BY <1>2, <1>b DEF Unmerge
<1>7. /\ DOMAIN journal' = DOMAIN journal
      /\ \A i \in DOMAIN journal : i \in Nat /\ (i # e => journal'[i] = journal[i])
      /\ ~journal'[e].live
      /\ \A i \in DOMAIN journal : journal'[i].snapshot = journal[i].snapshot
  <2>1. journal[e] \in JournalRow /\ \A i \in DOMAIN journal : i \in Nat
    BY <1>1, JournalType
  <2> DEFINE stamped == [journal[e] EXCEPT !.live = FALSE]
  <2>2. ~stamped.live /\ stamped.snapshot = journal[e].snapshot  BY <2>1 DEF JournalRow
  <2>3. journal' = [journal EXCEPT ![e] = stamped]  BY <1>6
  <2>4. journal \in Seq(JournalRow)  BY <1>1, JournalType
  <2> HIDE DEF stamped
  <2>5. QED  BY <2>1, <2>2, <2>3, <2>4
<1>8. /\ \A p \in Pois \ {a} : ext'[p] = ext[p] /\ refs'[p] = refs[p]
      /\ Row(a)' = journal[e].snapshot
  <2>1. journal[e].snapshot \in Contents  BY <1>1, JournalType DEF JournalRow
  <2>2. QED  BY <1>1, <1>2, <1>6, <2>1 DEF TypeOK, Row, Contents
<1>9. \A s \in Requests : Steady(req[s])'
  <2>1. a \in Locked(req[r])  BY <1>1, <1>2 DEF Locked
  <2>2. \A j \in DOMAIN journal' : journal'[j].live /\ journal'[j].kept # a =>
            j \in DOMAIN journal /\ journal[j].live /\ journal[j].kept = journal'[j].kept
    BY <1>7
  <2>3. QED  BY <1>6, <1>8, <2>1, <2>2, SteadyOthers
<1>10. ASSUME NEW i \in DOMAIN journal, i # e, journal[i].live, ~Exempt(i)
       PROVE  Peels(i)'
  <2>1. PICK m : m = journal[i]
    OBVIOUS
  <2>2. Peels(i) /\ journal'[i] = m  BY <1>7, <1>10, <2>1 DEF PeelInv
  <2>3. m.merged \in Pois /\ m.kept \in Pois /\ m.merged # a
    BY <1>4, <1>10, <2>1, LiveMerge
  <2>4. Row(m.merged)' = Row(m.merged)  BY <1>8, <2>3 DEF Row
  <2>5. CASE m.kept = a
    <3>1. i < e  BY <1>5, <1>7, <1>10, <2>1, <2>5
    <3>2. e \in Later(i)  BY <1>3, <2>1, <2>5, <3>1 DEF Later
    <3>3. Later(i)' = Later(i) \ {e}
      BY <1>7, <2>1, <2>2 DEF Later
    <3>4. PICK united : united = Union(m.snapshot, Row(m.merged))
      OBVIOUS
    <3>5. Union(m.snapshot, Row(m.merged))' = united  BY <2>4, <3>4 DEF Union
    <3>6. \A k \in Later(i) : k \in Nat /\ k <= e
      BY <1>5, <1>7, <2>1, <2>5 DEF Later
    <3>7. \A j \in Later(i) : (\A k \in Later(i) : j <= k) => journal[j].snapshot = united
      BY <2>1, <2>2, <3>4 DEF Peels
    <3>8. Later(i)' = {} => Row(a)' = united
      <4>1. Later(i)' = {} => Later(i) = {e}  BY <3>2, <3>3
      <4>2. QED  BY <1>7, <1>8, <3>2, <3>7, <4>1
    <3>9. \A j \in Later(i)' : (\A k \in Later(i)' : j <= k) => journal'[j].snapshot = united
      <4>1. ASSUME NEW j \in Later(i)', \A k \in Later(i)' : j <= k
            PROVE  j \in Later(i) /\ \A k \in Later(i) : j <= k
        BY <3>3, <3>6, <4>1
      <4>2. Later(i) \subseteq DOMAIN journal  BY DEF Later
      <4>3. QED  BY <1>7, <3>7, <4>1, <4>2
    <3>10. QED  BY <2>2, <2>5, <3>5, <3>8, <3>9 DEF Peels
  <2>6. CASE m.kept # a
    <3>1. Later(i)' = Later(i)  BY <1>3, <1>7, <2>1, <2>2, <2>6 DEF Later
    <3>2. Row(m.kept)' = Row(m.kept)  BY <1>8, <2>3, <2>6 DEF Row
    <3>3. \A j \in Later(i) : journal'[j] = journal[j]
      BY <1>3, <1>7, <2>1, <2>6 DEF Later
    <3>4. QED  BY <2>1, <2>2, <2>4, <3>1, <3>2, <3>3, PeelKeeps
  <2>7. QED  BY <2>5, <2>6
<1>11. ASSUME NEW i \in DOMAIN journal', journal'[i].live,
              journal'[i].kept \notin learned' /\ journal'[i].merged \notin learned'
       PROVE  Peels(i)'
  BY <1>6, <1>7, <1>10, <1>11 DEF Exempt
<1>12. QED  BY <1>9, <1>11 DEF PeelInv, Exempt

LEMMA PeelTime ==
    ASSUME IInv, PeelInv,
           \/ \E o \in Observations : Expire(o)
           \/ Purge
           \/ UNCHANGED vars
    PROVE  PeelInv'
<1>1. CASE \E o \in Observations : Expire(o)
  <2>1. PICK o \in Observations : Expire(o)  BY <1>1
  <2>2. /\ UNCHANGED <<ext, refs, journal, learned>>
        /\ req' = [q \in Requests |-> [req[q] EXCEPT !.late = @ \/ o \in req[q].from]]
    BY <2>1 DEF Expire
  <2>3. ASSUME NEW s \in Requests  PROVE Steady(req'[s])
    <3>1. req[s] \in RequestRecord /\ Steady(req[s])  BY DEF IInv, TypeOK, PeelInv
    <3>2. Alike(req[s], req'[s])  BY <2>2, <3>1 DEF Alike, RequestRecord
    <3>3. QED  BY <3>1, <3>2 DEF Steady, Alike
  <2>4. QED  BY <2>2, <2>3, PeelFrame
<1>2. CASE Purge \/ UNCHANGED vars
  <2>1. UNCHANGED <<ext, refs, journal, learned, req>>  BY <1>2 DEF Purge, vars
  <2>2. \A s \in Requests : Steady(req'[s])  BY <2>1 DEF PeelInv
  <2>3. QED  BY <2>1, <2>2, PeelFrame
<1>3. QED  BY <1>1, <1>2

LEMMA PeelInit == Init => PeelInv
BY DEF Init, PeelInv, Steady, Idle

LEMMA PeelNext == IInv /\ CoordInv /\ PeelInv /\ [Next]_vars => PeelInv'
<1>1. SUFFICES ASSUME IInv, CoordInv, PeelInv, [Next]_vars  PROVE PeelInv'
  OBVIOUS
<1>2. ASSUME NEW r \in Requests, Step(r)  PROVE PeelInv'
  BY <1>1, <1>2, PeelMove, PeelElse, PeelMerge, PeelUnmerge, PeelObserve DEF Step
<1>3. ASSUME NEW r \in Requests, Call(r) \/ Rollback(r)  PROVE PeelInv'
  BY <1>1, <1>3, PeelElse
<1>4. CASE (\E o \in Observations : Expire(o)) \/ Purge \/ UNCHANGED vars
  BY <1>1, <1>4, PeelTime
<1>5. QED  BY <1>1, <1>2, <1>3, <1>4 DEF Next, Fail, DeadlockVictim

\* Undoing the live merges into a place, last first, gives back what each of them found,
\* unless an ingestion has updated one of the places since.
THEOREM UndoFaithful == Spec => []UndoPeels
<1>1. Spec => []CoordInv
  BY CoordInit, CoordNext, Invariance, PTL DEF Spec
<1>2. QED  BY <1>1, PeelInit, PeelNext, PeelInvIs, Invariance, PTL DEF Spec
=============================================================================
