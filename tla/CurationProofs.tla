---------------------------- MODULE CurationProofs ----------------------------
(***************************************************************************)
(* Proofs about the curation of a trip, for any places, sources, members   *)
(* and votes: cards are whole and show nothing their source has replaced,  *)
(* tallies are those of the votes, and a ranking hears every member.       *)
(*                                                                         *)
(* The argument.  A redirect is one hop: what a place was merged into has  *)
(* no redirect itself, and each redirect has one row of the journal, so    *)
(* however many merges led somewhere, the redirect leads there at once.    *)
(* Rows of facts are ordered by any of the resolver's comparisons, so that *)
(* it has a winner, and no other report of the winner's kind and certainty *)
(* is later.  A card, or a ranking, has of each table what the table still *)
(* says, until a write overtakes it: whatever order its statements come    *)
(* in, the answer is one read of tables that did not change.               *)
(*                                                                         *)
(* The members are listed once each, so counting places on the list counts *)
(* members; a score is positive only for whoever has an interest or voted  *)
(* for the place, so a mean of 0.34 needs a third of them.  A vote that is *)
(* written but not committed has counted what the place's votes will be    *)
(* once it has, until another one is committed in between.                 *)
(***************************************************************************)
EXTENDS Curation, PowerProofs, FiniteSetTheorems, SequenceTheorems

-----------------------------------------------------------------------------
(* Redirects *)

\* Where a redirect leads, in one hop.
Hop(p) == IF redirect[p] = NoPoi THEN p ELSE redirect[p]

MergeInv ==
    /\ redirect \in [Pois -> Pois \cup {NoPoi}]
    /\ \E S : journal \in Seq(S)
    /\ \A i \in 1 .. Len(journal) :
          /\ journal[i].kept \in Pois /\ journal[i].merged \in Pois
          /\ redirect[journal[i].merged] = journal[i].kept
    /\ \A i, j \in 1 .. Len(journal) : journal[i].merged = journal[j].merged => i = j
    /\ \A p \in Pois : redirect[p] # NoPoi => \E i \in 1 .. Len(journal) : journal[i].merged = p
    /\ \A p \in Pois : redirect[p] # NoPoi => redirect[redirect[p]] = NoPoi

LEMMA NullIsNone == NoPoi \notin Pois
BY CurationAssumption

\* A function on Nat that is p first and moves on by Hop is at Hop(p) from then on.
LEMMA HopsEnd ==
    ASSUME MergeInv, NEW p \in Pois, NEW after, after[0] = p,
           \A n \in Nat : after[n + 1] = Hop(after[n])
    PROVE  \A n \in Nat \ {0} : after[n] = Hop(p)
<1> DEFINE Good == {n \in Nat : after[n + 1] = Hop(p)}
<1>1. Hop(p) \in Pois /\ Hop(Hop(p)) = Hop(p)
  BY DEF MergeInv, Hop
<1>2. 0 \in Good
  OBVIOUS
<1>3. \A n \in Good : n + 1 \in Good
  BY <1>1
<1>4. Good \subseteq Nat
  OBVIOUS
<1> HIDE DEF Good
<1>5. Good = Nat
  BY <1>2, <1>3, <1>4, SetInduction
<1>6. ASSUME NEW n \in Nat \ {0} PROVE after[n] = Hop(p)
  <2>1. n - 1 \in Good /\ (n - 1) + 1 = n
    BY <1>5
  <2>2. QED  BY <2>1 DEF Good
<1>7. QED  BY <1>6

Kept(q) == LET mine == {i \in DOMAIN journal : journal[i].merged = q}
           IN IF mine = {} THEN q ELSE journal[CHOOSE i \in mine : TRUE].kept

LEMMA KeptIsHop ==
    ASSUME MergeInv, NEW q \in Pois
    PROVE  Kept(q) = Hop(q)
<1>1. DOMAIN journal = 1 .. Len(journal)
  BY DEF MergeInv
<1> DEFINE mine == {i \in DOMAIN journal : journal[i].merged = q}
<1>2. CASE mine = {}
  <2>1. redirect[q] = NoPoi
    BY <1>1, <1>2 DEF MergeInv
  <2>2. QED  BY <1>2, <2>1 DEF Kept, Hop
<1>3. CASE mine # {}
  <2>1. (CHOOSE i \in mine : TRUE) \in mine
    BY <1>3
  <2>2. PICK i \in mine : i = CHOOSE j \in mine : TRUE
    BY <2>1
  <2>3. journal[i].kept = redirect[q] /\ redirect[q] # NoPoi
    BY <1>1, <2>2, NullIsNone DEF MergeInv
  <2>4. Kept(q) = journal[i].kept
    BY <1>3, <2>2 DEF Kept
  <2>5. QED  BY <2>3, <2>4 DEF Hop
<1>4. QED  BY <1>2, <1>3

LEMMA CountPois == Cards!Cardinality(Pois) \in Nat /\ (Pois # {} => Cards!Cardinality(Pois) # 0)
<1>1. Cards!Cardinality(Pois) = Cardinality(Pois)
  BY DEF Cards!Cardinality, Cardinality
<1>2. IsFiniteSet(Pois)
  BY PlacesAssumption
<1>3. QED  BY <1>1, <1>2, FS_CardinalityType, FS_EmptySet

\* The place that the live merges lead to is one hop away.
LEMMA HeadIsHop ==
    ASSUME MergeInv, NEW p \in Pois
    PROVE  Cards!HeadOf(p) = Hop(p)
<1> DEFINE Body(f) == [n \in Nat |-> IF n = 0 THEN p ELSE Kept(f[n - 1])]
           after == CHOOSE f : f = Body(f)
           count == Cards!Cardinality(Pois)
           step == [q \in Pois |-> Kept(q)]
<1>1. Cards!HeadOf(p) = after[count]
  BY DEF Cards!HeadOf, Kept
<1>2. count \in Nat \ {0}
  BY CountPois
<1>3. PICK f : Recurs(f, Pois, p, step)
  <2>1. ASSUME NEW next \in [Pois -> Pois]
        PROVE  \E f : Recurs(f, Pois, p, next)
    BY StepRecursion
  <2>2. step \in [Pois -> Pois]
    BY KeptIsHop DEF Hop, MergeInv
  <2> HIDE DEF step
  <2>3. QED  BY <2>1, <2>2
<1>4. f \in [Nat -> Pois] /\ f[0] = p /\ \A n \in Nat : f[n + 1] = Hop(f[n])
  BY <1>3, KeptIsHop DEF Recurs
<1>5. f = Body(f)
  <2>1. ASSUME NEW n \in Nat PROVE f[n] = IF n = 0 THEN p ELSE Kept(f[n - 1])
    <3>1. CASE n = 0
      BY <1>4, <3>1
    <3>2. CASE n # 0
      <4>1. n - 1 \in Nat /\ (n - 1) + 1 = n
        BY <3>2
      <4>2. f[n] = Hop(f[n - 1]) /\ f[n - 1] \in Pois
        BY <1>4, <4>1
      <4>3. QED  BY <4>2, <3>2, KeptIsHop
    <3>3. QED  BY <3>1, <3>2
  <2>2. f = [n \in Nat |-> f[n]]
    BY <1>4
  <2>3. QED  BY <2>1, <2>2
<1> HIDE DEF count
<1>6. after = Body(after)
  BY <1>5
<1> DEFINE g == after
<1>7. g = Body(g)
  BY <1>6
<1> HIDE DEF g
<1>8. g[0] = p /\ \A n \in Nat \ {0} : g[n] = Kept(g[n - 1])
  BY <1>7
<1>9. \A n \in Nat : g[n] \in Pois
  <2> DEFINE Good == {n \in Nat : g[n] \in Pois}
  <2>1. 0 \in Good
    BY <1>8
  <2>2. ASSUME NEW n \in Good PROVE n + 1 \in Good
    <3>1. n + 1 \in Nat \ {0} /\ (n + 1) - 1 = n
      OBVIOUS
    <3>2. g[n + 1] = Kept(g[n])
      BY <1>8, <3>1
    <3>3. Kept(g[n]) \in Pois
      BY KeptIsHop DEF Hop, MergeInv
    <3>4. QED  BY <3>2, <3>3
  <2>3. Good \subseteq Nat
    OBVIOUS
  <2> HIDE DEF Good
  <2>4. Good = Nat
    BY <2>1, <2>2, <2>3, SetInduction
  <2>5. QED  BY <2>4 DEF Good
<1>10. \A n \in Nat : g[n + 1] = Hop(g[n])
  <2> SUFFICES ASSUME NEW n \in Nat PROVE g[n + 1] = Hop(g[n])
    OBVIOUS
  <2>1. n + 1 \in Nat \ {0} /\ (n + 1) - 1 = n
    OBVIOUS
  <2>2. g[n + 1] = Kept(g[n])
    BY <1>8, <2>1
  <2>3. QED  BY <2>2, <1>9, KeptIsHop
<1>11. g[count] = Hop(p)
  BY <1>2, <1>8, <1>10, HopsEnd
<1>12. QED  BY <1>1, <1>11 DEF g

-----------------------------------------------------------------------------
(* Merges keep redirects one hop long. *)

LEMMA MergeKeeps ==
    ASSUME MergeInv, NEW kept \in Pois, NEW merged \in Pois, Cards!Merge(kept, merged)
    PROVE  MergeInv'
<1> DEFINE n == Len(journal)
<1>1. PICK S : journal \in Seq(S)
  BY DEF MergeInv
<1>2. PICK x : /\ journal' = Append(journal, x)
               /\ x.kept = kept /\ x.merged = merged
  BY DEF Cards!Merge
<1>3. /\ kept # merged /\ redirect[kept] = NoPoi /\ redirect[merged] = NoPoi
      /\ \A p \in Pois : redirect[p] # merged
      /\ redirect' = [redirect EXCEPT ![merged] = kept]
  BY DEF Cards!Merge, Cards!Canonical
<1>4. /\ journal' \in Seq(S \cup {x}) /\ Len(journal') = n + 1 /\ n \in Nat
      /\ \A i \in 1 .. n : journal'[i] = journal[i]
      /\ journal'[n + 1] = x
  BY <1>1, <1>2
<1>5. redirect' \in [Pois -> Pois \cup {NoPoi}]
  BY <1>3 DEF MergeInv
<1>6. redirect'[merged] = kept /\ \A p \in Pois \ {merged} : redirect'[p] = redirect[p]
  BY <1>3 DEF MergeInv
<1> HIDE DEF n
<1>7. \A i \in 1 .. n : journal[i].merged # merged
  BY <1>3, NullIsNone DEF MergeInv, n
<1>8. \A i \in 1 .. n + 1 : i \in 1 .. n \/ i = n + 1
  BY <1>4
<1>9. \A i \in 1 .. n + 1 : /\ journal'[i].kept \in Pois /\ journal'[i].merged \in Pois
                            /\ redirect'[journal'[i].merged] = journal'[i].kept
  <2> SUFFICES ASSUME NEW i \in 1 .. n + 1
               PROVE  /\ journal'[i].kept \in Pois /\ journal'[i].merged \in Pois
                      /\ redirect'[journal'[i].merged] = journal'[i].kept
    OBVIOUS
  <2>1. CASE i \in 1 .. n
    BY <1>4, <1>6, <1>7, <2>1 DEF MergeInv, n
  <2>2. CASE i = n + 1
    BY <1>2, <1>4, <1>6, <2>2
  <2>3. QED  BY <1>8, <2>1, <2>2
<1>10. \A i, j \in 1 .. n + 1 : journal'[i].merged = journal'[j].merged => i = j
  <2> SUFFICES ASSUME NEW i \in 1 .. n + 1, NEW j \in 1 .. n + 1,
                      journal'[i].merged = journal'[j].merged
               PROVE  i = j
    OBVIOUS
  <2>1. CASE i \in 1 .. n /\ j \in 1 .. n
    BY <1>4, <2>1 DEF MergeInv, n
  <2>2. CASE i = n + 1 \/ j = n + 1
    BY <1>2, <1>4, <1>7, <1>8, <2>2
  <2>3. QED  BY <1>8, <2>1, <2>2
<1>11. ASSUME NEW p \in Pois, redirect'[p] # NoPoi
       PROVE  /\ \E i \in 1 .. n + 1 : journal'[i].merged = p
              /\ redirect'[redirect'[p]] = NoPoi
  <2>1. CASE p = merged
    <3>1. n + 1 \in 1 .. n + 1
      BY <1>4
    <3>2. QED  BY <1>2, <1>3, <1>4, <1>6, <2>1, <3>1
  <2>2. CASE p # merged
    <3>1. redirect[p] # NoPoi /\ redirect'[p] = redirect[p] /\ redirect[p] \in Pois
      BY <1>6, <1>11, <2>2 DEF MergeInv
    <3>2. PICK i \in 1 .. n : journal[i].merged = p
      BY <3>1 DEF MergeInv, n
    <3>3. i \in 1 .. n + 1 /\ journal'[i].merged = p
      BY <1>4, <3>2
    <3>4. redirect[redirect[p]] = NoPoi /\ redirect[p] # merged
      BY <1>3, <3>1 DEF MergeInv
    <3>5. QED  BY <1>6, <3>1, <3>3, <3>4
  <2>3. QED  BY <2>1, <2>2
<1>12. QED  BY <1>4, <1>5, <1>9, <1>10, <1>11 DEF MergeInv

\* A sequence without its i-th element.
Cut(s, i) == SubSeq(s, 1, i - 1) \o SubSeq(s, i + 1, Len(s))

LEMMA CutProperties ==
    ASSUME NEW S, NEW s \in Seq(S), NEW i \in 1 .. Len(s)
    PROVE  /\ Cut(s, i) \in Seq(S) /\ Len(Cut(s, i)) = Len(s) - 1
           /\ \A j \in 1 .. Len(s) - 1 : Cut(s, i)[j] = IF j < i THEN s[j] ELSE s[j + 1]
<1> DEFINE t == Cut(s, i)
           a == SubSeq(s, 1, i - 1)
           b == SubSeq(s, i + 1, Len(s))
<1>1. Len(s) \in Nat /\ i \in Nat /\ i <= Len(s) /\ 1 <= i /\ \A j \in 1 .. Len(s) : s[j] \in S
  OBVIOUS
<1>2. a \in Seq(S) /\ Len(a) = i - 1 /\ \A j \in 1 .. i - 1 : a[j] = s[j]
  <2>1. /\ a \in Seq(S) /\ Len(a) = IF 1 <= i - 1 THEN (i - 1) - 1 + 1 ELSE 0
        /\ \A j \in 1 .. (i - 1) - 1 + 1 : a[j] = s[1 + j - 1]
    BY <1>1, SubSeqProperties
  <2>2. QED  BY <1>1, <2>1
<1>3. b \in Seq(S) /\ Len(b) = Len(s) - i /\ \A j \in 1 .. Len(s) - i : b[j] = s[i + j]
  <2>1. \A j \in i + 1 .. Len(s) : s[j] \in S
    BY <1>1
  <2>2. /\ b \in Seq(S) /\ Len(b) = IF i + 1 <= Len(s) THEN Len(s) - (i + 1) + 1 ELSE 0
        /\ \A j \in 1 .. Len(s) - (i + 1) + 1 : b[j] = s[(i + 1) + j - 1]
    BY <1>1, <2>1, SubSeqProperties
  <2>3. QED  BY <1>1, <2>2
<1>0. t = a \o b
  BY DEF Cut
<1> HIDE DEF a, b, t
<1>4. /\ t \in Seq(S) /\ Len(t) = Len(a) + Len(b)
      /\ \A j \in 1 .. Len(a) + Len(b) : t[j] = IF j <= Len(a) THEN a[j] ELSE b[j - Len(a)]
  <2>1. /\ a \o b \in Seq(S) /\ Len(a \o b) = Len(a) + Len(b)
        /\ \A j \in 1 .. Len(a) + Len(b) :
              (a \o b)[j] = IF j <= Len(a) THEN a[j] ELSE b[j - Len(a)]
    BY <1>2, <1>3, ConcatProperties
  <2>2. QED  BY <1>0, <2>1
<1>5. Len(t) = Len(s) - 1
  BY <1>1, <1>2, <1>3, <1>4
<1>6. ASSUME NEW j \in 1 .. Len(s) - 1 PROVE t[j] = IF j < i THEN s[j] ELSE s[j + 1]
  <2>1. CASE j < i
    <3>1. j \in 1 .. i - 1 /\ j <= Len(a)
      BY <1>1, <1>2, <2>1
    <3>2. QED  BY <1>1, <1>2, <1>3, <1>4, <2>1, <3>1
  <2>2. CASE ~(j < i)
    <3>1. j - (i - 1) \in 1 .. Len(s) - i /\ i + (j - (i - 1)) = j + 1 /\ ~(j <= Len(a))
      BY <1>1, <1>2, <2>2
    <3>2. t[j] = b[j - (i - 1)]
      <4>1. Len(a) = i - 1 /\ Len(b) = Len(s) - i /\ j \in 1 .. Len(a) + Len(b)
        BY <1>1, <1>2, <1>3
      <4>2. t[j] = b[j - Len(a)]
        BY <1>4, <3>1, <4>1
      <4>3. QED  BY <4>1, <4>2
    <3>3. b[j - (i - 1)] = s[i + (j - (i - 1))]
      BY <1>3, <3>1
    <3>4. QED  BY <2>2, <3>1, <3>2, <3>3
  <2>3. QED  BY <2>1, <2>2
<1>7. QED  BY <1>4, <1>5, <1>6 DEF t

LEMMA UnmergeKeeps ==
    ASSUME MergeInv, NEW i \in DOMAIN journal, Cards!Unmerge(i)
    PROVE  MergeInv'
<1> DEFINE n == Len(journal)
           gone == journal[i].merged
<1>1. PICK S : journal \in Seq(S)
  BY DEF MergeInv
<1>2. i \in 1 .. n /\ n \in Nat
  <2>1. DOMAIN journal = 1 .. Len(journal) /\ Len(journal) \in Nat
    BY <1>1
  <2>2. QED  BY <2>1
<1>3. /\ journal' = Cut(journal, i)
      /\ redirect' = [redirect EXCEPT ![gone] = NoPoi]
  BY DEF Cards!Unmerge, Cut
<1>4. /\ journal' \in Seq(S) /\ Len(journal') = n - 1
      /\ \A j \in 1 .. n - 1 : journal'[j] = IF j < i THEN journal[j] ELSE journal[j + 1]
  BY <1>1, <1>2, <1>3, CutProperties
<1>5. gone \in Pois
  BY <1>2 DEF MergeInv
<1>6. /\ redirect' \in [Pois -> Pois \cup {NoPoi}]
      /\ redirect'[gone] = NoPoi
      /\ \A p \in Pois \ {gone} : redirect'[p] = redirect[p]
  BY <1>3, <1>5 DEF MergeInv
<1>7. \A j \in 1 .. n : j # i => journal[j].merged # gone
  BY <1>2 DEF MergeInv
<1> HIDE DEF n, gone
<1>8. \A j \in 1 .. n - 1 : LET k == IF j < i THEN j ELSE j + 1
                            IN k \in 1 .. n /\ k # i /\ journal'[j] = journal[k]
  BY <1>2, <1>4
<1>9. ASSUME NEW j \in 1 .. n - 1
      PROVE  /\ journal'[j].kept \in Pois /\ journal'[j].merged \in Pois
             /\ redirect'[journal'[j].merged] = journal'[j].kept
  <2>1. PICK k \in 1 .. n : k # i /\ journal'[j] = journal[k]
    BY <1>8
  <2>2. journal[k].merged # gone
    BY <1>7, <2>1
  <2>3. QED  BY <1>6, <2>1, <2>2 DEF MergeInv, n
<1>10. ASSUME NEW j \in 1 .. n - 1, NEW m \in 1 .. n - 1,
              journal'[j].merged = journal'[m].merged
       PROVE  j = m
  <2> DEFINE k == IF j < i THEN j ELSE j + 1
             l == IF m < i THEN m ELSE m + 1
  <2>1. k \in 1 .. n /\ l \in 1 .. n /\ journal'[j] = journal[k] /\ journal'[m] = journal[l]
    BY <1>8
  <2>2. k = l
    <3> HIDE DEF k, l
    <3>1. QED  BY <1>10, <2>1 DEF MergeInv, n
  <2>3. QED  BY <1>2, <2>2
<1>11. ASSUME NEW p \in Pois, redirect'[p] # NoPoi
       PROVE  /\ \E j \in 1 .. n - 1 : journal'[j].merged = p
              /\ redirect'[redirect'[p]] = NoPoi
  <2>1. p # gone /\ redirect'[p] = redirect[p] /\ redirect[p] \in Pois
    BY <1>6, <1>11 DEF MergeInv
  <2>2. PICK k \in 1 .. n : journal[k].merged = p
    BY <1>11, <2>1 DEF MergeInv, n
  <2>3. k # i
    BY <2>1, <2>2 DEF gone
  <2>4. \E j \in 1 .. n - 1 : journal'[j] = journal[k]
    <3>1. CASE k < i
      BY <1>2, <1>4, <3>1
    <3>2. CASE k > i
      <4>1. k - 1 \in 1 .. n - 1 /\ ~(k - 1 < i) /\ (k - 1) + 1 = k
        BY <1>2, <3>2
      <4>2. QED  BY <1>4, <4>1
    <3>3. QED  BY <1>2, <2>3, <3>1, <3>2
  <2>5. redirect[redirect[p]] = NoPoi
    BY <1>11, <2>1 DEF MergeInv
  <2>6. QED  BY <1>6, <2>1, <2>2, <2>4, <2>5
<1>12. QED  BY <1>4, <1>6, <1>9, <1>10, <1>11 DEF MergeInv

LEMMA MergeStart ==
    ASSUME Init
    PROVE  MergeInv
<1>1. /\ journal \in Folds
      /\ redirect = [p \in Pois |->
            IF \E i \in DOMAIN journal : journal[i].merged = p
            THEN journal[CHOOSE i \in DOMAIN journal : journal[i].merged = p].kept
            ELSE NoPoi]
  BY DEF Init, Cards!Init
<1>2. /\ journal \in Seq({journal[i] : i \in DOMAIN journal})
      /\ \A i \in DOMAIN journal : journal[i].kept \in Pois /\ journal[i].merged \in Pois
      /\ \A i, j \in DOMAIN journal :
            /\ journal[i].kept # journal[j].merged
            /\ journal[i].merged = journal[j].merged => i = j
  BY <1>1, PlacesAssumption
<1>3. DOMAIN journal = 1 .. Len(journal)
  BY <1>2
<1>4. ASSUME NEW i \in DOMAIN journal
      PROVE  redirect[journal[i].merged] = journal[i].kept
  <2> DEFINE p == journal[i].merged
             k == CHOOSE j \in DOMAIN journal : journal[j].merged = p
  <2>1. k \in DOMAIN journal /\ journal[k].merged = p
    OBVIOUS
  <2>2. k = i
    <3> HIDE DEF k
    <3>1. QED  BY <1>2, <2>1
  <2>3. redirect[p] = journal[k].kept
    BY <1>1, <1>2
  <2>4. QED  BY <2>2, <2>3
<1>5. ASSUME NEW p \in Pois, ~\E i \in DOMAIN journal : journal[i].merged = p
      PROVE  redirect[p] = NoPoi
  BY <1>1, <1>5
<1>6. ASSUME NEW p \in Pois
      PROVE  /\ redirect[p] \in Pois \cup {NoPoi}
             /\ redirect[p] # NoPoi => redirect[redirect[p]] = NoPoi
  <2>1. CASE \E i \in DOMAIN journal : journal[i].merged = p
    <3>1. PICK i \in DOMAIN journal : journal[i].merged = p
      BY <2>1
    <3>2. redirect[p] = journal[i].kept
      BY <1>4, <3>1
    <3>3. ~\E j \in DOMAIN journal : journal[j].merged = journal[i].kept
      BY <1>2
    <3>4. QED  BY <1>2, <1>5, <3>2, <3>3
  <2>2. QED  BY <1>5, <2>1
<1>7. redirect \in [Pois -> Pois \cup {NoPoi}]
  BY <1>1, <1>6
<1>8. QED  BY <1>2, <1>3, <1>4, <1>5, <1>6, <1>7 DEF MergeInv

-----------------------------------------------------------------------------
(* The resolver *)

\* A finite set that a relation orders has a first member.
LEMMA FirstMember ==
    ASSUME NEW S, IsFiniteSet(S), S # {}, NEW R,
           \A x, y \in S : x # y => <<x, y>> \in R \/ <<y, x>> \in R,
           \A x, y, z \in S : <<x, y>> \in R /\ <<y, z>> \in R => <<x, z>> \in R
    PROVE  \E x \in S : \A y \in S \ {x} : <<x, y>> \in R
<1> DEFINE HasFirst(T) == \E x \in T : \A y \in T \ {x} : <<x, y>> \in R
           Good == {n \in Nat : \A T \in SUBSET S : Cardinality(T) = n + 1 => HasFirst(T)}
<1>1. 0 \in Good
  <2>1. ASSUME NEW T \in SUBSET S, Cardinality(T) = 0 + 1 PROVE HasFirst(T)
    <3>1. IsFiniteSet(T) /\ Cardinality(T) = 1
      BY <2>1, FS_Subset
    <3>2. \E x : T = {x}
      BY <3>1, FS_Singleton
    <3>3. QED  BY <3>2
  <2>2. QED  BY <2>1
<1>2. ASSUME NEW n \in Good PROVE n + 1 \in Good
  <2>1. ASSUME NEW T \in SUBSET S, Cardinality(T) = (n + 1) + 1 PROVE HasFirst(T)
    <3>1. IsFiniteSet(T) /\ T # {}
      BY <2>1, FS_Subset, FS_EmptySet
    <3>2. PICK x \in T : TRUE
      BY <3>1
    <3>3. Cardinality(T \ {x}) = n + 1
      <4>1. Cardinality(T \ {x}) = Cardinality(T) - 1
        BY <3>1, <3>2, FS_RemoveElement
      <4>2. QED  BY <2>1, <4>1
    <3>4. HasFirst(T \ {x})
      BY <3>3
    <3>5. PICK k \in T \ {x} : \A l \in (T \ {x}) \ {k} : <<k, l>> \in R
      BY <3>4
    <3>6. CASE <<k, x>> \in R
      <4>1. \A l \in T \ {k} : <<k, l>> \in R
        BY <3>5, <3>6
      <4>2. QED  BY <4>1
    <3>7. CASE <<x, k>> \in R
      <4>1. ASSUME NEW l \in T \ {x} PROVE <<x, l>> \in R
        <5>1. CASE l = k
          BY <3>7, <5>1
        <5>2. CASE l # k
          <6>1. <<k, l>> \in R /\ x \in S /\ k \in S /\ l \in S
            BY <3>5, <5>2
          <6>2. QED  BY <3>7, <6>1
        <5>3. QED  BY <5>1, <5>2
      <4>2. QED  BY <4>1
    <3>8. QED  BY <3>6, <3>7
  <2>2. QED  BY <2>1
<1>3. Good = Nat
  <2>1. Good \subseteq Nat  OBVIOUS
  <2> HIDE DEF Good
  <2>2. QED  BY <1>1, <1>2, <2>1, SetInduction
<1>4. Cardinality(S) \in Nat /\ Cardinality(S) # 0
  BY FS_CardinalityType, FS_EmptySet
<1>5. Cardinality(S) - 1 \in Good /\ Cardinality(S) = (Cardinality(S) - 1) + 1
  BY <1>3, <1>4
<1>6. HasFirst(S)
  BY <1>5
<1>7. QED  BY <1>6

\* The rows of facts that may ever be written.
FactRows == {Cards!FactRow(p, d, t) : p \in Pois, d \in Reportable, t \in Nat}

LEMMA RowShape ==
    ASSUME NEW f \in FactRows
    PROVE  /\ f.id \in FactIds /\ f.id.poi \in Pois
           /\ f.attribute = f.id.attribute /\ f.value = f.id.value
           /\ f.source_kind = f.id.source_kind /\ f.source_url = f.id.source_url
           /\ f.status = f.id.status
           /\ f.observed_at \in Nat /\ f.confidence \in Nat /\ f.corroboration_count \in Nat
<1>1. PICK p \in Pois, d \in Reportable, t \in Nat : f = Cards!FactRow(p, d, t)
  BY DEF FactRows
<1>2. d.confidence \in Nat /\ d.corroboration_count \in Nat
  BY PlacesAssumption
<1>3. f.id = Cards!FactRow(p, d, 0).id
  BY <1>1 DEF Cards!FactRow
<1>4. f.id \in FactIds
  BY <1>3 DEF FactIds
<1>5. QED  BY <1>1, <1>2, <1>4 DEF Cards!FactRow

\* The id is a hash of the rest.
LEMMA SameRow ==
    ASSUME NEW f \in FactRows, NEW g \in FactRows, f.id = g.id,
           f.observed_at = g.observed_at, f.confidence = g.confidence,
           f.corroboration_count = g.corroboration_count
    PROVE  f = g
<1>1. PICK p \in Pois, d \in Reportable, t \in Nat : f = Cards!FactRow(p, d, t)
  BY DEF FactRows
<1>2. PICK q \in Pois, e \in Reportable, u \in Nat : g = Cards!FactRow(q, e, u)
  BY DEF FactRows
<1>3. /\ p = q /\ d.attribute = e.attribute /\ d.value = e.value
      /\ d.source_kind = e.source_kind /\ d.source_url = e.source_url /\ d.status = e.status
      /\ t = u /\ d.confidence = e.confidence /\ d.corroboration_count = e.corroboration_count
  BY <1>1, <1>2 DEF Cards!FactRow
<1>4. QED  BY <1>1, <1>2, <1>3 DEF Cards!FactRow

Later(f, g) ==
    \/ f.observed_at > g.observed_at
    \/ f.observed_at = g.observed_at /\ f.confidence > g.confidence
    \/ /\ f.observed_at = g.observed_at /\ f.confidence = g.confidence
       /\ f.corroboration_count > g.corroboration_count
    \/ /\ f.observed_at = g.observed_at /\ f.confidence = g.confidence
       /\ f.corroboration_count = g.corroboration_count
       /\ IdBefore(f.id, g.id)

Surer(f, g) ==
    \/ f.confidence > g.confidence
    \/ f.confidence = g.confidence /\ f.corroboration_count > g.corroboration_count
    \/ /\ f.confidence = g.confidence /\ f.corroboration_count = g.corroboration_count
       /\ f.observed_at > g.observed_at
    \/ /\ f.confidence = g.confidence /\ f.corroboration_count = g.corroboration_count
       /\ f.observed_at = g.observed_at
       /\ IdBefore(f.id, g.id)

\* The first of three keys that differ decides.
LEMMA ByThreeKeys ==
    ASSUME NEW a1 \in Nat, NEW a2 \in Nat, NEW a3 \in Nat,
           NEW b1 \in Nat, NEW b2 \in Nat, NEW b3 \in Nat, NEW a, NEW b
    PROVE  Cards!Resolver!AheadBy(<<a1, a2, a3>>, <<b1, b2, b3>>, a, b) <=>
             \/ a1 > b1
             \/ a1 = b1 /\ a2 > b2
             \/ a1 = b1 /\ a2 = b2 /\ a3 > b3
             \/ a1 = b1 /\ a2 = b2 /\ a3 = b3 /\ IdBefore(a.id, b.id)
<1> DEFINE s == <<a1, a2, a3>>
           t == <<b1, b2, b3>>
           First(i) == (\A j \in 1 .. (i - 1) : s[j] = t[j]) /\ s[i] > t[i]
<1>1. DOMAIN s = {1, 2, 3} /\ s[1] = a1 /\ s[2] = a2 /\ s[3] = a3
  BY SMT
<1>2. t[1] = b1 /\ t[2] = b2 /\ t[3] = b3
  BY SMT
<1>3. s = t <=> a1 = b1 /\ a2 = b2 /\ a3 = b3
  BY SMT
<1>4. Cards!Resolver!AheadBy(s, t, a, b) <=>
        (\E i \in {1, 2, 3} : First(i)) \/ (s = t /\ IdBefore(a.id, b.id))
  BY <1>1 DEF Cards!Resolver!AheadBy
<1> HIDE DEF s, t
<1>5. First(1) <=> a1 > b1
  BY <1>1, <1>2, SMT
<1>6. First(2) <=> a1 = b1 /\ a2 > b2
  BY <1>1, <1>2, SMT
<1>7. First(3) <=> a1 = b1 /\ a2 = b2 /\ a3 > b3
  <2>1. 1 .. (3 - 1) = {1, 2}
    BY SMT
  <2>2. QED  BY <1>1, <1>2, <2>1, SMT
<1> HIDE DEF First
<1>8. Cards!Resolver!AheadBy(s, t, a, b) <=>
        First(1) \/ First(2) \/ First(3) \/ (s = t /\ IdBefore(a.id, b.id))
  BY <1>4
<1>9. QED  BY <1>3, <1>5, <1>6, <1>7, <1>8 DEF s, t

LEMMA NewestIsLater ==
    ASSUME NEW f \in FactRows, NEW g \in FactRows
    PROVE  Cards!Resolver!cmpNewest(f, g) <=> Later(f, g)
<1> DEFINE a1 == f.observed_at  a2 == f.confidence  a3 == f.corroboration_count
           b1 == g.observed_at  b2 == g.confidence  b3 == g.corroboration_count
<1>1. /\ a1 \in Nat /\ a2 \in Nat /\ a3 \in Nat
      /\ b1 \in Nat /\ b2 \in Nat /\ b3 \in Nat
  BY RowShape
<1> HIDE DEF a1, a2, a3, b1, b2, b3
<1>2. Cards!Resolver!AheadBy(<<a1, a2, a3>>, <<b1, b2, b3>>, f, g) <=>
        \/ a1 > b1
        \/ a1 = b1 /\ a2 > b2
        \/ a1 = b1 /\ a2 = b2 /\ a3 > b3
        \/ a1 = b1 /\ a2 = b2 /\ a3 = b3 /\ IdBefore(f.id, g.id)
  BY <1>1, ByThreeKeys
<1>3. QED  BY <1>2 DEF a1, a2, a3, b1, b2, b3, Cards!Resolver!cmpNewest, Later

LEMMA SurestIsSurer ==
    ASSUME NEW f \in FactRows, NEW g \in FactRows
    PROVE  Cards!Resolver!cmpConfidence(f, g) <=> Surer(f, g)
<1> DEFINE a1 == f.confidence  a2 == f.corroboration_count  a3 == f.observed_at
           b1 == g.confidence  b2 == g.corroboration_count  b3 == g.observed_at
<1>1. /\ a1 \in Nat /\ a2 \in Nat /\ a3 \in Nat
      /\ b1 \in Nat /\ b2 \in Nat /\ b3 \in Nat
  BY RowShape
<1> HIDE DEF a1, a2, a3, b1, b2, b3
<1>2. Cards!Resolver!AheadBy(<<a1, a2, a3>>, <<b1, b2, b3>>, f, g) <=>
        \/ a1 > b1
        \/ a1 = b1 /\ a2 > b2
        \/ a1 = b1 /\ a2 = b2 /\ a3 > b3
        \/ a1 = b1 /\ a2 = b2 /\ a3 = b3 /\ IdBefore(f.id, g.id)
  BY <1>1, ByThreeKeys
<1>3. QED  BY <1>2 DEF a1, a2, a3, b1, b2, b3, Cards!Resolver!cmpConfidence, Surer

LEMMA IdsOrdered ==
    ASSUME NEW a \in FactIds, NEW b \in FactIds
    PROVE  /\ ~(IdBefore(a, b) /\ IdBefore(b, a))
           /\ a = b \/ IdBefore(a, b) \/ IdBefore(b, a)
BY PlacesAssumption

LEMMA IdsTransitive ==
    ASSUME NEW a \in FactIds, NEW b \in FactIds, NEW c \in FactIds,
           IdBefore(a, b), IdBefore(b, c)
    PROVE  IdBefore(a, c)
BY PlacesAssumption

LEMMA LaterOrders ==
    /\ \A f, g \in FactRows : f # g => Later(f, g) \/ Later(g, f)
    /\ \A f, g \in FactRows : ~(Later(f, g) /\ Later(g, f))
    /\ \A f, g, h \in FactRows : Later(f, g) /\ Later(g, h) => Later(f, h)
<1>1. ASSUME NEW f \in FactRows, NEW g \in FactRows, f # g
      PROVE  Later(f, g) \/ Later(g, f)
  BY <1>1, RowShape, SameRow, IdsOrdered DEF Later
<1>2. ASSUME NEW f \in FactRows, NEW g \in FactRows
      PROVE  ~(Later(f, g) /\ Later(g, f))
  BY RowShape, IdsOrdered DEF Later
<1>3. ASSUME NEW f \in FactRows, NEW g \in FactRows, NEW h \in FactRows,
             Later(f, g), Later(g, h)
      PROVE  Later(f, h)
  BY <1>3, RowShape, IdsTransitive DEF Later
<1>4. QED  BY <1>1, <1>2, <1>3

LEMMA SurerOrders ==
    /\ \A f, g \in FactRows : f # g => Surer(f, g) \/ Surer(g, f)
    /\ \A f, g \in FactRows : ~(Surer(f, g) /\ Surer(g, f))
    /\ \A f, g, h \in FactRows : Surer(f, g) /\ Surer(g, h) => Surer(f, h)
<1>1. ASSUME NEW f \in FactRows, NEW g \in FactRows, f # g
      PROVE  Surer(f, g) \/ Surer(g, f)
  BY <1>1, RowShape, SameRow, IdsOrdered DEF Surer
<1>2. ASSUME NEW f \in FactRows, NEW g \in FactRows
      PROVE  ~(Surer(f, g) /\ Surer(g, f))
  BY RowShape, IdsOrdered DEF Surer
<1>3. ASSUME NEW f \in FactRows, NEW g \in FactRows, NEW h \in FactRows,
             Surer(f, g), Surer(g, h)
      PROVE  Surer(f, h)
  BY <1>3, RowShape, IdsTransitive DEF Surer
<1>4. QED  BY <1>1, <1>2, <1>3

LEMMA NewestExists ==
    ASSUME NEW F, F \subseteq FactRows, IsFiniteSet(F), F # {}
    PROVE  /\ Cards!Resolver!Newest(F) \in F
           /\ \A g \in F : ~Later(g, Cards!Resolver!Newest(F))
<1> DEFINE R == {p \in FactRows \X FactRows : Later(p[1], p[2])}
           n == Cards!Resolver!Newest(F)
<1>1. \A x, y \in FactRows : <<x, y>> \in R <=> Later(x, y)
  OBVIOUS
<1> HIDE DEF R
<1>2. \E x \in F : \A y \in F \ {x} : <<x, y>> \in R
  <2>1. \A x, y \in F : x # y => <<x, y>> \in R \/ <<y, x>> \in R
    BY <1>1, LaterOrders
  <2>2. \A x, y, z \in F : <<x, y>> \in R /\ <<y, z>> \in R => <<x, z>> \in R
    <3> SUFFICES ASSUME NEW x \in F, NEW y \in F, NEW z \in F, <<x, y>> \in R, <<y, z>> \in R
                 PROVE  <<x, z>> \in R
      OBVIOUS
    <3>1. x \in FactRows /\ y \in FactRows /\ z \in FactRows
      OBVIOUS
    <3>2. QED  BY <1>1, <3>1, LaterOrders
  <2>3. QED  BY <2>1, <2>2, FirstMember
<1>3. \E f \in F : \A g \in F \ {f} : Cards!Resolver!cmpNewest(f, g)
  BY <1>1, <1>2, NewestIsLater
<1>4. n \in F /\ \A g \in F \ {n} : Cards!Resolver!cmpNewest(n, g)
  BY <1>3 DEF Cards!Resolver!Newest
<1> HIDE DEF n
<1>5. ASSUME NEW g \in F PROVE ~Later(g, n)
  <2>1. g \in FactRows /\ n \in FactRows
    BY <1>4
  <2>2. CASE g = n
    BY <2>1, <2>2, LaterOrders
  <2>3. CASE g # n
    BY <1>4, <2>1, <2>3, NewestIsLater, LaterOrders
  <2>4. QED  BY <2>2, <2>3
<1>6. QED  BY <1>4, <1>5 DEF n

LEMMA SurestExists ==
    ASSUME NEW F, F \subseteq FactRows, IsFiniteSet(F), F # {}
    PROVE  /\ Cards!Resolver!Surest(F) \in F
           /\ \A g \in F : ~Surer(g, Cards!Resolver!Surest(F))
<1> DEFINE R == {p \in FactRows \X FactRows : Surer(p[1], p[2])}
           n == Cards!Resolver!Surest(F)
<1>1. \A x, y \in FactRows : <<x, y>> \in R <=> Surer(x, y)
  OBVIOUS
<1> HIDE DEF R
<1>2. \E x \in F : \A y \in F \ {x} : <<x, y>> \in R
  <2>1. \A x, y \in F : x # y => <<x, y>> \in R \/ <<y, x>> \in R
    BY <1>1, SurerOrders
  <2>2. \A x, y, z \in F : <<x, y>> \in R /\ <<y, z>> \in R => <<x, z>> \in R
    <3> SUFFICES ASSUME NEW x \in F, NEW y \in F, NEW z \in F, <<x, y>> \in R, <<y, z>> \in R
                 PROVE  <<x, z>> \in R
      OBVIOUS
    <3>1. x \in FactRows /\ y \in FactRows /\ z \in FactRows
      OBVIOUS
    <3>2. QED  BY <1>1, <3>1, SurerOrders
  <2>3. QED  BY <2>1, <2>2, FirstMember
<1>3. \E f \in F : \A g \in F \ {f} : Cards!Resolver!cmpConfidence(f, g)
  BY <1>1, <1>2, SurestIsSurer
<1>4. n \in F /\ \A g \in F \ {n} : Cards!Resolver!cmpConfidence(n, g)
  BY <1>3 DEF Cards!Resolver!Surest
<1> HIDE DEF n
<1>5. ASSUME NEW g \in F PROVE ~Surer(g, n)
  <2>1. g \in FactRows /\ n \in FactRows
    BY <1>4
  <2>2. CASE g = n
    BY <2>1, <2>2, SurerOrders
  <2>3. CASE g # n
    BY <1>4, <2>1, <2>3, SurestIsSurer, SurerOrders
  <2>4. QED  BY <2>2, <2>3
<1>6. QED  BY <1>4, <1>5 DEF n

-----------------------------------------------------------------------------
(* Facts *)

FactsInv ==
    /\ now \in Nat
    /\ said \subseteq FactRows /\ facts \subseteq said
    /\ IsFiniteSet(facts)
    /\ \A r \in said : \E f \in facts : f.id = r.id

LEMMA InsertKeeps ==
    ASSUME FactsInv, NEW rows, rows \subseteq FactRows, IsFiniteSet(rows),
           Cards!InsertFacts(rows), now' = now
    PROVE  FactsInv'
<1> DEFINE new == {f \in rows : \A g \in facts : g.id # f.id}
<1>1. facts' = facts \cup new /\ said' = said \cup rows
  BY DEF Cards!InsertFacts
<1>2. IsFiniteSet(facts')
  BY <1>1, FS_Subset, FS_Union DEF FactsInv
<1>3. ASSUME NEW r \in said'
      PROVE  \E f \in facts' : f.id = r.id
  BY <1>1 DEF FactsInv
<1>4. QED  BY <1>1, <1>2, <1>3 DEF FactsInv

\* A candidate is taken for a place of the city, or becomes one.
LEMMA ResolvedIsPlace ==
    ASSUME NEW rows, NEW candidate
    PROVE  Cards!Matcher!Resolved(rows, candidate) \subseteq DOMAIN rows
<1>1. \A key, value : Cards!Matcher!poi_find_by_external_id(rows, key, value) \subseteq DOMAIN rows
  BY DEF Cards!Matcher!poi_find_by_external_id
<1>2. \A m \in Cards!Matcher!poi_match_candidates(rows, candidate) : m.poi \in DOMAIN rows
  BY DEF Cards!Matcher!poi_match_candidates
<1>3. \/ \E key, value : Cards!Matcher!Resolved(rows, candidate)
                           = Cards!Matcher!poi_find_by_external_id(rows, key, value)
      \/ \A p \in Cards!Matcher!Resolved(rows, candidate) :
            \E m \in Cards!Matcher!poi_match_candidates(rows, candidate) : p = m.poi
  BY DEF Cards!Matcher!Resolved
<1>4. QED  BY <1>1, <1>2, <1>3

LEMMA BatchRows ==
    ASSUME NEW place \in Versions, NEW batch \in Cards!Sources!Batches(place),
           NEW p \in Pois, NEW at \in Nat
    PROVE  LET rows == {Cards!FactRow(p, d, at) : d \in batch.facts}
           IN rows \subseteq FactRows /\ IsFiniteSet(rows)
<1>1. batch.facts \subseteq Reportable
  BY DEF Reportable
<1>2. IsFiniteSet(batch.facts)
  BY PlacesAssumption
<1> DEFINE written == [d \in batch.facts |-> Cards!FactRow(p, d, at)]
           rows == {Cards!FactRow(p, d, at) : d \in batch.facts}
<1>3. written \in Surjection(batch.facts, rows)
  BY DEF Surjection
<1>4. IsFiniteSet(rows)
  BY <1>2, <1>3, FS_Surjection
<1>5. QED  BY <1>1, <1>4 DEF FactRows

LEMMA IngestEffect ==
    ASSUME NEW place \in Versions, NEW batch \in Cards!Sources!Batches(place),
           NEW at, Cards!Ingest(batch, place.site, at)
    PROVE  /\ at \in Cards!Times
           /\ \E p \in Pois : Cards!InsertFacts({Cards!FactRow(p, d, at) : d \in batch.facts})
           /\ Cards!Write
           /\ UNCHANGED <<redirect, journal, reviews>>
<1> DEFINE rows == [p \in Cards!Canonical |-> row[p]]
           default == PlaceOf(Cards!Matcher!Primary(batch.candidate))
           ThoseFor(candidate) ==
              IF Cards!Matcher!Resolved(rows, candidate) = {} THEN {default}
              ELSE Cards!Matcher!Resolved(rows, candidate)
<1>1. /\ at \in Cards!Times
      /\ \E candidate : \E p \in ThoseFor(candidate) :
            Cards!InsertFacts({Cards!FactRow(p, d, at) : d \in batch.facts})
      /\ Cards!Write
      /\ UNCHANGED <<redirect, journal, reviews>>
  BY DEF Cards!Ingest
<1>2. \A candidate : ThoseFor(candidate) \subseteq Pois
  <2>1. DOMAIN rows \subseteq Pois
    BY DEF Cards!Canonical, Cards!Present
  <2>2. default \in Pois
    BY PlacesAssumption
  <2> HIDE DEF rows, default
  <2>3. QED  BY <2>1, <2>2, ResolvedIsPlace
<1> HIDE DEF ThoseFor
<1>3. QED  BY <1>1, <1>2

LEMMA ReportEffect ==
    ASSUME NEW p \in Pois, NEW draft \in Drafts, NEW at, Cards!Report(p, draft, at)
    PROVE  /\ at \in Cards!Times
           /\ Cards!InsertFacts({Cards!FactRow(p, draft, at)})
           /\ Cards!Write
           /\ UNCHANGED <<redirect, journal>>
BY DEF Cards!Report

\* What any writer does to redirects and facts.
LEMMA WritesKeep ==
    ASSUME MergeInv, FactsInv, Cards!Writes
    PROVE  MergeInv' /\ FactsInv' /\ Cards!Write
<1>1. \A at \in Cards!Times : at \in Nat
  BY DEF FactsInv, Cards!Times
<1>2. ASSUME NEW at \in Cards!Times, NEW place \in Versions,
             NEW batch \in Cards!Sources!Batches(place), Cards!Ingest(batch, place.site, at)
      PROVE  MergeInv' /\ FactsInv' /\ Cards!Write
  <2>1. /\ Cards!Write /\ UNCHANGED <<redirect, journal>>
        /\ \E p \in Pois : Cards!InsertFacts({Cards!FactRow(p, d, at) : d \in batch.facts})
    BY <1>2, IngestEffect
  <2>2. now' = now
    BY <2>1 DEF Cards!Write
  <2>3. PICK p \in Pois : Cards!InsertFacts({Cards!FactRow(p, d, at) : d \in batch.facts})
    BY <2>1
  <2> DEFINE rows == {Cards!FactRow(p, d, at) : d \in batch.facts}
  <2>4. rows \subseteq FactRows /\ IsFiniteSet(rows)
    BY <1>1, BatchRows
  <2> HIDE DEF rows
  <2>5. Cards!InsertFacts(rows)
    BY <2>3 DEF rows
  <2>6. FactsInv'
    BY <2>2, <2>4, <2>5, InsertKeeps
  <2>7. MergeInv'
    BY <2>1 DEF MergeInv
  <2>8. QED  BY <2>1, <2>6, <2>7
<1>3. ASSUME NEW at \in Cards!Times, NEW p \in Pois, NEW draft \in Drafts,
             Cards!Report(p, draft, at)
      PROVE  MergeInv' /\ FactsInv' /\ Cards!Write
  <2> DEFINE rows == {Cards!FactRow(p, draft, at)}
  <2>1. /\ Cards!InsertFacts(rows) /\ Cards!Write /\ UNCHANGED <<redirect, journal>>
    BY <1>3, ReportEffect
  <2>2. rows \subseteq FactRows /\ IsFiniteSet(rows)
    BY <1>1, FS_Singleton DEF FactRows, Reportable
  <2>3. now' = now
    BY <2>1 DEF Cards!Write
  <2> HIDE DEF rows
  <2>4. FactsInv'
    BY <2>1, <2>2, <2>3, InsertKeeps
  <2>5. MergeInv'
    BY <2>1 DEF MergeInv
  <2>6. QED  BY <2>1, <2>4, <2>5
<1>4. ASSUME NEW p \in Pois, NEW user \in Reviewers, NEW rating \in Ratings,
             Cards!PublishReview(p, user, rating)
      PROVE  MergeInv' /\ FactsInv' /\ Cards!Write
  <2>1. /\ Cards!Write /\ UNCHANGED <<redirect, journal, facts, said, now>>
    BY <1>4 DEF Cards!PublishReview, Cards!Write
  <2>2. QED  BY <2>1 DEF MergeInv, FactsInv
<1>5. ASSUME NEW kept \in Pois, NEW merged \in Pois, Cards!Merge(kept, merged)
      PROVE  MergeInv' /\ FactsInv' /\ Cards!Write
  <2>1. Cards!Write /\ UNCHANGED <<facts, said, now>>
    BY <1>5 DEF Cards!Merge, Cards!Write
  <2>2. QED  BY <1>5, <2>1, MergeKeeps DEF FactsInv
<1>6. ASSUME NEW i \in DOMAIN journal, Cards!Unmerge(i)
      PROVE  MergeInv' /\ FactsInv' /\ Cards!Write
  <2>1. Cards!Write /\ UNCHANGED <<facts, said, now>>
    BY <1>6 DEF Cards!Unmerge, Cards!Write
  <2>2. QED  BY <1>6, <2>1, UnmergeKeeps DEF FactsInv
<1>7. QED  BY <1>2, <1>3, <1>4, <1>5, <1>6 DEF Cards!Writes

-----------------------------------------------------------------------------
(* The card *)

CardFields ==
    {"pc", "id", "head", "left", "poi", "facts", "hours", "enrichment", "reviews",
     "rating", "shown", "listed", "late"}

\* The facts that a card about h is made of.
Gathered(h) ==
    {f \in facts : f.id.poi \in Cards!Group(h) /\ f.status \in {"active", "disputed"}}

\* What a card has of a section it has read and no write has overtaken.
RowsRead(c) ==
    /\ c.poi = row[c.head]
    /\ c.hours = UNION {hours[q] : q \in Cards!Group(c.head)}
    /\ \E p \in Cards!Preferred(c.head) : c.enrichment = enrichment[p]
    /\ c.pc = "reading" => c.facts = Gathered(c.head)

HasRead(c) ==
    /\ c.pc = "listed" => c.id \in Pois /\ redirect[c.id] = NoPoi
    /\ c.pc \in {"reading", "answered"} =>
         /\ c.id \in Pois /\ c.head = Hop(c.id)
         /\ c.listed => redirect[c.id] = NoPoi
         /\ "rows" \notin c.left => RowsRead(c)
         /\ "reviews" \notin c.left => c.reviews = Cards!Reviews(c.head)
         /\ "rating" \notin c.left => c.rating.count = Cards!Cardinality(Cards!Reviews(c.head))
    /\ c.pc = "answered" =>
         /\ c.left = {}
         /\ \E t : c.shown = Cards!Resolver!selectCardFacts(Gathered(c.head), t)

IsCard(c) ==
    /\ CardFields \subseteq DOMAIN c
    /\ c.pc \in {"closed", "listed", "reading", "answered"}
    /\ c.pc = "closed" => ~c.late /\ ~c.listed
    /\ ~c.late => HasRead(c)

\* Nothing is claimed of a card that is overtaken.
LEMMA WriteOvertakes ==
    ASSUME IsCard(card), Cards!Write
    PROVE  IsCard(card)'
<1>1. card' = [card EXCEPT !.late = card.pc # "closed"]
  BY DEF Cards!Write
<1>2. /\ CardFields \subseteq DOMAIN card' /\ card'.pc = card.pc /\ card'.listed = card.listed
      /\ card'.late = (card.pc # "closed")
  BY <1>1 DEF IsCard, CardFields
<1>3. card.pc # "closed" => card'.late
  BY <1>2
<1>4. HasRead(card)' \/ card'.late
  BY <1>2, <1>3 DEF HasRead, IsCard
<1>5. QED  BY <1>2, <1>4 DEF IsCard

Tables == <<row, redirect, journal, facts, hours, enrichment, reviews>>

\* What a card is is read off the tables only.
LEMMA ReadOffTables ==
    ASSUME UNCHANGED Tables, IsCard(card')
    PROVE  IsCard(card)'
BY DEF Tables, IsCard, HasRead, RowsRead, Gathered, Hop, Cards!Preferred, Cards!Group, Cards!Reviews

LEMMA ListKeeps ==
    ASSUME IsCard(card), NEW category, NEW prominence, NEW id, Cards!List(category, prominence, id)
    PROVE  IsCard(card)'
<1>1. /\ card.pc = "closed" /\ id \in Pois /\ redirect[id] = NoPoi
      /\ card' = [card EXCEPT !.pc = "listed", !.id = id, !.listed = TRUE]
      /\ UNCHANGED Tables
  BY DEF Cards!List, Cards!Canonical, Cards!Present, Cards!world, Tables
<1>2. IsCard(card')
  BY <1>1 DEF IsCard, HasRead, CardFields
<1>3. QED  BY <1>1, <1>2, ReadOffTables

LEMMA OpenKeeps ==
    ASSUME IsCard(card), NEW id \in Pois, Cards!Open(id)
    PROVE  IsCard(card)'
<1>1. /\ card.pc = "closed" \/ (card.pc = "listed" /\ card.id = id)
      /\ card' = [card EXCEPT !.pc = "reading", !.id = id, !.left = Cards!Sections, !.head = Hop(id)]
      /\ UNCHANGED Tables
  <2>1. (IF redirect[id] = NoPoi THEN id ELSE redirect[id]) = Hop(id)
    BY DEF Hop
  <2> HIDE DEF Hop
  <2>2. QED  BY <2>1 DEF Cards!Open, Cards!world, Tables
<1>2. /\ CardFields \subseteq DOMAIN card' /\ card'.pc = "reading" /\ card'.id = id
      /\ card'.left = Cards!Sections /\ card'.head = Hop(id)
      /\ card'.listed = card.listed /\ card'.late = card.late
  BY <1>1 DEF IsCard, CardFields
<1>3. ~card.late /\ card.listed => redirect[id] = NoPoi
  BY <1>1 DEF IsCard, HasRead
<1>4. IsCard(card')
  BY <1>2, <1>3 DEF IsCard, HasRead, Cards!Sections
<1>5. QED  BY <1>1, <1>4, ReadOffTables

LEMMA ReadKeeps ==
    ASSUME IsCard(card), NEW section, Cards!Read(section)
    PROVE  IsCard(card)'
<1> DEFINE h == card.head
           read == [card EXCEPT !.left = @ \ {section}]
<1>1. /\ card.pc = "reading" /\ UNCHANGED Tables
      /\ \/ /\ section = "rows"
            /\ \E p \in Cards!Preferred(h) :
                  card' = [read EXCEPT
                     !.poi = row[h], !.facts = Gathered(h),
                     !.hours = UNION {hours[q] : q \in Cards!Group(h)},
                     !.enrichment = enrichment[p]]
         \/ section = "reviews" /\ card' = [read EXCEPT !.reviews = Cards!Reviews(h)]
         \/ /\ section = "rating"
            /\ \E n : card' = [read EXCEPT
                  !.rating = [count |-> Cards!Cardinality(Cards!Reviews(h)), total |-> n]]
  BY DEF Cards!Read, Gathered, Cards!world, Tables
<1>2. /\ CardFields \subseteq DOMAIN read /\ read.left = card.left \ {section}
      /\ \A k \in CardFields \ {"left"} : read[k] = card[k]
  BY DEF IsCard, CardFields
<1> HIDE DEF read
<1>3. CASE section = "rows"
  <2>1. PICK p \in Cards!Preferred(h) :
           card' = [read EXCEPT
              !.poi = row[h], !.facts = Gathered(h),
              !.hours = UNION {hours[q] : q \in Cards!Group(h)},
              !.enrichment = enrichment[p]]
    BY <1>1, <1>3
  <2>2. /\ CardFields \subseteq DOMAIN card' /\ card'.left = card.left \ {"rows"}
        /\ card'.poi = row[h] /\ card'.facts = Gathered(h)
        /\ card'.hours = UNION {hours[q] : q \in Cards!Group(h)}
        /\ card'.enrichment = enrichment[p]
        /\ card'.pc = "reading" /\ card'.id = card.id /\ card'.head = h
        /\ card'.listed = card.listed /\ card'.late = card.late
        /\ card'.reviews = card.reviews /\ card'.rating = card.rating
    BY <1>1, <1>2, <1>3, <2>1 DEF CardFields
  <2>3. RowsRead(card')
    BY <2>2 DEF RowsRead
  <2>4. ~card.late => HasRead(card')
    BY <1>1, <2>2, <2>3 DEF IsCard, HasRead
  <2>5. IsCard(card')
    BY <2>2, <2>4 DEF IsCard
  <2>6. QED  BY <1>1, <2>5, ReadOffTables
<1>4. CASE section = "reviews"
  <2>1. card' = [read EXCEPT !.reviews = Cards!Reviews(h)]
    BY <1>1, <1>4
  <2>2. /\ CardFields \subseteq DOMAIN card' /\ card'.left = card.left \ {"reviews"}
        /\ card'.reviews = Cards!Reviews(h)
        /\ card'.pc = "reading" /\ card'.id = card.id /\ card'.head = h
        /\ card'.listed = card.listed /\ card'.late = card.late
        /\ card'.poi = card.poi /\ card'.facts = card.facts /\ card'.hours = card.hours
        /\ card'.enrichment = card.enrichment /\ card'.rating = card.rating
    BY <1>1, <1>2, <1>4, <2>1 DEF CardFields
  <2>3. RowsRead(card) => RowsRead(card')
    BY <1>1, <2>2 DEF RowsRead
  <2>4. ~card.late => HasRead(card')
    BY <1>1, <2>2, <2>3 DEF IsCard, HasRead
  <2>5. IsCard(card')
    BY <2>2, <2>4 DEF IsCard
  <2>6. QED  BY <1>1, <2>5, ReadOffTables
<1>5. CASE section = "rating"
  <2>1. PICK n : card' = [read EXCEPT
           !.rating = [count |-> Cards!Cardinality(Cards!Reviews(h)), total |-> n]]
    BY <1>1, <1>5
  <2>2. /\ CardFields \subseteq DOMAIN card' /\ card'.left = card.left \ {"rating"}
        /\ card'.rating.count = Cards!Cardinality(Cards!Reviews(h))
        /\ card'.pc = "reading" /\ card'.id = card.id /\ card'.head = h
        /\ card'.listed = card.listed /\ card'.late = card.late
        /\ card'.poi = card.poi /\ card'.facts = card.facts /\ card'.hours = card.hours
        /\ card'.enrichment = card.enrichment /\ card'.reviews = card.reviews
    BY <1>1, <1>2, <1>5, <2>1 DEF CardFields
  <2>3. RowsRead(card) => RowsRead(card')
    BY <1>1, <2>2 DEF RowsRead
  <2>4. ~card.late => HasRead(card')
    BY <1>1, <2>2, <2>3 DEF IsCard, HasRead
  <2>5. IsCard(card')
    BY <2>2, <2>4 DEF IsCard
  <2>6. QED  BY <1>1, <2>5, ReadOffTables
<1>6. QED  BY <1>1, <1>3, <1>4, <1>5

LEMMA AnswerKeeps ==
    ASSUME IsCard(card), Cards!Answer
    PROVE  IsCard(card)'
<1> DEFINE shown == Cards!Resolver!selectCardFacts(card.facts, now)
<1>1. /\ card.pc = "reading" /\ card.left = {} /\ UNCHANGED Tables
      /\ card' = [card EXCEPT !.pc = "answered", !.facts = {}, !.shown = shown]
  BY DEF Cards!Answer, Cards!world, Tables
<1> HIDE DEF shown
<1>2. /\ CardFields \subseteq DOMAIN card' /\ card'.left = {} /\ card'.pc = "answered"
      /\ card'.shown = shown /\ card'.id = card.id /\ card'.head = card.head
      /\ card'.listed = card.listed /\ card'.late = card.late
      /\ card'.poi = card.poi /\ card'.hours = card.hours
      /\ card'.enrichment = card.enrichment /\ card'.reviews = card.reviews
      /\ card'.rating = card.rating
  BY <1>1 DEF IsCard, CardFields
<1>3. RowsRead(card) => RowsRead(card')
  BY <1>2 DEF RowsRead
<1>4. ~card.late => card.facts = Gathered(card.head)
  BY <1>1 DEF IsCard, HasRead, RowsRead
<1>5. ~card.late => HasRead(card')
  <2>1. ~card.late => shown = Cards!Resolver!selectCardFacts(Gathered(card.head), now)
    BY <1>4 DEF shown
  <2>2. QED  BY <1>1, <1>2, <1>3, <2>1 DEF IsCard, HasRead
<1>6. IsCard(card')
  BY <1>2, <1>5 DEF IsCard
<1>7. QED  BY <1>1, <1>6, ReadOffTables

LEMMA NoCardIsCard == IsCard(Cards!NoCard)
BY DEF IsCard, Cards!NoCard, CardFields, HasRead

LEMMA CloseKeeps ==
    ASSUME IsCard(card), Cards!Close
    PROVE  IsCard(card)'
<1>1. card' = Cards!NoCard /\ UNCHANGED Tables
  BY DEF Cards!Close, Cards!world, Tables
<1>2. QED  BY <1>1, NoCardIsCard, ReadOffTables

-----------------------------------------------------------------------------
(* The invariant of places, facts and the card *)

BrainInv == MergeInv /\ FactsInv /\ IsCard(card)

LEMMA BrainStart ==
    ASSUME Init
    PROVE  BrainInv
<1>1. now = 0 /\ facts = {} /\ said = {} /\ card = Cards!NoCard
  BY DEF Init, Cards!Init
<1>2. FactsInv
  BY <1>1, FS_EmptySet DEF FactsInv
<1>3. QED  BY <1>1, <1>2, MergeStart, NoCardIsCard DEF BrainInv

LEMMA BrainKeeps ==
    ASSUME BrainInv, [Next]_vars
    PROVE  BrainInv'
<1>1. ASSUME Cards!Writes PROVE BrainInv'
  BY <1>1, WritesKeep, WriteOvertakes DEF BrainInv
<1>2. ASSUME Cards!Reads PROVE BrainInv'
  <2>1. UNCHANGED <<redirect, journal, facts, said, now>>
    BY <1>2 DEF Cards!Reads, Cards!List, Cards!Open, Cards!Read, Cards!Answer, Cards!Close, Cards!world
  <2>2. IsCard(card)'
    BY <1>2, ListKeeps, OpenKeeps, ReadKeeps, AnswerKeeps, CloseKeeps DEF BrainInv, Cards!Reads
  <2>3. QED  BY <2>1, <2>2 DEF BrainInv, MergeInv, FactsInv
<1>3. ASSUME Cards!Tick PROVE BrainInv'
  <2>1. now' = now + 1 /\ UNCHANGED <<Tables, card, said>>
    BY <1>3 DEF Cards!Tick, Cards!world, Tables
  <2>2. IsCard(card)'
    BY <2>1, ReadOffTables DEF BrainInv
  <2>3. MergeInv' /\ FactsInv'
    BY <2>1 DEF BrainInv, MergeInv, FactsInv, Tables
  <2>4. QED  BY <2>2, <2>3 DEF BrainInv
<1>4. ASSUME UNCHANGED brain PROVE BrainInv'
  <2>1. UNCHANGED <<Tables, card, said, now>>
    BY <1>4 DEF brain, Tables
  <2>2. IsCard(card)'
    BY <2>1, ReadOffTables DEF BrainInv
  <2>3. MergeInv' /\ FactsInv'
    BY <2>1 DEF BrainInv, MergeInv, FactsInv, Tables
  <2>4. QED  BY <2>2, <2>3 DEF BrainInv
<1>5. QED  BY <1>1, <1>2, <1>3, <1>4 DEF Next, BrainStep, GroupStep, vars

\* The fact chosen for an attribute is active, and no other active one of its
\* kind of source that is as sure is later.
LEMMA ChosenFact ==
    ASSUME NEW G, G \subseteq FactRows, IsFiniteSet(G), Cards!Resolver!Active(G) # {},
           NEW a, NEW t
    PROVE  LET f == Cards!Resolver!selectFact(G, a, t).fact IN
           /\ f \in Cards!Resolver!Active(G)
           /\ \A g \in Cards!Resolver!Active(G) :
                 (/\ g.source_kind = f.source_kind /\ g.confidence = f.confidence
                  /\ g.corroboration_count = f.corroboration_count)
                    => ~(g.observed_at > f.observed_at)
<1> DEFINE active == Cards!Resolver!Active(G)
           official == Cards!Resolver!Official(active)
           corrected == Cards!Resolver!Corroborated(active)
           f == Cards!Resolver!selectFact(G, a, t).fact
           Fits(h) == /\ h \in active
                      /\ \A g \in active :
                            (/\ g.source_kind = h.source_kind /\ g.confidence = h.confidence
                             /\ g.corroboration_count = h.corroboration_count)
                               => ~(g.observed_at > h.observed_at)
<1>1. /\ active \subseteq G /\ official \subseteq active /\ corrected \subseteq active
      /\ \A g \in active : g \in official <=> g.source_kind \in Cards!Resolver!OFFICIAL_SOURCE_KINDS
      /\ \A g \in active : g \in corrected <=>
            /\ g.source_kind = "user_correction"
            /\ g.corroboration_count >= Cards!Resolver!USER_CORRECTION_MIN_CORROBORATION
  BY DEF Cards!Resolver!Active, Cards!Resolver!Official, Cards!Resolver!Corroborated
<1>2. /\ IsFiniteSet(active) /\ IsFiniteSet(official) /\ IsFiniteSet(corrected)
      /\ active \subseteq FactRows /\ official \subseteq FactRows /\ corrected \subseteq FactRows
  BY <1>1, FS_Subset
<1>3. \/ f = Cards!Resolver!Surest(active)
      \/ official # {} /\ f = Cards!Resolver!Newest(official)
      \/ f = Cards!Resolver!Newest(active)
      \/ corrected # {} /\ f = Cards!Resolver!Newest(corrected)
  BY DEF Cards!Resolver!selectFact, Cards!Resolver!selectBase
<1> HIDE DEF active, official, corrected, f
<1>4. active # {}
  BY DEF active
<1>5. ASSUME f = Cards!Resolver!Surest(active)
      PROVE  Fits(f)
  <2>1. f \in active /\ \A g \in active : ~Surer(g, f)
    BY <1>2, <1>4, <1>5, SurestExists
  <2>2. QED  BY <2>1 DEF Surer
<1>6. ASSUME official # {} /\ f = Cards!Resolver!Newest(official)
      PROVE  Fits(f)
  <2>1. f \in official /\ \A g \in official : ~Later(g, f)
    BY <1>2, <1>6, NewestExists
  <2>2. QED  BY <1>1, <2>1 DEF Later
<1>7. ASSUME f = Cards!Resolver!Newest(active)
      PROVE  Fits(f)
  <2>1. f \in active /\ \A g \in active : ~Later(g, f)
    BY <1>2, <1>4, <1>7, NewestExists
  <2>2. QED  BY <2>1 DEF Later
<1>8. ASSUME corrected # {} /\ f = Cards!Resolver!Newest(corrected)
      PROVE  Fits(f)
  <2>1. f \in corrected /\ \A g \in corrected : ~Later(g, f)
    BY <1>2, <1>8, NewestExists
  <2>2. QED  BY <1>1, <2>1 DEF Later
<1>9. Fits(f)
  BY <1>3, <1>5, <1>6, <1>7, <1>8
<1>10. QED  BY <1>9 DEF f, active

\* What is shown of an attribute is chosen among the facts of it.
LEMMA ShownIsChosen ==
    ASSUME NEW F, F \subseteq FactRows, IsFiniteSet(F), NEW t,
           NEW a \in DOMAIN Cards!Resolver!selectCardFacts(F, t)
    PROVE  LET f == Cards!Resolver!selectCardFacts(F, t)[a].fact IN
           /\ f \in F /\ f.attribute = a /\ f.status = "active"
           /\ \A g \in F :
                 (/\ g.attribute = a /\ g.status = "active"
                  /\ g.source_kind = f.source_kind /\ g.confidence = f.confidence
                  /\ g.corroboration_count = f.corroboration_count)
                    => ~(g.observed_at > f.observed_at)
<1> DEFINE G == Cards!Resolver!Group(F, a)
           f == Cards!Resolver!selectFact(G, a, t).fact
<1>1. Cards!Resolver!selectCardFacts(F, t)[a].fact = f
  BY DEF Cards!Resolver!selectCardFacts
<1>2. a \in Cards!Resolver!Shown(F)
  BY DEF Cards!Resolver!selectCardFacts
<1>3. G \subseteq F /\ \A g \in F : g \in G <=> g.attribute = a
  BY DEF Cards!Resolver!Group
<1>4. G \subseteq FactRows /\ IsFiniteSet(G)
  BY <1>3, FS_Subset
<1>5. \A g \in G : g \in Cards!Resolver!Active(G) <=> g.status = "active"
  BY DEF Cards!Resolver!Active
<1>6. Cards!Resolver!Active(G) # {}
  BY <1>2, <1>3, <1>5 DEF Cards!Resolver!Shown, Cards!Resolver!Active
<1>7. Cards!Resolver!Active(G) \subseteq G
  BY DEF Cards!Resolver!Active
<1> HIDE DEF G
<1>8. /\ f \in Cards!Resolver!Active(G)
      /\ \A g \in Cards!Resolver!Active(G) :
            (/\ g.source_kind = f.source_kind /\ g.confidence = f.confidence
             /\ g.corroboration_count = f.corroboration_count)
               => ~(g.observed_at > f.observed_at)
  BY <1>4, <1>6, ChosenFact
<1> HIDE DEF f
<1>9. QED  BY <1>1, <1>3, <1>5, <1>7, <1>8

\* What a card that no write overtook is about.
LEMMA AnsweredCard ==
    ASSUME BrainInv, card.pc = "answered", ~card.late
    PROVE  /\ card.id \in Pois /\ card.head = Hop(card.id)
           /\ card.listed => redirect[card.id] = NoPoi
           /\ RowsRead(card) /\ card.reviews = Cards!Reviews(card.head)
           /\ card.rating.count = Cards!Cardinality(Cards!Reviews(card.head))
           /\ \E t : card.shown = Cards!Resolver!selectCardFacts(Gathered(card.head), t)
BY DEF BrainInv, IsCard, HasRead

LEMMA GatheredRows ==
    ASSUME BrainInv, NEW h
    PROVE  Gathered(h) \subseteq facts /\ Gathered(h) \subseteq FactRows /\ IsFiniteSet(Gathered(h))
<1>1. Gathered(h) \subseteq facts
  BY DEF Gathered
<1>2. QED  BY <1>1, FS_Subset DEF BrainInv, FactsInv

\* The places that lead to a canonical one are those one hop away.
LEMMA GroupIsFolded ==
    ASSUME BrainInv, NEW q \in Pois
    PROVE  /\ Cards!HeadOf(q) = Hop(q) /\ Hop(q) \in Pois
           /\ Cards!Group(Hop(q)) = {p \in Pois : Cards!HeadOf(p) = Hop(q)}
<1> DEFINE head == Hop(q)
<1>1. MergeInv
  BY DEF BrainInv
<1>2. \A p \in Pois : Cards!HeadOf(p) = Hop(p)
  BY <1>1, HeadIsHop
<1>3. /\ head \in Pois /\ redirect[head] = NoPoi
      /\ redirect \in [Pois -> Pois \cup {NoPoi}]
  BY <1>1 DEF MergeInv, Hop
<1> HIDE DEF head
<1>4. \A p \in Pois : Hop(p) = head <=> (p = head \/ redirect[p] = head)
  <2> SUFFICES ASSUME NEW p \in Pois PROVE Hop(p) = head <=> (p = head \/ redirect[p] = head)
    OBVIOUS
  <2>1. head # NoPoi /\ p # NoPoi
    BY <1>3, NullIsNone
  <2>2. QED  BY <1>3, <2>1 DEF Hop
<1>5. Cards!Group(head) = {p \in Pois : Cards!HeadOf(p) = head}
  BY <1>2, <1>3, <1>4 DEF Cards!Group
<1>6. QED  BY <1>2, <1>3, <1>5 DEF head

LEMMA WholeFromInv ==
    ASSUME BrainInv
    PROVE  CardIsWhole
<1> SUFFICES ASSUME card.pc = "answered", ~card.late
             PROVE  LET head == Cards!HeadOf(card.id)
                        folded == {p \in Pois : Cards!HeadOf(p) = head}
                        known == {f \in facts : f.id.poi \in folded /\ f.status = "active"}
                    IN /\ card.head = head
                       /\ card.listed => card.id = head
                       /\ card.poi = row[head]
                       /\ DOMAIN card.shown = {f.attribute : f \in known}
                       /\ \A a \in DOMAIN card.shown : card.shown[a].fact \in known
                       /\ card.hours = UNION {hours[p] : p \in folded}
                       /\ enrichment[head] # NoText => card.enrichment = enrichment[head]
                       /\ card.enrichment = NoText <=> \A p \in folded : enrichment[p] = NoText
                       /\ card.reviews = {r \in reviews : r.poi \in folded}
                       /\ card.rating.count = Cards!Cardinality(card.reviews)
  BY DEF CardIsWhole, Cards!CardIsWhole
<1> DEFINE head == card.head
           known == {f \in facts : f.id.poi \in Cards!Group(head) /\ f.status = "active"}
<1>1. /\ card.id \in Pois /\ head = Hop(card.id)
      /\ card.listed => redirect[card.id] = NoPoi
      /\ RowsRead(card) /\ card.reviews = Cards!Reviews(head)
      /\ card.rating.count = Cards!Cardinality(Cards!Reviews(head))
  BY AnsweredCard
<1>2. PICK t : card.shown = Cards!Resolver!selectCardFacts(Gathered(head), t)
  BY AnsweredCard
<1>3. /\ Cards!HeadOf(card.id) = head
      /\ Cards!Group(head) = {p \in Pois : Cards!HeadOf(p) = head}
  BY <1>1, GroupIsFolded
<1>4. card.listed => card.id = head
  BY <1>1 DEF Hop
<1>5. known = Cards!Resolver!Active(Gathered(head))
  BY DEF Gathered, Cards!Resolver!Active
<1>6. DOMAIN card.shown = {f.attribute : f \in known}
  BY <1>2, <1>5 DEF Cards!Resolver!selectCardFacts, Cards!Resolver!Shown
<1>7. ASSUME NEW a \in DOMAIN card.shown
      PROVE  card.shown[a].fact \in known
  <2>1. /\ card.shown[a].fact \in Gathered(head)
        /\ card.shown[a].fact.status = "active"
    BY <1>2, <1>7, GatheredRows, ShownIsChosen
  <2>2. QED  BY <2>1 DEF Gathered
<1>8. /\ enrichment[head] # NoText => card.enrichment = enrichment[head]
      /\ card.enrichment = NoText <=> \A p \in Cards!Group(head) : enrichment[p] = NoText
  <2>1. PICK p \in Cards!Preferred(head) : card.enrichment = enrichment[p]
    BY <1>1 DEF RowsRead
  <2>2. head \in Cards!Group(head)
    BY DEF Cards!Group
  <2> HIDE DEF head
  <2>3. QED  BY <2>1, <2>2 DEF Cards!Preferred
<1>9. card.poi = row[head] /\ card.hours = UNION {hours[p] : p \in Cards!Group(head)}
  BY <1>1 DEF RowsRead
<1>10. card.reviews = {r \in reviews : r.poi \in Cards!Group(head)}
  BY <1>1 DEF Cards!Reviews
<1> HIDE DEF head, known
<1>11. card.head = head
  BY DEF head
<1>12. known = {f \in facts : f.id.poi \in Cards!Group(head) /\ f.status = "active"}
  BY DEF known
<1>13. QED
  BY <1>1, <1>3, <1>4, <1>6, <1>7, <1>8, <1>9, <1>10, <1>11, <1>12

LEMMA ShownIsNewest ==
    ASSUME BrainInv
    PROVE  NothingReplacedIsShown
<1> SUFFICES ASSUME card.pc = "answered", ~card.late, NEW a \in DOMAIN card.shown,
                    NEW r \in said, Cards!Same(r, card.shown[a].fact),
                    r.observed_at > card.shown[a].fact.observed_at
             PROVE  \E s \in said : s.id = r.id /\ s # r
  BY DEF NothingReplacedIsShown, Cards!NothingReplacedIsShown
<1> DEFINE F == Gathered(card.head)
           f == card.shown[a].fact
<1>1. PICK t : card.shown = Cards!Resolver!selectCardFacts(F, t)
  BY AnsweredCard
<1>2. F \subseteq facts /\ F \subseteq FactRows /\ IsFiniteSet(F)
  BY GatheredRows
<1>3. \A g \in facts : g \in F <=> /\ g.id.poi \in Cards!Group(card.head)
                                    /\ g.status \in {"active", "disputed"}
  BY DEF Gathered
<1> HIDE DEF F
<1>4. /\ f \in F /\ f.attribute = a /\ f.status = "active"
      /\ \A g \in F :
            (/\ g.attribute = a /\ g.status = "active"
             /\ g.source_kind = f.source_kind /\ g.confidence = f.confidence
             /\ g.corroboration_count = f.corroboration_count)
               => ~(g.observed_at > f.observed_at)
  BY <1>1, <1>2, ShownIsChosen
<1>5. /\ r.id.poi = f.id.poi /\ r.attribute = f.attribute /\ r.source_kind = f.source_kind
      /\ r.status = f.status /\ r.confidence = f.confidence
      /\ r.corroboration_count = f.corroboration_count
  BY DEF Cards!Same
<1>6. r \notin facts
  <2> SUFFICES ASSUME r \in facts PROVE FALSE
    OBVIOUS
  <2>1. f.id.poi \in Cards!Group(card.head)
    BY <1>2, <1>3, <1>4
  <2>2. r \in F
    BY <1>3, <1>4, <1>5, <2>1
  <2>3. QED  BY <1>4, <1>5, <2>2
<1>7. PICK g \in facts : g.id = r.id
  BY DEF BrainInv, FactsInv
<1>8. g \in said
  BY DEF BrainInv, FactsInv
<1>9. QED  BY <1>6, <1>7, <1>8

-----------------------------------------------------------------------------
(* Tallies *)

Opinions == {"up", "down", "none"}
Slot == {"pc", "user", "place", "vote", "tally", "late"}

\* A tally says of both opinions how many have it.
Tells(sum, ballot) ==
    /\ sum.up = Group!Number(ballot, "up")
    /\ sum.down = Group!Number(ballot, "down")

\* The votes of the place of request r as they will be once it has committed.
Ballot(r) == Group!With(votes[req[r].place], req[r].user, req[r].vote)

VotesShape ==
    /\ votes \in [Places -> [Users -> Opinions]]
    /\ DOMAIN tally = Places /\ places \subseteq Places
    /\ DOMAIN req = Requests

RequestShape(q) ==
    /\ Slot \subseteq DOMAIN q
    /\ q.pc # "idle" => q.place \in Places /\ q.vote \in {"up", "down"}

\* A vote that is written keeps its place there; and what it has counted is true
\* as long as no other vote of the place has been committed.
CountIsCurrent(r) ==
    req[r].pc = "commit" =>
        /\ req[r].place \in places
        /\ ~req[r].late => Tells(req[r].tally, Ballot(r))

TallyInv ==
    /\ VotesShape
    /\ \A r \in Requests : RequestShape(req[r]) /\ CountIsCurrent(r)
    /\ \A p \in places \ unheard : Tells(tally[p], votes[p])

LEMMA CountNone == Group!Cardinality({}) = 0
BY FS_EmptySet DEF Group!Cardinality, Cardinality

LEMMA TallyStart ==
    ASSUME Init
    PROVE  TallyInv
<1>1. /\ places = Places /\ unheard = {}
      /\ votes = [p \in Places |-> [u \in Users |-> IF u \in Joined THEN "up" ELSE "none"]]
      /\ tally = [p \in Places |-> [Group!NoTally EXCEPT !.up = Group!Cardinality(Joined)]]
      /\ req = [r \in Requests |-> Group!Idle]
  BY DEF Init, Group!Init
<1>2. VotesShape
  BY <1>1 DEF VotesShape, Opinions
<1>3. \A r \in Requests : RequestShape(req[r]) /\ CountIsCurrent(r)
  BY <1>1 DEF RequestShape, CountIsCurrent, Slot, Group!Idle
<1>4. ASSUME NEW p \in Places
      PROVE  Tells(tally[p], votes[p])
  <2>1. {u \in DOMAIN votes[p] : votes[p][u] = "up"} = Joined
    BY <1>1, CurationAssumption
  <2>2. {u \in DOMAIN votes[p] : votes[p][u] = "down"} = {}
    BY <1>1
  <2>3. tally[p].up = Group!Cardinality(Joined) /\ tally[p].down = 0
    BY <1>1 DEF Group!NoTally
  <2>4. QED  BY <2>1, <2>2, <2>3, CountNone DEF Tells, Group!Number
<1>5. QED  BY <1>1, <1>2, <1>3, <1>4 DEF TallyInv

\* A step that leaves votes and tallies alone.
LEMMA SlotKeeps ==
    ASSUME TallyInv, UNCHANGED <<places, votes, tally, unheard>>,
           NEW r \in Requests, NEW q, req' = [req EXCEPT ![r] = q],
           RequestShape(q),
           q.pc = "commit" =>
               /\ q.place \in places
               /\ Tells(q.tally, Group!With(votes[q.place], q.user, q.vote))
    PROVE  TallyInv'
<1>1. VotesShape'
  BY DEF TallyInv, VotesShape
<1>2. req'[r] = q /\ \A s \in Requests \ {r} : req'[s] = req[s]
  BY DEF TallyInv, VotesShape
<1>3. \A s \in Requests : RequestShape(req'[s])
  BY <1>2 DEF TallyInv
<1>4. ASSUME NEW s \in Requests
      PROVE  CountIsCurrent(s)'
  <2>1. CASE s = r
    BY <1>2, <2>1 DEF CountIsCurrent, Ballot
  <2>2. CASE s # r
    <3>1. CountIsCurrent(s)
      BY DEF TallyInv
    <3>2. QED  BY <1>2, <2>2, <3>1 DEF CountIsCurrent, Ballot, Tells, Group!With, Group!Number
  <2>3. QED  BY <2>1, <2>2
<1>5. \A p \in places \ unheard : Tells(tally'[p], votes'[p])
  BY DEF TallyInv
<1>6. QED  BY <1>1, <1>3, <1>4, <1>5 DEF TallyInv

LEMMA IdleShape == RequestShape(Group!Idle)
BY DEF RequestShape, Group!Idle, Slot

LEMMA AskKeeps ==
    ASSUME TallyInv, NEW r \in Requests, NEW u \in Users, NEW p \in Places,
           NEW v \in {"up", "down"}, Group!Ask(r, u, p, v)
    PROVE  TallyInv'
<1> DEFINE q == [Group!Idle EXCEPT !.pc = "find", !.user = u, !.place = p, !.vote = v]
<1>1. RequestShape(q) /\ q.pc # "commit"
  BY DEF RequestShape, Group!Idle, Slot
<1>2. req' = [req EXCEPT ![r] = q] /\ UNCHANGED <<places, votes, tally, unheard>>
  BY DEF Group!Ask, Group!group
<1> HIDE DEF q
<1>3. QED  BY <1>1, <1>2, SlotKeeps

LEMMA IdleKeeps ==
    ASSUME TallyInv, NEW r \in Requests, req' = [req EXCEPT ![r] = Group!Idle],
           UNCHANGED <<places, votes, tally, unheard>>
    PROVE  TallyInv'
<1>1. Group!Idle.pc # "commit"
  BY DEF Group!Idle
<1>2. QED  BY <1>1, IdleShape, SlotKeeps

LEMMA FindKeeps ==
    ASSUME TallyInv, NEW r \in Requests, Group!FindPlace(r)
    PROVE  TallyInv'
<1> DEFINE q == [req[r] EXCEPT !.pc = "upsert"]
<1>1. /\ req[r].pc = "find" /\ UNCHANGED <<places, votes, tally, unheard>>
      /\ req' = [req EXCEPT ![r] = q] \/ req' = [req EXCEPT ![r] = Group!Idle]
  BY DEF Group!FindPlace, Group!group, TallyInv, VotesShape
<1>2. RequestShape(req[r])
  BY DEF TallyInv
<1>3. RequestShape(q) /\ q.pc # "commit"
  BY <1>1, <1>2 DEF RequestShape, Slot
<1> HIDE DEF q
<1>4. QED  BY <1>1, <1>3, SlotKeeps, IdleKeeps

LEMMA UpsertKeeps ==
    ASSUME TallyInv, NEW r \in Requests, Group!Upsert(r)
    PROVE  TallyInv'
<1> DEFINE ballot == Group!With(votes[req[r].place], req[r].user, req[r].vote)
           sum == Group!TallyOf(ballot, Len(members))
           q == [req[r] EXCEPT !.pc = "commit", !.tally = sum]
<1>1. /\ req[r].pc = "upsert" /\ UNCHANGED <<places, votes, tally, unheard>>
      /\ \/ req' = [req EXCEPT ![r] = q] /\ req[r].place \in places
         \/ req' = [req EXCEPT ![r] = Group!Idle]
  BY DEF Group!Upsert, Group!group, TallyInv, VotesShape
<1>2. RequestShape(req[r])
  BY DEF TallyInv
<1>3. RequestShape(q)
  BY <1>1, <1>2 DEF RequestShape, Slot
<1>4. Tells(sum, ballot)
  BY DEF Tells, Group!TallyOf
<1>5. q.tally = sum /\ q.place = req[r].place /\ q.user = req[r].user /\ q.vote = req[r].vote
  BY <1>2 DEF RequestShape, Slot
<1> HIDE DEF q, sum
<1>6. Tells(q.tally, Group!With(votes[q.place], q.user, q.vote))
  BY <1>4, <1>5
<1>7. CASE req' = [req EXCEPT ![r] = q] /\ req[r].place \in places
  BY <1>1, <1>3, <1>5, <1>6, <1>7, SlotKeeps
<1>8. QED  BY <1>1, <1>7, IdleKeeps

LEMMA StutterKeepsTally ==
    ASSUME TallyInv, UNCHANGED <<places, votes, tally, unheard, req>>
    PROVE  TallyInv'
BY DEF TallyInv, VotesShape, CountIsCurrent, Ballot

\* The tallies of place p are to be counted anew, but for the requests marked late.
LEMMA MissEffect ==
    ASSUME TallyInv, NEW p, NEW r \in Requests
    PROVE  LET q == Group!Miss(p)[r] IN
           /\ RequestShape(q)
           /\ q = req[r] \/ q = [req[r] EXCEPT !.late = TRUE]
           /\ q.pc = req[r].pc /\ q.place = req[r].place
           /\ q.pc = "commit" /\ q.place = p => q.late
<1>1. RequestShape(req[r])
  BY DEF TallyInv
<1>2. Group!Miss(p)[r] = IF req[r].pc = "commit" /\ req[r].place = p
                         THEN [req[r] EXCEPT !.late = TRUE] ELSE req[r]
  BY DEF Group!Miss, Group!Writing
<1>3. QED  BY <1>1, <1>2 DEF RequestShape, Slot

LEMMA CommitKeeps ==
    ASSUME TallyInv, NEW r \in Requests, Group!Commit(r)
    PROVE  TallyInv'
<1> DEFINE p == req[r].place
<1>1. /\ req[r].pc = "commit" /\ places' = places
      /\ votes' = [votes EXCEPT ![p] = Group!With(@, req[r].user, req[r].vote)]
      /\ tally' = [tally EXCEPT ![p] = req[r].tally]
      /\ unheard' = IF req[r].late THEN unheard \cup {p} ELSE unheard \ {p}
      /\ req' = [Group!Miss(p) EXCEPT ![r] = Group!Idle]
  BY DEF Group!Commit
<1>2. p \in Places /\ req[r].vote \in Opinions
  BY <1>1 DEF TallyInv, RequestShape, Opinions
<1>3. /\ votes'[p] = Ballot(r) /\ votes'[p] \in [Users -> Opinions]
      /\ \A o \in Places \ {p} : votes'[o] = votes[o]
      /\ tally'[p] = req[r].tally /\ \A o \in Places \ {p} : tally'[o] = tally[o]
  BY <1>1, <1>2 DEF TallyInv, VotesShape, Ballot, Group!With
<1>4. /\ req'[r] = Group!Idle
      /\ \A s \in Requests \ {r} : req'[s] = Group!Miss(p)[s]
  BY <1>1 DEF Group!Miss
<1>5. VotesShape'
  BY <1>1, <1>2, <1>3 DEF TallyInv, VotesShape, Group!Miss, Group!With
<1>6. ASSUME NEW s \in Requests
      PROVE  RequestShape(req'[s]) /\ CountIsCurrent(s)'
  <2>1. CASE s = r
    BY <1>4, <2>1, IdleShape DEF CountIsCurrent, Group!Idle
  <2>2. CASE s # r
    <3>1. /\ RequestShape(req'[s])
          /\ req'[s] = req[s] \/ req'[s] = [req[s] EXCEPT !.late = TRUE]
          /\ req'[s].pc = req[s].pc /\ req'[s].place = req[s].place
          /\ req'[s].pc = "commit" /\ req'[s].place = p => req'[s].late
      BY <1>4, <2>2, MissEffect
    <3>2. CountIsCurrent(s)
      BY DEF TallyInv
    <3>3. CASE req[s].pc = "commit" /\ ~req'[s].late
      <4>1. req'[s] = req[s] /\ req[s].place # p /\ req[s].place \in Places
        BY <3>1, <3>3 DEF RequestShape, Slot
      <4>2. Ballot(s)' = Ballot(s)
        BY <1>3, <4>1 DEF Ballot, Group!With
      <4>3. Tells(req[s].tally, Ballot(s)) /\ req[s].place \in places
        BY <3>2, <3>3, <4>1 DEF CountIsCurrent
      <4>4. QED  BY <1>1, <3>1, <4>1, <4>2, <4>3 DEF CountIsCurrent, Tells, Group!Number
    <3>4. CASE ~(req[s].pc = "commit" /\ ~req'[s].late)
      BY <1>1, <3>1, <3>2, <3>4 DEF CountIsCurrent
    <3>5. QED  BY <3>1, <3>3, <3>4
  <2>3. QED  BY <2>1, <2>2
<1>7. ASSUME NEW o \in places' \ unheard'
      PROVE  Tells(tally'[o], votes'[o])
  <2>1. CASE o = p
    <3>1. ~req[r].late /\ CountIsCurrent(r)
      BY <1>1, <1>7, <2>1 DEF TallyInv
    <3>2. Tells(req[r].tally, Ballot(r))
      BY <1>1, <3>1 DEF CountIsCurrent
    <3>3. QED  BY <1>3, <2>1, <3>2
  <2>2. CASE o # p
    <3>1. o \in places \ unheard /\ o \in Places
      BY <1>1, <1>7, <2>2 DEF TallyInv, VotesShape
    <3>2. QED  BY <1>3, <2>2, <3>1 DEF TallyInv
  <2>3. QED  BY <2>1, <2>2
<1>8. QED  BY <1>5, <1>6, <1>7 DEF TallyInv

\* The votes that go with their places were not under way.
LEMMA RemoveCityKeeps ==
    ASSUME TallyInv, NEW u \in Users, NEW stay, Group!RemoveCity(u, stay)
    PROVE  TallyInv'
<1> DEFINE gone == {p \in places : StayOf(p) = stay}
<1>1. /\ \A p \in gone : Group!Writing(p) = {}
      /\ places' = places \ gone /\ UNCHANGED <<tally, req, unheard>>
      /\ votes' = [p \in Places |-> IF p \in gone THEN Group!NoVotes ELSE votes[p]]
  BY DEF Group!RemoveCity, Group!Cascade
<1> HIDE DEF gone
<1>2. \A p \in Places \ gone : votes'[p] = votes[p]
  BY <1>1
<1>3. VotesShape'
  BY <1>1 DEF TallyInv, VotesShape, Group!NoVotes, Opinions
<1>4. ASSUME NEW s \in Requests
      PROVE  RequestShape(req'[s]) /\ CountIsCurrent(s)'
  <2>1. RequestShape(req[s]) /\ CountIsCurrent(s)
    BY DEF TallyInv
  <2>2. req[s].pc = "commit" => req[s].place \in places \ gone /\ req[s].place \in Places
    BY <1>1, <2>1 DEF Group!Writing, RequestShape, CountIsCurrent
  <2>3. req[s].pc = "commit" => Ballot(s)' = Ballot(s)
    BY <1>1, <1>2, <2>2 DEF Ballot, Group!With
  <2>4. req'[s] = req[s] /\ (req[s].pc = "commit" => req[s].place \in places')
    BY <1>1, <2>2
  <2>5. QED  BY <2>1, <2>3, <2>4 DEF CountIsCurrent, Tells, Group!Number
<1>5. \A o \in places' \ unheard' : Tells(tally'[o], votes'[o])
  BY <1>1, <1>2 DEF TallyInv, VotesShape
<1>6. QED  BY <1>3, <1>4, <1>5 DEF TallyInv

\* Withdrawing an opinion that is none changes nothing.
LEMMA NothingWithdrawn ==
    ASSUME NEW ballot \in [Users -> Opinions], NEW u \in Users, ballot[u] = "none"
    PROVE  Group!With(ballot, u, "none") = ballot
BY DEF Group!With

LEMMA EraseKeeps ==
    ASSUME TallyInv, NEW u \in Users, Group!EraseUser(u)
    PROVE  TallyInv'
<1> DEFINE gone == {p \in places : AddedBy(p) = u}
           counted == {p \in places \ gone : votes[p][u] # "none"}
<1>1. /\ \A p \in gone : Group!Writing(p) = {}
      /\ places' = places \ gone /\ unheard' = unheard \ counted
      /\ votes' = [p \in Places |-> IF p \in gone THEN Group!NoVotes
                                    ELSE Group!With(votes[p], u, "none")]
      /\ req' = [r \in Requests |-> IF req[r].place \in counted
                                    THEN Group!Miss(req[r].place)[r] ELSE req[r]]
  BY DEF Group!EraseUser, Group!Cascade
<1>2. /\ DOMAIN tally' = Places
      /\ \A p \in counted : Tells(tally'[p], votes'[p])
      /\ \A p \in Places \ counted : tally'[p] = tally[p]
  <2>1. PICK n : tally' = [p \in Places |-> IF p \in counted
                                            THEN Group!TallyOf(votes'[p], n) ELSE tally[p]]
    BY DEF Group!EraseUser
  <2>2. counted \subseteq Places
    BY DEF TallyInv, VotesShape
  <2> HIDE DEF counted
  <2>3. QED  BY <2>1, <2>2 DEF Tells, Group!TallyOf
<1>3. /\ gone \subseteq places /\ counted \subseteq places \ gone /\ places \subseteq Places
      /\ \A p \in places \ (gone \cup counted) : votes[p][u] = "none"
  BY DEF TallyInv, VotesShape
<1> HIDE DEF gone, counted
<1>4. ASSUME NEW p \in places \ (gone \cup counted)
      PROVE  votes'[p] = votes[p]
  <2>1. votes[p] \in [Users -> Opinions] /\ votes[p][u] = "none" /\ p \in Places
    BY <1>3 DEF TallyInv, VotesShape
  <2>2. QED  BY <1>1, <2>1, NothingWithdrawn
<1>5. VotesShape'
  <2>1. \A p \in Places : Group!With(votes[p], u, "none") \in [Users -> Opinions]
    BY DEF TallyInv, VotesShape, Opinions, Group!With
  <2>2. Group!NoVotes \in [Users -> Opinions]
    BY DEF Group!NoVotes, Opinions
  <2>3. QED  BY <1>1, <1>2, <1>3, <2>1, <2>2 DEF VotesShape
<1>6. ASSUME NEW s \in Requests
      PROVE  RequestShape(req'[s]) /\ CountIsCurrent(s)'
  <2>1. RequestShape(req[s]) /\ CountIsCurrent(s)
    BY DEF TallyInv
  <2>2. CASE req[s].place \in counted
    <3>1. req'[s] = Group!Miss(req[s].place)[s]
      BY <1>1, <2>2
    <3>2. QED  BY <1>1, <1>3, <2>2, <3>1, MissEffect DEF CountIsCurrent
  <2>3. CASE req[s].place \notin counted
    <3>1. req'[s] = req[s]
      BY <1>1, <2>3
    <3>2. SUFFICES ASSUME req[s].pc = "commit"
                   PROVE  req[s].place \in places' /\ Ballot(s)' = Ballot(s)
      BY <2>1, <3>1 DEF CountIsCurrent, Tells, Group!Number
    <3>3. req[s].place \in places /\ req[s].place \notin gone
      BY <1>1, <2>1, <3>2 DEF Group!Writing, CountIsCurrent
    <3>4. votes'[req[s].place] = votes[req[s].place]
      BY <1>4, <2>3, <3>3
    <3>5. QED  BY <1>1, <3>1, <3>3, <3>4 DEF Ballot, Group!With
  <2>4. QED  BY <2>2, <2>3
<1>7. \A o \in places' \ unheard' : Tells(tally'[o], votes'[o])
  BY <1>1, <1>2, <1>3, <1>4 DEF TallyInv
<1>8. QED  BY <1>5, <1>6, <1>7 DEF TallyInv

LEMMA TallyStep ==
    ASSUME TallyInv, [Next]_vars
    PROVE  TallyInv'
<1>1. CASE UNCHANGED vars
  BY <1>1, StutterKeepsTally DEF vars, opinions
<1>2. CASE BrainStep
  BY <1>2, StutterKeepsTally DEF BrainStep, opinions
<1>3. CASE Group!Votes
  <2>1. PICK r \in Requests :
          \/ \E u \in Users, p \in Places, v \in {"up", "down"} : Group!Ask(r, u, p, v)
          \/ Group!FindPlace(r) \/ Group!Upsert(r) \/ Group!Commit(r) \/ Group!Fail(r)
    BY <1>3 DEF Group!Votes, Group!VoteValues
  <2>2. CASE Group!Fail(r)
    BY <2>2, IdleKeeps DEF Group!Fail, Group!group
  <2>3. QED  BY <2>1, <2>2, AskKeeps, FindKeeps, UpsertKeeps, CommitKeeps
<1>4. CASE Group!Changes
  <2>1. PICK u \in Users :
          \/ \E as \in {"editor", "viewer"} : Group!Join(u, as) \/ Group!ChangeRole(u, as)
          \/ Group!Leave(u)
          \/ \E new \in Tastes : Group!SaveTaste(u, new)
          \/ \E stay \in Group!Stays : Group!RemoveCity(u, stay)
          \/ Group!EraseUser(u)
    BY <1>4 DEF Group!Changes
  <2>2. CASE \E as \in {"editor", "viewer"} : Group!Join(u, as) \/ Group!ChangeRole(u, as)
    BY <2>2, StutterKeepsTally DEF Group!Join, Group!ChangeRole
  <2>3. CASE Group!Leave(u) \/ \E new \in Tastes : Group!SaveTaste(u, new)
    BY <2>3, StutterKeepsTally DEF Group!Leave, Group!SaveTaste
  <2>4. QED  BY <2>1, <2>2, <2>3, RemoveCityKeeps, EraseKeeps
<1>5. CASE Group!Rankings(Categories, [p \in Pois |-> Price(p)])
  BY <1>5, StutterKeepsTally
  DEF Group!Rankings, Group!LoadMembers, Group!LoadPlaces, Group!LoadVotesAndScore,
      Group!Dismiss, Group!group
<1>6. QED  BY <1>1, <1>2, <1>3, <1>4, <1>5 DEF Next, GroupStep

-----------------------------------------------------------------------------
(* Members *)

Roles == {"owner", "editor", "viewer", "none"}

\* Every member is listed, once.
MembersInv ==
    /\ members \in Seq(Users)
    /\ \A i, j \in 1 .. Len(members) : members[i] = members[j] => i = j
    /\ role \in [Users -> Roles]
    /\ \A u \in Users : role[u] # "none" <=> \E i \in 1 .. Len(members) : members[i] = u
    /\ taste \in [Users -> Tastes \cup {Default}]

\* A finite set in some order, each element once.
LEMMA Listed ==
    ASSUME NEW S, IsFiniteSet(S)
    PROVE  LET s == Group!SetToSeq(S) IN
           /\ s \in Seq(S)
           /\ \A i, j \in 1 .. Len(s) : s[i] = s[j] => i = j
           /\ \A x \in S : \E i \in 1 .. Len(s) : s[i] = x
<1> DEFINE n == Cardinality(S)
           s == Group!SetToSeq(S)
           Is(f) == f \in [1 .. n -> S] /\ Group!IsInjective(f)
<1>1. n \in Nat /\ \E f : f \in Bijection(1 .. n, S)
  BY FS_CardinalityType DEF ExistsBijection
<1>2. Group!Cardinality(S) = n
  BY DEF Group!Cardinality, Cardinality
<1>3. s = CHOOSE f \in [1 .. n -> S] : Group!IsInjective(f)
  BY <1>2 DEF Group!SetToSeq
<1>4. \E f \in [1 .. n -> S] : Group!IsInjective(f)
  BY <1>1 DEF Bijection, Injection, IsInjective, Group!IsInjective
<1> HIDE DEF s, n
<1>5. s \in [1 .. n -> S] /\ Group!IsInjective(s)
  BY <1>3, <1>4
<1>6. s \in Injection(1 .. n, S)
  BY <1>5 DEF Injection, IsInjective, Group!IsInjective
<1>7. IsFiniteSet(1 .. n) /\ Cardinality(1 .. n) = n
  BY <1>1, FS_Interval
<1>8. s \in Surjection(1 .. n, S)
  BY <1>6, <1>7, FS_Injection DEF n
<1>9. s \in Seq(S) /\ Len(s) = n
  BY <1>1, <1>5
<1>10. \A x \in S : \E i \in 1 .. n : s[i] = x
  BY <1>8 DEF Surjection
<1>11. \A i, j \in 1 .. n : s[i] = s[j] => i = j
  BY <1>5 DEF Group!IsInjective
<1>12. QED  BY <1>9, <1>10, <1>11 DEF s

LEMMA MembersStart ==
    ASSUME Init
    PROVE  MembersInv
<1> DEFINE a == <<Owner>>
           b == Group!SetToSeq(Joined)
<1>1. /\ members = a \o b
      /\ role = [u \in Users |-> IF u = Owner THEN "owner"
                                 ELSE IF u \in Joined THEN "editor" ELSE "none"]
      /\ taste = [u \in Users |-> Default]
  BY DEF Init, Group!Init
<1>2. Owner \in Users /\ Joined \subseteq Users /\ Owner \notin Joined /\ IsFiniteSet(Users)
  BY CurationAssumption
<1>3. IsFiniteSet(Joined)
  BY <1>2, FS_Subset
<1>4. /\ b \in Seq(Joined)
      /\ \A i, j \in 1 .. Len(b) : b[i] = b[j] => i = j
      /\ \A x \in Joined : \E i \in 1 .. Len(b) : b[i] = x
  BY <1>3, Listed
<1>5. a \in Seq(Users) /\ Len(a) = 1 /\ a[1] = Owner
  BY <1>2
<1> HIDE DEF a, b
<1>6. b \in Seq(Users) /\ Len(b) \in Nat /\ \A i \in 1 .. Len(b) : b[i] \in Joined
  BY <1>2, <1>4
<1>7. /\ a \o b \in Seq(Users) /\ Len(a \o b) = 1 + Len(b)
      /\ \A i \in 1 .. 1 + Len(b) : (a \o b)[i] = IF i <= 1 THEN a[i] ELSE b[i - 1]
  <2>1. /\ a \o b \in Seq(Users) /\ Len(a \o b) = Len(a) + Len(b)
        /\ \A i \in 1 .. Len(a) + Len(b) :
              (a \o b)[i] = IF i <= Len(a) THEN a[i] ELSE b[i - Len(a)]
    BY <1>5, <1>6, ConcatProperties
  <2>2. QED  BY <1>5, <2>1
<1>8. /\ members \in Seq(Users) /\ Len(members) = 1 + Len(b) /\ members[1] = Owner
      /\ \A i \in 2 .. Len(members) : members[i] = b[i - 1] /\ i - 1 \in 1 .. Len(b)
  BY <1>1, <1>5, <1>6, <1>7
<1>9. \A i, j \in 1 .. Len(members) : members[i] = members[j] => i = j
  <2> SUFFICES ASSUME NEW i \in 1 .. Len(members), NEW j \in 1 .. Len(members),
                      members[i] = members[j]
               PROVE  i = j
    OBVIOUS
  <2>1. CASE i = 1 /\ j # 1
    <3>1. j \in 2 .. Len(members)  BY <1>6, <1>8, <2>1
    <3>2. QED  BY <1>2, <1>6, <1>8, <2>1, <3>1
  <2>2. CASE j = 1 /\ i # 1
    <3>1. i \in 2 .. Len(members)  BY <1>6, <1>8, <2>2
    <3>2. QED  BY <1>2, <1>6, <1>8, <2>2, <3>1
  <2>3. CASE i # 1 /\ j # 1
    <3>1. i \in 2 .. Len(members) /\ j \in 2 .. Len(members)  BY <1>6, <1>8, <2>3
    <3>2. i - 1 \in 1 .. Len(b) /\ j - 1 \in 1 .. Len(b) /\ b[i - 1] = b[j - 1]
      BY <1>8, <3>1
    <3>3. i - 1 = j - 1  BY <1>4, <3>2
    <3>4. QED  BY <3>1, <3>3
  <2>4. QED  BY <2>1, <2>2, <2>3
<1>10. ASSUME NEW u \in Users
       PROVE  role[u] # "none" <=> \E i \in 1 .. Len(members) : members[i] = u
  <2>1. CASE u = Owner
    BY <1>1, <1>6, <1>8, <2>1
  <2>2. CASE u \in Joined
    <3>1. PICK i \in 1 .. Len(b) : b[i] = u
      BY <1>4, <2>2
    <3>2. i + 1 \in 2 .. Len(members) /\ (i + 1) - 1 = i
      BY <1>6, <1>8
    <3>3. members[i + 1] = u /\ i + 1 \in 1 .. Len(members)
      BY <1>8, <3>1, <3>2
    <3>4. role[u] = "editor"
      BY <1>1, <1>2, <2>2
    <3>5. QED  BY <3>3, <3>4
  <2>3. CASE u \notin Joined \cup {Owner}
    <3>1. role[u] = "none"
      BY <1>1, <2>3
    <3>2. ASSUME NEW i \in 1 .. Len(members) PROVE members[i] \in Joined \cup {Owner}
      <4>1. CASE i = 1  BY <1>8, <4>1
      <4>2. CASE i # 1
        <5>1. i \in 2 .. Len(members)  BY <1>6, <1>8, <4>2
        <5>2. QED  BY <1>6, <1>8, <5>1
      <4>3. QED  BY <4>1, <4>2
    <3>3. QED  BY <2>3, <3>1, <3>2
  <2>4. QED  BY <2>1, <2>2, <2>3
<1>11. role \in [Users -> Roles] /\ taste \in [Users -> Tastes \cup {Default}]
  BY <1>1 DEF Roles
<1>12. QED  BY <1>8, <1>9, <1>10, <1>11 DEF MembersInv

LEMMA JoinKeepsMembers ==
    ASSUME MembersInv, NEW u \in Users, NEW as, Group!Join(u, as)
    PROVE  MembersInv'
<1> DEFINE n == Len(members)
<1>1. /\ role[u] = "none" /\ as \in {"editor", "viewer"} /\ members' = Append(members, u)
      /\ role' = [role EXCEPT ![u] = as] /\ taste' = taste
  BY DEF Group!Join
<1>2. members \in Seq(Users) /\ n \in Nat
  BY DEF MembersInv
<1>3. /\ members' \in Seq(Users) /\ Len(members') = n + 1
      /\ \A i \in 1 .. n : members'[i] = members[i]
      /\ members'[n + 1] = u
  BY <1>1, <1>2, AppendProperties
<1>4. \A i \in 1 .. n : members[i] # u
  BY <1>1 DEF MembersInv
<1>5. \A i, j \in 1 .. n : members[i] = members[j] => i = j
  BY DEF MembersInv
<1> HIDE DEF n
<1>6. \A i \in 1 .. n + 1 : i \in 1 .. n \/ i = n + 1
  BY <1>2
<1>7. \A i, j \in 1 .. n + 1 : members'[i] = members'[j] => i = j
  BY <1>3, <1>4, <1>5, <1>6
<1>8. ASSUME NEW v \in Users
      PROVE  role'[v] # "none" <=> \E i \in 1 .. n + 1 : members'[i] = v
  <2>1. role[v] # "none" <=> \E i \in 1 .. n : members[i] = v
    BY DEF MembersInv, n
  <2>2. 1 .. n \subseteq 1 .. n + 1 /\ n + 1 \in 1 .. n + 1
    BY <1>2
  <2>3. role'[v] = IF v = u THEN as ELSE role[v]
    BY <1>1 DEF MembersInv
  <2>4. QED  BY <1>1, <1>3, <1>6, <2>1, <2>2, <2>3
<1>9. role' \in [Users -> Roles] /\ taste' \in [Users -> Tastes \cup {Default}]
  BY <1>1 DEF MembersInv, Roles
<1>10. QED  BY <1>3, <1>7, <1>8, <1>9 DEF MembersInv

\* Whoever leaves is taken off the list, and nobody else.
LEMMA WithoutKeepsMembers ==
    ASSUME MembersInv, NEW u \in Users, members' = Group!Without(u),
           role' = [role EXCEPT ![u] = "none"], taste' \in [Users -> Tastes \cup {Default}]
    PROVE  MembersInv'
<1> DEFINE n == Len(members)
<1>1. members \in Seq(Users) /\ n \in Nat /\ DOMAIN members = 1 .. n
  BY DEF MembersInv
<1>2. role' \in [Users -> Roles] /\ \A v \in Users : role'[v] = IF v = u THEN "none" ELSE role[v]
  BY DEF MembersInv, Roles
<1>3. CASE \E i \in 1 .. n : members[i] = u
  <2> DEFINE k == CHOOSE i \in DOMAIN members : members[i] = u
  <2>1. k \in 1 .. n /\ members[k] = u
    BY <1>1, <1>3
  <2>2. members' = Cut(members, k)
    BY <1>1, <1>3 DEF Group!Without, Group!RemoveAt, Cut
  <2> HIDE DEF k
  <2>3. /\ members' \in Seq(Users) /\ Len(members') = n - 1
        /\ \A j \in 1 .. n - 1 : members'[j] = IF j < k THEN members[j] ELSE members[j + 1]
    <3>1. k \in 1 .. Len(members) /\ members \in Seq(Users)
      BY <1>1, <2>1
    <3>2. /\ Cut(members, k) \in Seq(Users) /\ Len(Cut(members, k)) = n - 1
          /\ \A j \in 1 .. n - 1 :
                Cut(members, k)[j] = IF j < k THEN members[j] ELSE members[j + 1]
      BY <3>1, CutProperties
    <3>3. QED  BY <2>2, <3>2
  <2>4. \A i, j \in 1 .. n : members[i] = members[j] => i = j
    BY DEF MembersInv
  <2> HIDE DEF n
  <2>5. \A i, j \in 1 .. n - 1 : members'[i] = members'[j] => i = j
    <3> SUFFICES ASSUME NEW i \in 1 .. n - 1, NEW j \in 1 .. n - 1, members'[i] = members'[j]
                 PROVE  i = j
      OBVIOUS
    <3> DEFINE At(x) == IF x < k THEN x ELSE x + 1
    <3>1. /\ At(i) \in 1 .. n /\ At(j) \in 1 .. n
          /\ members'[i] = members[At(i)] /\ members'[j] = members[At(j)]
      BY <1>1, <2>1, <2>3
    <3>2. At(i) = At(j)
      BY <2>4, <3>1
    <3>3. QED  BY <1>1, <2>1, <3>2
  <2>6. ASSUME NEW v \in Users
        PROVE  role'[v] # "none" <=> \E i \in 1 .. n - 1 : members'[i] = v
    <3>1. role[v] # "none" <=> \E i \in 1 .. n : members[i] = v
      BY DEF MembersInv, n
    <3>2. CASE v = u
      <4>1. ASSUME NEW j \in 1 .. n - 1 PROVE members'[j] # u
        BY <1>1, <2>1, <2>3, <2>4
      <4>2. QED  BY <1>2, <3>2, <4>1
    <3>3. CASE v # u
      <4>1. ASSUME NEW i \in 1 .. n, members[i] = v
            PROVE  \E j \in 1 .. n - 1 : members'[j] = v
        <5>1. CASE i < k
          <6>1. i \in 1 .. n - 1  BY <1>1, <2>1, <5>1
          <6>2. QED  BY <2>3, <4>1, <5>1, <6>1
        <5>2. CASE i > k
          <6>1. i - 1 \in 1 .. n - 1 /\ ~(i - 1 < k) /\ (i - 1) + 1 = i  BY <1>1, <2>1, <5>2
          <6>2. members'[i - 1] = v  BY <2>3, <4>1, <6>1
          <6>3. QED  BY <6>1, <6>2
        <5>3. i # k  BY <2>1, <3>3, <4>1
        <5>4. QED  BY <1>1, <2>1, <5>1, <5>2, <5>3
      <4>2. ASSUME NEW j \in 1 .. n - 1, members'[j] = v
            PROVE  \E i \in 1 .. n : members[i] = v
        <5>1. j \in 1 .. n /\ j + 1 \in 1 .. n  BY <1>1
        <5>2. QED  BY <2>3, <4>2, <5>1
      <4>3. role'[v] = role[v]
        BY <1>2, <3>3
      <4>4. QED  BY <3>1, <4>1, <4>2, <4>3
    <3>4. QED  BY <3>2, <3>3
  <2>7. QED  BY <1>2, <2>3, <2>5, <2>6 DEF MembersInv
<1>4. CASE ~ \E i \in 1 .. n : members[i] = u
  <2>1. members' = members
    BY <1>1, <1>4 DEF Group!Without
  <2>2. role[u] = "none"
    BY <1>4 DEF MembersInv
  <2>3. \A v \in Users : role'[v] = role[v]
    BY <1>2, <2>2
  <2>4. QED  BY <1>2, <2>1, <2>3 DEF MembersInv
<1>5. QED  BY <1>3, <1>4

LEMMA MembersKeep ==
    ASSUME MembersInv, [Next]_vars
    PROVE  MembersInv'
<1>1. ASSUME UNCHANGED <<members, role, taste>> PROVE MembersInv'
  BY <1>1 DEF MembersInv
<1>2. ASSUME NEW u \in Users, NEW as \in {"editor", "viewer"}, Group!ChangeRole(u, as)
      PROVE  MembersInv'
  <2>1. /\ role[u] # "none" /\ role' = [role EXCEPT ![u] = as]
        /\ UNCHANGED <<members, taste>>
    BY <1>2 DEF Group!ChangeRole
  <2>2. role' \in [Users -> Roles] /\ \A v \in Users : role'[v] = IF v = u THEN as ELSE role[v]
    BY <2>1 DEF MembersInv, Roles
  <2>3. \A v \in Users : role'[v] # "none" <=> role[v] # "none"
    BY <1>2, <2>1, <2>2
  <2>4. UNCHANGED <<members, taste>>
    BY <2>1
  <2>5. QED  BY <2>2, <2>3, <2>4 DEF MembersInv
<1>3. ASSUME NEW u \in Users, Group!Leave(u)
      PROVE  MembersInv'
  <2>1. /\ members' = Group!Without(u) /\ role' = [role EXCEPT ![u] = "none"] /\ taste' = taste
    BY <1>3 DEF Group!Leave
  <2>2. taste' \in [Users -> Tastes \cup {Default}]
    BY <2>1 DEF MembersInv
  <2>3. QED  BY <2>1, <2>2, WithoutKeepsMembers
<1>4. ASSUME NEW u \in Users, NEW new \in Tastes, Group!SaveTaste(u, new)
      PROVE  MembersInv'
  BY <1>4 DEF Group!SaveTaste, MembersInv
<1>5. ASSUME NEW u \in Users, Group!EraseUser(u)
      PROVE  MembersInv'
  <2>1. /\ members' = Group!Without(u) /\ role' = [role EXCEPT ![u] = "none"]
        /\ taste' = [taste EXCEPT ![u] = Default]
    BY <1>5 DEF Group!EraseUser
  <2>2. taste' \in [Users -> Tastes \cup {Default}]
    BY <2>1 DEF MembersInv
  <2>3. QED  BY <2>1, <2>2, WithoutKeepsMembers
<1>6. ASSUME NEW u \in Users, NEW stay, Group!RemoveCity(u, stay)
      PROVE  MembersInv'
  <2>1. UNCHANGED <<members, role, taste>>
    BY <1>6 DEF Group!RemoveCity
  <2>2. QED  BY <1>1, <2>1
<1>7. ASSUME Group!Changes PROVE MembersInv'
  BY <1>2, <1>3, <1>4, <1>5, <1>6, <1>7, JoinKeepsMembers DEF Group!Changes
<1>8. ASSUME Group!Votes PROVE MembersInv'
  <2>1. UNCHANGED <<members, role, taste>>
    BY <1>8 DEF Group!Votes, Group!Ask, Group!FindPlace, Group!Upsert, Group!Commit, Group!Fail, Group!group
  <2>2. QED  BY <1>1, <2>1
<1>9. ASSUME Group!Rankings(Categories, [p \in Pois |-> Price(p)]) PROVE MembersInv'
  <2>1. UNCHANGED <<members, role, taste>>
    BY <1>9 DEF Group!Rankings, Group!LoadMembers, Group!LoadPlaces, Group!LoadVotesAndScore,
      Group!Dismiss, Group!group
  <2>2. QED  BY <1>1, <2>1
<1>10. CASE BrainStep
  <2>1. UNCHANGED <<members, role, taste>>
    BY <1>10 DEF BrainStep, opinions
  <2>2. QED  BY <1>1, <2>1
<1>11. CASE UNCHANGED vars
  <2>1. UNCHANGED <<members, role, taste>>
    BY <1>11 DEF vars, opinions
  <2>2. QED  BY <1>1, <2>1
<1>12. CASE GroupStep
  BY <1>7, <1>8, <1>9, <1>12 DEF GroupStep
<1>13. QED  BY <1>10, <1>11, <1>12 DEF Next

-----------------------------------------------------------------------------
(* The engine *)

\* As many places on the list as members of whom the same is true.
LEMMA CountMembers ==
    ASSUME MembersInv, NEW U
    PROVE  LET T == {i \in 1 .. Len(members) : members[i] \in U}
           IN /\ IsFiniteSet(T)
              /\ IsFiniteSet(Group!Members \cap U)
              /\ Cardinality(Group!Members \cap U) = Cardinality(T)
<1> DEFINE n == Len(members)
           T == {i \in 1 .. n : members[i] \in U}
           f == [i \in T |-> members[i]]
<1>1. n \in Nat /\ \A i \in 1 .. n : members[i] \in Users
  BY DEF MembersInv
<1>2. IsFiniteSet(1 .. n)
  BY <1>1, FS_Interval
<1>3. IsFiniteSet(T)
  BY <1>2, FS_Subset
<1>4. \A i \in 1 .. n : members[i] \in Group!Members
  BY <1>1 DEF MembersInv, Group!Members
<1>5. \A u \in Group!Members : \E i \in 1 .. n : members[i] = u
  BY DEF MembersInv, Group!Members
<1>6. \A i, j \in 1 .. n : members[i] = members[j] => i = j
  BY DEF MembersInv
<1> HIDE DEF n
<1>7. f \in Bijection(T, Group!Members \cap U)
  BY <1>4, <1>5, <1>6 DEF Bijection, Injection, Surjection, IsInjective
<1>8. ExistsBijection(T, Group!Members \cap U)
  BY <1>7 DEF ExistsBijection
<1> HIDE DEF T
<1>9. QED  BY <1>3, <1>8, FS_Bijection DEF T, n

\* Nobody votes both for and against.
LEMMA UpOrDown ==
    ASSUME NEW n \in Nat, NEW ballot
    PROVE  /\ Cardinality({i \in 1 .. n : ballot[i] = "up"}) \in Nat
           /\ Cardinality({i \in 1 .. n : ballot[i] = "down"}) \in Nat
           /\ Cardinality({i \in 1 .. n : ballot[i] = "up"})
                + Cardinality({i \in 1 .. n : ballot[i] = "down"}) <= n
<1> DEFINE up == {i \in 1 .. n : ballot[i] = "up"}
           down == {i \in 1 .. n : ballot[i] = "down"}
<1>1. /\ IsFiniteSet(1 .. n) /\ Cardinality(1 .. n) = n
  BY FS_Interval
<1>2. up \subseteq 1 .. n /\ down \subseteq 1 .. n /\ up \cap down = {}
  OBVIOUS
<1> HIDE DEF up, down
<1>3. IsFiniteSet(up) /\ IsFiniteSet(down) /\ up \cup down \subseteq 1 .. n
  BY <1>1, <1>2, FS_Subset
<1>4. Cardinality(up) \in Nat /\ Cardinality(down) \in Nat
  BY <1>3, FS_CardinalityType
<1>5. Cardinality(up \cup down) = Cardinality(up) + Cardinality(down)
  <2>1. Cardinality(up \cup down) = Cardinality(up) + Cardinality(down) - Cardinality(up \cap down)
    BY <1>3, FS_Union
  <2>2. Cardinality(up \cap down) = 0
    BY <1>2, FS_EmptySet
  <2>3. QED  BY <1>4, <2>1, <2>2
<1>6. Cardinality(up \cup down) <= n
  BY <1>1, <1>3, FS_Subset
<1>7. QED  BY <1>4, <1>5, <1>6 DEF up, down

LEMMA ClampBounds ==
    ASSUME NEW k \in Int
    PROVE  Group!Ranking!Clamp(k, -2, 2) = IF k < -2 THEN -2 ELSE IF k > 2 THEN 2 ELSE k
<1> DEFINE least == Group!Ranking!Min({k, 2})
<1>1. least = IF k > 2 THEN 2 ELSE k
  BY DEF Group!Ranking!Min
<1> HIDE DEF least
<1>2. least \in Int
  BY <1>1
<1>3. Group!Ranking!Max({-2, least}) = IF least < -2 THEN -2 ELSE least
  BY <1>2 DEF Group!Ranking!Max
<1>4. QED  BY <1>1, <1>3 DEF Group!Ranking!Clamp, least

\* Only an interest or a vote for it makes a place good for a member.
LEMMA GoodIsFor ==
    ASSUME NEW m, NEW vote, NEW c, Group!Ranking!MemberScore(m, vote, c) \in {1, 2}
    PROVE  m.interests \cap Group!Ranking!descriptorsOf(c) # {} \/ vote = "up"
<1> SUFFICES ASSUME m.interests \cap Group!Ranking!descriptorsOf(c) = {}, vote # "up"
             PROVE  FALSE
  OBVIOUS
<1> DEFINE a == Group!Ranking!Halves(m.anti_preferences \cap Group!Ranking!descriptorsOf(c) # {}, -1)
           b == Group!Ranking!Halves(vote = "down", -2)
           k == 0 + a + 0 + b
<1>1. a \in {0, -1} /\ b \in {0, -2}
  BY DEF Group!Ranking!Halves
<1>2. Group!Ranking!MemberScore(m, vote, c) = Group!Ranking!Clamp(k, -2, 2)
  BY DEF Group!Ranking!MemberScore, Group!Ranking!Halves
<1> HIDE DEF a, b
<1>3. k \in Int /\ k <= 0
  BY <1>1
<1> HIDE DEF k
<1>4. QED  BY <1>2, <1>3, ClampBounds

\* A sum of scores is at most twice the number of those for it.
LEMMA SumIsBounded ==
    ASSUME NEW ms, IsFiniteSet(DOMAIN ms), NEW c, NEW S, IsFiniteSet(S),
           \A i \in DOMAIN ms :
              Group!Ranking!MemberScore(ms[i], c.votes[i], c) \in {1, 2} => i \in S
    PROVE  /\ Group!Ranking!ScoreSum(ms, c) \in Int
           /\ Group!Ranking!ScoreSum(ms, c) <= 2 * Cardinality(S)
<1> DEFINE Having(k) == {i \in DOMAIN ms :
                            Group!Ranking!MemberScore(ms[i], c.votes[i], c) = k}
           two == Having(2)  one == Having(1)  less == Having(-1)  least == Having(-2)
<1>1. /\ two \subseteq DOMAIN ms /\ one \subseteq DOMAIN ms
      /\ less \subseteq DOMAIN ms /\ least \subseteq DOMAIN ms
      /\ two \cap one = {} /\ two \cup one \subseteq S
  OBVIOUS
<1>2. Group!Ranking!ScoreSum(ms, c)
        = 2 * Cardinality(two) + Cardinality(one) - Cardinality(less) - 2 * Cardinality(least)
  BY DEF Group!Ranking!ScoreSum, Group!Ranking!Indices, Group!Ranking!Cardinality, Cardinality
<1> HIDE DEF two, one, less, least
<1>3. IsFiniteSet(two) /\ IsFiniteSet(one) /\ IsFiniteSet(less) /\ IsFiniteSet(least)
  BY <1>1, FS_Subset
<1>4. /\ Cardinality(two) \in Nat /\ Cardinality(one) \in Nat
      /\ Cardinality(less) \in Nat /\ Cardinality(least) \in Nat /\ Cardinality(S) \in Nat
  BY <1>3, FS_CardinalityType
<1>5. Cardinality(two \cup one) = Cardinality(two) + Cardinality(one)
  <2>1. Cardinality(two \cup one) = Cardinality(two) + Cardinality(one) - Cardinality(two \cap one)
    BY <1>3, FS_Union
  <2>2. Cardinality(two \cap one) = 0
    BY <1>1, FS_EmptySet
  <2>3. QED  BY <1>4, <2>1, <2>2
<1>6. Cardinality(two \cup one) <= Cardinality(S)
  BY <1>1, FS_Subset
<1>7. QED  BY <1>2, <1>4, <1>5, <1>6

-----------------------------------------------------------------------------
(* What a ranking of the tables as they are says *)

Profiles == [i \in DOMAIN members |-> taste[members[i]]]

\* The price that would be selected at time t.
PriceAt(p, t) ==
    LET theirs == {f \in facts : f.id.poi \in Cards!Group(Hop(p))}
        shown == Cards!Resolver!selectCardFacts(theirs, t)
    IN {shown[a].fact.value : a \in {"price"} \cap DOMAIN shown}

CandidateAt(p, t) ==
    [poi_id |-> PoiOf(p), category |-> Categories[PoiOf(p)], tags |-> Known(p),
     price_tier |-> PriceAt(PoiOf(p), t), votes |-> Group!Aligned(members, votes[p])]

RowAt(p, t) == Group!Ranking!ScoreCandidate(Profiles, CandidateAt(p, t))

LEMMA RowCounts ==
    ASSUME MembersInv, NEW p, NEW t
    PROVE  /\ RowAt(p, t).up = Group!Heard(p, "up")
           /\ RowAt(p, t).down = Group!Heard(p, "down")
           /\ RowAt(p, t).member_count = Group!Cardinality(Group!Members)
           /\ RowAt(p, t).member_count = Len(members)
<1> DEFINE n == Len(members)
           ballot == Group!Aligned(members, votes[p])
<1>1. n \in Nat /\ DOMAIN members = 1 .. n /\ \A i \in 1 .. n : members[i] \in Users
  BY DEF MembersInv
<1>2. DOMAIN ballot = 1 .. n /\ \A i \in 1 .. n : ballot[i] = votes[p][members[i]]
  BY <1>1 DEF Group!Aligned
<1>3. ASSUME NEW vote
      PROVE  Group!Ranking!Count(CandidateAt(p, t), vote) = Group!Heard(p, vote)
  <2> DEFINE U == {u \in Users : votes[p][u] = vote}
  <2>1. {i \in DOMAIN ballot : ballot[i] = vote} = {i \in 1 .. n : members[i] \in U}
    BY <1>1, <1>2
  <2>2. Group!Members \cap U = {u \in Group!Members : votes[p][u] = vote}
    BY DEF Group!Members
  <2>3. CandidateAt(p, t).votes = ballot
    BY DEF CandidateAt
  <2> HIDE DEF ballot
  <2>4. Group!Ranking!Count(CandidateAt(p, t), vote) = Cardinality({i \in DOMAIN ballot : ballot[i] = vote})
    BY <2>3 DEF Group!Ranking!Count, Group!Ranking!Cardinality, Cardinality
  <2>5. Group!Heard(p, vote) = Cardinality({u \in Group!Members : votes[p][u] = vote})
    BY DEF Group!Heard, Group!Cardinality, Cardinality
  <2> HIDE DEF U
  <2>6. Cardinality(Group!Members \cap U) = Cardinality({i \in 1 .. n : members[i] \in U})
    BY CountMembers
  <2>7. QED  BY <2>1, <2>2, <2>4, <2>5, <2>6
<1>4. Len(Profiles) = n
  BY <1>1 DEF Profiles
<1>5. Group!Cardinality(Group!Members) = n
  <2>1. {i \in 1 .. n : members[i] \in Users} = 1 .. n /\ Group!Members \cap Users = Group!Members
    BY <1>1 DEF Group!Members
  <2>2. Cardinality(1 .. n) = n
    BY <1>1, FS_Interval
  <2>3. Cardinality(Group!Members \cap Users) = Cardinality({i \in 1 .. n : members[i] \in Users})
    BY CountMembers
  <2>4. QED  BY <2>1, <2>2, <2>3 DEF Group!Cardinality, Cardinality
<1>6. /\ RowAt(p, t).up = Group!Ranking!Count(CandidateAt(p, t), "up")
      /\ RowAt(p, t).down = Group!Ranking!Count(CandidateAt(p, t), "down")
      /\ RowAt(p, t).member_count = Len(Profiles)
  BY DEF RowAt, Group!Ranking!ScoreCandidate
<1>7. QED  BY <1>3, <1>4, <1>5, <1>6

LEMMA RowFilters ==
    ASSUME NEW p, NEW t
    PROVE  /\ RowAt(p, t).flags = Group!Ranking!Flags(Profiles, CandidateAt(p, t))
           /\ RowAt(p, t).poi_id = PoiOf(p)
           /\ \A f \in RowAt(p, t).flags : f # "misery" => RowAt(p, t).excluded
           /\ ("misery" \in RowAt(p, t).flags
                /\ Group!Ranking!LowMean(Profiles, CandidateAt(p, t))) => RowAt(p, t).excluded
<1>1. /\ RowAt(p, t).flags = Group!Ranking!Flags(Profiles, CandidateAt(p, t))
      /\ RowAt(p, t).poi_id = CandidateAt(p, t).poi_id
      /\ RowAt(p, t).excluded = (\/ Group!Ranking!Flags(Profiles, CandidateAt(p, t)) \ {"misery"} # {}
                                 \/ ("misery" \in Group!Ranking!Flags(Profiles, CandidateAt(p, t))
                                      /\ Group!Ranking!LowMean(Profiles, CandidateAt(p, t))))
  BY DEF RowAt, Group!Ranking!ScoreCandidate
<1>2. CandidateAt(p, t).poi_id = PoiOf(p)
  BY DEF CandidateAt
<1>3. QED  BY <1>1, <1>2

LEMMA ListedMember ==
    ASSUME MembersInv, NEW u \in Group!Members
    PROVE  \E i \in DOMAIN members : members[i] = u /\ Profiles[i] = taste[u]
<1>1. PICK i \in 1 .. Len(members) : members[i] = u
  BY DEF MembersInv, Group!Members
<1>2. i \in DOMAIN members
  BY <1>1 DEF MembersInv
<1>3. Profiles[i] = taste[u]
  BY <1>1, <1>2 DEF Profiles
<1>4. QED  BY <1>1, <1>2, <1>3

\* Whatever a member excludes is filtered.
LEMMA VetoIsHeard ==
    ASSUME MembersInv, NEW p, NEW t, NEW u \in Group!Members,
           Categories[PoiOf(p)] \in taste[u].hard_exclusions
    PROVE  RowAt(p, t).excluded
<1>1. PICK i \in DOMAIN members : members[i] = u /\ Profiles[i] = taste[u]
  BY ListedMember
<1>2. DOMAIN Profiles = DOMAIN members
  BY DEF Profiles
<1>3. Categories[PoiOf(p)] \in Group!Ranking!unionHardExclusions(Profiles)
  BY <1>1, <1>2 DEF Group!Ranking!unionHardExclusions, Group!Ranking!Indices
<1>4. Categories[PoiOf(p)] \in Group!Ranking!descriptorsOf(CandidateAt(p, t))
  BY DEF Group!Ranking!descriptorsOf, CandidateAt
<1>5. Group!Ranking!Excluded(Profiles, CandidateAt(p, t))
  BY <1>3, <1>4 DEF Group!Ranking!Excluded
<1>6. "hard_exclusion" \in Group!Ranking!Flags(Profiles, CandidateAt(p, t))
  BY <1>5 DEF Group!Ranking!Flags
<1>7. QED  BY <1>6, RowFilters

\* A vote against is never averaged away.
LEMMA DownIsMisery ==
    ASSUME MembersInv, NEW p, NEW t, NEW u \in Group!Members, votes[p][u] = "down"
    PROVE  "misery" \in RowAt(p, t).flags
<1>1. PICK i \in DOMAIN members : members[i] = u
  BY ListedMember
<1>2. DOMAIN Profiles = DOMAIN members
  BY DEF Profiles
<1>3. CandidateAt(p, t).votes[i] = "down"
  BY <1>1 DEF CandidateAt, Group!Aligned
<1>4. Group!Ranking!Miserable(Profiles[i], CandidateAt(p, t).votes[i], CandidateAt(p, t))
  BY <1>3 DEF Group!Ranking!Miserable
<1>5. i \in Group!Ranking!Indices(Profiles)
  BY <1>2 DEF Group!Ranking!Indices
<1>6. "misery" \in Group!Ranking!Flags(Profiles, CandidateAt(p, t))
  BY <1>4, <1>5 DEF Group!Ranking!Flags
<1>7. QED  BY <1>6, RowFilters

\* What is kept in spite of a vote against, a third of the members are for.
LEMMA KeptHasThird ==
    ASSUME MembersInv, NEW p, NEW t, "misery" \in RowAt(p, t).flags, ~RowAt(p, t).excluded
    PROVE  100 * Group!Cardinality(Group!For(p, Categories[PoiOf(p)])) >= 34 * Len(members)
<1> DEFINE n == Len(members)
           c == CandidateAt(p, t)
           for == Group!For(p, Categories[PoiOf(p)])
           S == {i \in 1 .. n : members[i] \in for}
<1>1. n \in Nat /\ DOMAIN members = 1 .. n /\ DOMAIN Profiles = 1 .. n /\ Len(Profiles) = n
  BY DEF MembersInv, Profiles
<1>2. ~Group!Ranking!LowMean(Profiles, c)
  BY RowFilters
<1>3. ~(100 * Group!Ranking!ScoreSum(Profiles, c) < 68 * n)
  BY <1>1, <1>2 DEF Group!Ranking!LowMean
<1>4. ASSUME NEW i \in 1 .. n, Group!Ranking!MemberScore(Profiles[i], c.votes[i], c) \in {1, 2}
      PROVE  i \in S
  <2>1. Profiles[i].interests \cap Group!Ranking!descriptorsOf(c) # {} \/ c.votes[i] = "up"
    BY <1>4, GoodIsFor
  <2>2. Profiles[i] = taste[members[i]] /\ c.votes[i] = votes[p][members[i]]
    BY <1>1 DEF Profiles, CandidateAt, Group!Aligned
  <2>3. Group!Ranking!descriptorsOf(c) = {Categories[PoiOf(p)]} \cup UNION Known(p)
    BY DEF Group!Ranking!descriptorsOf, CandidateAt
  <2>4. members[i] \in Group!Members
    BY <1>1 DEF MembersInv, Group!Members
  <2>5. QED  BY <2>1, <2>2, <2>3, <2>4 DEF Group!For
<1>5. /\ IsFiniteSet(S) /\ Cardinality(Group!Members \cap for) = Cardinality(S)
  <2> HIDE DEF for
  <2>1. QED  BY CountMembers
<1>6. Group!Members \cap for = for
  BY DEF Group!For
<1> HIDE DEF S, c
<1>7. IsFiniteSet(DOMAIN Profiles)
  BY <1>1, FS_Interval
<1>8. /\ Group!Ranking!ScoreSum(Profiles, c) \in Int
      /\ Group!Ranking!ScoreSum(Profiles, c) <= 2 * Cardinality(S)
  BY <1>1, <1>4, <1>5, <1>7, SumIsBounded
<1>9. Cardinality(S) \in Nat
  BY <1>5, FS_CardinalityType
<1>10. Group!Cardinality(for) = Cardinality(S)
  BY <1>5, <1>6 DEF Group!Cardinality, Cardinality
<1> HIDE DEF for
<1>11. QED  BY <1>1, <1>3, <1>8, <1>9, <1>10 DEF for

-----------------------------------------------------------------------------
(* The ranking being made *)

RankFields == {"pc", "scope", "members", "users", "candidates", "rows", "late"}

\* What has been read is in step with itself, and with the tables until a write
\* overtakes it; a row that none overtook is that of the tables as they are, with
\* the price selected at some time.
RankInv ==
    /\ RankFields \subseteq DOMAIN rank
    /\ rank.pc \in {"none", "places", "votes", "done"}
    /\ rank.pc = "none" => ~rank.late
    /\ rank.pc \in {"places", "votes"} =>
          /\ \E n \in Nat : DOMAIN rank.users = 1 .. n /\ Len(rank.members) = n
          /\ ~rank.late => rank.users = members /\ rank.members = Profiles
    /\ rank.pc = "votes" => rank.candidates \subseteq Places
    /\ rank.pc = "done" =>
          \A p \in DOMAIN rank.rows :
             /\ p \in Places
             /\ rank.rows[p].up + rank.rows[p].down <= rank.rows[p].member_count
             /\ ~rank.late => \E t \in Nat : rank.rows[p] = RowAt(p, t)

Heeded == <<members, taste, votes, row, redirect, facts>>

LEMMA SameRanking ==
    ASSUME UNCHANGED Heeded
    PROVE  /\ Profiles' = Profiles
           /\ \A p, t : RowAt(p, t)' = RowAt(p, t)
<1>1. Profiles' = Profiles
  BY DEF Heeded, Profiles
<1>2. ASSUME NEW p, NEW t
      PROVE  CandidateAt(p, t)' = CandidateAt(p, t)
  BY DEF Heeded, CandidateAt, PriceAt, Hop, Categories, Cards!Present, Cards!Group, Group!Aligned
<1>3. QED  BY <1>1, <1>2 DEF RowAt

LEMMA HeededKeepsRank ==
    ASSUME RankInv, UNCHANGED Heeded, rank' = rank
    PROVE  RankInv'
<1>1. Profiles' = Profiles /\ \A p, t : RowAt(p, t)' = RowAt(p, t)
  BY SameRanking
<1>2. members' = members
  BY DEF Heeded
<1>3. QED  BY <1>1, <1>2 DEF RankInv

LEMMA WriteKeepsRank ==
    ASSUME RankInv, Group!Write
    PROVE  RankInv'
<1>1. rank' = [rank EXCEPT !.late = rank.pc # "none"]
  BY DEF Group!Write
<1>2. /\ RankFields \subseteq DOMAIN rank' /\ rank'.late = (rank.pc # "none")
      /\ rank'.pc = rank.pc /\ rank'.users = rank.users /\ rank'.members = rank.members
      /\ rank'.candidates = rank.candidates /\ rank'.rows = rank.rows
  BY <1>1 DEF RankInv, RankFields
<1>3. rank.pc # "none" => rank'.late
  BY <1>2
<1>4. rank.pc \in {"none", "places", "votes", "done"}
  BY DEF RankInv
<1>5. rank'.pc = "none" => ~rank'.late
  BY <1>2
<1>6. rank'.pc \in {"places", "votes"} => \E n \in Nat : DOMAIN rank'.users = 1 .. n /\ Len(rank'.members) = n
  BY <1>2 DEF RankInv
<1>7. rank'.pc = "votes" => rank'.candidates \subseteq Places
  BY <1>2 DEF RankInv
<1>8. rank'.pc = "done" =>
          \A p \in DOMAIN rank'.rows :
             /\ p \in Places
             /\ rank'.rows[p].up + rank'.rows[p].down <= rank'.rows[p].member_count
  BY <1>2 DEF RankInv
<1>9. QED  BY <1>2, <1>3, <1>4, <1>5, <1>6, <1>7, <1>8 DEF RankInv

LEMMA NoRankIsRank == RankInv' \/ rank' # Group!NoRank
BY DEF RankInv, RankFields, Group!NoRank

LEMMA LoadMembersKeeps ==
    ASSUME RankInv, MembersInv, NEW scope, Group!LoadMembers(scope), UNCHANGED brain
    PROVE  RankInv'
<1>1. /\ rank' = [Group!NoRank EXCEPT !.pc = "places", !.scope = scope, !.users = members,
                                      !.members = Profiles]
      /\ UNCHANGED Heeded
  BY DEF Group!LoadMembers, Group!group, Profiles, brain, Heeded
<1>2. /\ RankFields \subseteq DOMAIN rank' /\ rank'.pc = "places" /\ ~rank'.late
      /\ rank'.users = members /\ rank'.members = Profiles
  BY <1>1 DEF Group!NoRank, RankFields
<1>3. \E n \in Nat : DOMAIN members = 1 .. n /\ Len(Profiles) = n
  BY DEF MembersInv, Profiles
<1>4. Profiles' = Profiles /\ members' = members
  BY <1>1, SameRanking DEF Heeded
<1>5. QED  BY <1>2, <1>3, <1>4 DEF RankInv

LEMMA LoadPlacesKeeps ==
    ASSUME RankInv, places \subseteq Places, Group!LoadPlaces, UNCHANGED brain
    PROVE  RankInv'
<1> DEFINE found == {p \in places : StayOf(p) \in rank.scope}
<1>1. /\ rank.pc = "places" /\ rank' = [rank EXCEPT !.pc = "votes", !.candidates = found]
      /\ UNCHANGED Heeded
  BY DEF Group!LoadPlaces, Group!group, brain, Heeded
<1>2. found \subseteq Places
  OBVIOUS
<1> HIDE DEF found
<1>3. /\ RankFields \subseteq DOMAIN rank' /\ rank'.pc = "votes" /\ rank'.late = rank.late
      /\ rank'.users = rank.users /\ rank'.members = rank.members
      /\ rank'.candidates = found
  BY <1>1 DEF RankInv, RankFields
<1>4. Profiles' = Profiles /\ members' = members
  BY <1>1, SameRanking DEF Heeded
<1>5. QED  BY <1>1, <1>2, <1>3, <1>4 DEF RankInv

LEMMA LoadVotesKeeps ==
    ASSUME RankInv, now \in Nat,
           Group!LoadVotesAndScore(Categories, [p \in Pois |-> Price(p)]), UNCHANGED brain
    PROVE  RankInv'
<1> DEFINE Cand(p) ==
              [poi_id |-> PoiOf(p), category |-> Categories[PoiOf(p)], tags |-> Known(p),
               price_tier |-> [q \in Pois |-> Price(q)][PoiOf(p)],
               votes |-> Group!Aligned(rank.users, votes[p])]
           cands == [p \in rank.candidates |-> Cand(p)]
           rows == Group!Ranking!scoreCandidates(rank.members, cands)
<1>1. /\ rank.pc = "votes" /\ rank' = [rank EXCEPT !.pc = "done", !.rows = rows]
      /\ UNCHANGED Heeded
  BY DEF Group!LoadVotesAndScore, Group!group, brain, Heeded
<1>2. DOMAIN cands = rank.candidates /\ \A p \in rank.candidates : cands[p] = Cand(p)
  OBVIOUS
<1> HIDE DEF cands, Cand
<1>3. /\ DOMAIN rows = rank.candidates
      /\ \A p \in rank.candidates :
            rows[p] = Group!Ranking!ScoreCandidate(rank.members, Cand(p))
  BY <1>2 DEF Group!Ranking!scoreCandidates
<1> HIDE DEF rows
<1>4. /\ RankFields \subseteq DOMAIN rank' /\ rank'.pc = "done" /\ rank'.late = rank.late
      /\ rank'.rows = rows
  BY <1>1 DEF RankInv, RankFields
<1>5. rank.candidates \subseteq Places
  BY <1>1 DEF RankInv
<1>6. PICK n \in Nat : DOMAIN rank.users = 1 .. n /\ Len(rank.members) = n
  BY <1>1 DEF RankInv
<1>7. ASSUME NEW p \in rank.candidates
      PROVE  rows[p].up + rows[p].down <= rows[p].member_count
  <2> DEFINE ballot == Group!Aligned(rank.users, votes[p])
  <2>1. DOMAIN ballot = 1 .. n
    BY <1>6 DEF Group!Aligned
  <2>2. Cand(p).votes = ballot
    BY DEF Cand
  <2> HIDE DEF ballot
  <2>3. /\ rows[p].up = Cardinality({i \in 1 .. n : ballot[i] = "up"})
        /\ rows[p].down = Cardinality({i \in 1 .. n : ballot[i] = "down"})
        /\ rows[p].member_count = n
    <3>1. /\ rows[p].up = Group!Ranking!Count(Cand(p), "up")
          /\ rows[p].down = Group!Ranking!Count(Cand(p), "down")
          /\ rows[p].member_count = n
      <4>1. rows[p] = Group!Ranking!ScoreCandidate(rank.members, Cand(p))
        BY <1>3
      <4>2. /\ rows[p].up = Group!Ranking!Count(Cand(p), "up")
            /\ rows[p].down = Group!Ranking!Count(Cand(p), "down")
            /\ rows[p].member_count = Len(rank.members)
        BY <4>1 DEF Group!Ranking!ScoreCandidate
      <4>3. QED  BY <1>6, <4>2
    <3>2. ASSUME NEW vote
          PROVE  Group!Ranking!Count(Cand(p), vote) = Cardinality({i \in 1 .. n : ballot[i] = vote})
      BY <2>1, <2>2 DEF Group!Ranking!Count, Group!Ranking!Cardinality, Cardinality
    <3>3. QED  BY <3>1, <3>2
  <2>4. QED  BY <2>3, UpOrDown
<1>8. ASSUME NEW p \in rank.candidates, ~rank.late
      PROVE  \E t \in Nat : rows[p] = RowAt(p, t)
  <2>1. rank.users = members /\ rank.members = Profiles
    BY <1>1, <1>8 DEF RankInv
  <2>2. PoiOf(p) \in Pois
    BY <1>5, CurationAssumption
  <2>3. [q \in Pois |-> Price(q)][PoiOf(p)] = PriceAt(PoiOf(p), now)
    BY <2>2 DEF Price, PriceAt, Hop
  <2>4. Cand(p) = CandidateAt(p, now)
    BY <2>1, <2>3 DEF Cand, CandidateAt
  <2>5. QED  BY <1>3, <2>1, <2>4 DEF RowAt
<1>9. \A p, t : RowAt(p, t)' = RowAt(p, t)
  BY <1>1, SameRanking
<1>10. ASSUME NEW p \in DOMAIN rank'.rows
       PROVE  /\ p \in Places
              /\ rank'.rows[p].up + rank'.rows[p].down <= rank'.rows[p].member_count
              /\ ~rank'.late => \E t \in Nat : rank'.rows[p] = RowAt(p, t)'
  <2>1. p \in rank.candidates /\ rank'.rows = rows /\ rank'.late = rank.late
    BY <1>3, <1>4
  <2>2. ~rank.late => \E t \in Nat : rows[p] = RowAt(p, t)'
    BY <1>8, <1>9, <2>1
  <2>3. QED  BY <1>5, <1>7, <2>1, <2>2
<1>11. QED  BY <1>4, <1>10 DEF RankInv

LEMMA RankKeeps ==
    ASSUME RankInv, MembersInv, FactsInv, places \subseteq Places, [Next]_vars
    PROVE  RankInv'
<1>1. ASSUME Group!Write PROVE RankInv'
  BY <1>1, WriteKeepsRank
<1>2. ASSUME UNCHANGED Heeded, rank' = rank PROVE RankInv'
  BY <1>2, HeededKeepsRank
<1>3. CASE BrainStep
  <2>1. UNCHANGED opinions
    BY <1>3 DEF BrainStep
  <2>2. CASE Group!Write
    BY <1>1, <2>2
  <2>3. CASE Cards!Reads /\ UNCHANGED rank
    <3>1. UNCHANGED Heeded
      BY <2>1, <2>3
      DEF Heeded, opinions, Cards!Reads, Cards!List, Cards!Open, Cards!Read, Cards!Answer,
          Cards!Close, Cards!world
    <3>2. QED  BY <1>2, <2>3, <3>1
  <2>4. CASE Cards!Tick /\ UNCHANGED rank
    <3>1. UNCHANGED Heeded
      BY <2>1, <2>4 DEF Heeded, opinions, Cards!Tick, Cards!world
    <3>2. QED  BY <1>2, <2>4, <3>1
  <2>5. QED  BY <1>3, <2>2, <2>3, <2>4 DEF BrainStep
<1>4. CASE GroupStep
  <2>1. UNCHANGED brain
    BY <1>4 DEF GroupStep
  <2>2. ASSUME Group!Votes PROVE RankInv'
    <3>1. ASSUME NEW r, Group!Commit(r) PROVE Group!Write
      BY <3>1 DEF Group!Commit
    <3>2. Group!Write \/ UNCHANGED <<members, taste, votes, rank>>
      BY <2>2, <3>1
      DEF Group!Votes, Group!Ask, Group!FindPlace, Group!Upsert, Group!Fail, Group!group
    <3>3. UNCHANGED <<members, taste, votes, rank>> => UNCHANGED Heeded /\ rank' = rank
      BY <2>1 DEF Heeded, brain
    <3>4. QED  BY <1>1, <1>2, <3>2, <3>3
  <2>3. ASSUME Group!Changes PROVE RankInv'
    <3>1. Group!Write
      BY <2>3
      DEF Group!Changes, Group!Join, Group!ChangeRole, Group!Leave, Group!SaveTaste,
          Group!RemoveCity, Group!EraseUser
    <3>2. QED  BY <1>1, <3>1
  <2>4. ASSUME Group!Rankings(Categories, [p \in Pois |-> Price(p)]) PROVE RankInv'
    <3>1. now \in Nat
      BY DEF FactsInv
    <3>2. ASSUME Group!Dismiss PROVE RankInv'
      BY <3>2, NoRankIsRank DEF Group!Dismiss
    <3>3. QED
      BY <2>1, <2>4, <3>1, <3>2, LoadMembersKeeps, LoadPlacesKeeps, LoadVotesKeeps
      DEF Group!Rankings
  <2>5. QED  BY <1>4, <2>2, <2>3, <2>4 DEF GroupStep
<1>5. CASE UNCHANGED vars
  <2>1. UNCHANGED Heeded /\ rank' = rank
    BY <1>5 DEF vars, brain, opinions, Heeded
  <2>2. QED  BY <1>2, <2>1
<1>6. QED  BY <1>3, <1>4, <1>5 DEF Next

LEMMA RankStart ==
    ASSUME Init
    PROVE  RankInv
<1>1. rank = Group!NoRank
  BY DEF Init, Group!Init
<1>2. QED  BY <1>1 DEF RankInv, RankFields, Group!NoRank

-----------------------------------------------------------------------------
(* Prices *)

\* The newest official report of a price, if no visitor has corrected it, is the
\* price, whichever duplicate it was about.
LEMMA NewestPrice ==
    ASSUME BrainInv, NEW p \in Pois, NEW t, NEW r \in Officials(p),
           \A s \in Officials(p) \ {r} : s.observed_at < r.observed_at /\ s.value # r.value,
           \A s \in PriceReports(p) : s.source_kind # "user_correction"
    PROVE  PriceAt(p, t) = {r.value}
<1> DEFINE theirs == {f \in facts : f.id.poi \in Cards!Group(Hop(p))}
           G == Cards!Resolver!Group(theirs, "price")
           active == Cards!Resolver!Active(G)
           official == Cards!Resolver!Official(active)
           corrected == Cards!Resolver!Corroborated(active)
           shown == Cards!Resolver!selectCardFacts(theirs, t)
<1>1. /\ said \subseteq FactRows /\ facts \subseteq said /\ IsFiniteSet(facts)
      /\ \A s \in said : \E f \in facts : f.id = s.id
  BY DEF BrainInv, FactsInv
<1>2. \A q \in Pois : q \in Cards!Group(Hop(p)) <=> Cards!HeadOf(q) = Cards!HeadOf(p)
  BY GroupIsFolded
<1>3. \A s \in said : s \in PriceReports(p) <=>
         /\ Cards!HeadOf(s.id.poi) = Cards!HeadOf(p) /\ s.attribute = "price" /\ s.status = "active"
  BY DEF PriceReports
<1>4. /\ \A s \in PriceReports(p) : s \in Officials(p) <=>
            s.source_kind \in {"official_site", "open_data"}
      /\ Officials(p) \subseteq PriceReports(p) /\ PriceReports(p) \subseteq said
  BY DEF Officials, PriceReports
<1>5. r \in facts
  <2>1. PICK f \in facts : f.id = r.id
    BY <1>1, <1>4
  <2>2. /\ f \in FactRows /\ r \in FactRows /\ f \in said
    BY <1>1, <1>4
  <2>3. /\ f.attribute = r.attribute /\ f.status = r.status /\ f.source_kind = r.source_kind
        /\ f.value = r.value
    BY <2>1, <2>2, RowShape
  <2>4. f \in Officials(p)
    BY <1>3, <1>4, <2>1, <2>2, <2>3
  <2>5. f = r
    BY <2>3, <2>4
  <2>6. QED  BY <2>5
<1>6. /\ \A f \in facts : f \in active <=>
            /\ f.id.poi \in Cards!Group(Hop(p)) /\ f.attribute = "price" /\ f.status = "active"
      /\ active \subseteq G /\ G \subseteq theirs /\ theirs \subseteq facts
      /\ \A f \in theirs : f \in G <=> f.attribute = "price"
      /\ \A f \in G : f \in active <=> f.status = "active"
  BY DEF Cards!Resolver!Active, Cards!Resolver!Group
<1>7. /\ official \subseteq active /\ corrected \subseteq active
      /\ \A f \in active : f \in official <=> f.source_kind \in {"official_site", "open_data"}
      /\ \A f \in corrected : f.source_kind = "user_correction"
  BY DEF Cards!Resolver!Official, Cards!Resolver!Corroborated, Cards!Resolver!OFFICIAL_SOURCE_KINDS
<1>8. "price" \in DOMAIN shown <=> active # {}
  <2>1. DOMAIN shown = Cards!Resolver!Shown(theirs)
    BY DEF Cards!Resolver!selectCardFacts
  <2>2. "price" \in Cards!Resolver!Shown(theirs) <=>
          \E f \in theirs : f.status = "active" /\ f.attribute = "price"
    BY DEF Cards!Resolver!Shown, Cards!Resolver!Active
  <2> HIDE DEF theirs, G, active, shown
  <2>3. QED  BY <1>6, <2>1, <2>2
<1>9. "price" \in DOMAIN shown => shown["price"].fact = Cards!Resolver!selectFact(G, "price", t).fact
  BY DEF Cards!Resolver!selectCardFacts
<1>10. Cards!Resolver!ATTRIBUTE_CLASS("price") = "operational"
  BY DEF Cards!Resolver!ATTRIBUTE_CLASS, Cards!Resolver!Operational
<1>11. (corrected = {} /\ official # {}) =>
          Cards!Resolver!selectFact(G, "price", t).fact = Cards!Resolver!Newest(official)
  BY <1>10 DEF Cards!Resolver!selectFact, Cards!Resolver!selectBase
<1>12. PriceAt(p, t) = {shown[a].fact.value : a \in {"price"} \cap DOMAIN shown}
  BY DEF PriceAt
<1> HIDE DEF theirs, G, active, official, corrected, shown
<1>13. \A f \in active : f \in PriceReports(p)
  <2> SUFFICES ASSUME NEW f \in active PROVE f \in PriceReports(p)
    OBVIOUS
  <2>1. f \in facts /\ f \in said /\ f \in FactRows
    BY <1>1, <1>6
  <2>2. f.id.poi \in Pois
    BY <2>1, RowShape
  <2>3. QED  BY <1>2, <1>3, <1>6, <2>1, <2>2
<1>14. corrected = {}
  BY <1>7, <1>13
<1>15. r \in official
  <2>1. r \in said /\ r \in FactRows /\ r \in PriceReports(p)
    BY <1>1, <1>4
  <2>2. r.id.poi \in Pois
    BY <2>1, RowShape
  <2>3. r \in active
    BY <1>2, <1>3, <1>5, <1>6, <2>1, <2>2
  <2>4. QED  BY <1>4, <1>7, <2>1, <2>3
<1>16. official \subseteq Officials(p)
  BY <1>4, <1>7, <1>13
<1>17. official \subseteq FactRows /\ IsFiniteSet(official)
  BY <1>1, <1>6, <1>7, FS_Subset
<1>18. Cards!Resolver!Newest(official) = r
  <2> DEFINE n == Cards!Resolver!Newest(official)
  <2>1. n \in official /\ \A g \in official : ~Later(g, n)
    BY <1>15, <1>17, NewestExists
  <2> HIDE DEF n
  <2>2. n.observed_at \in Nat /\ r.observed_at \in Nat
    BY <1>15, <1>17, <2>1, RowShape
  <2>3. n # r => r.observed_at > n.observed_at
    BY <1>16, <2>1, <2>2
  <2>4. ~Later(r, n)
    BY <1>15, <2>1
  <2>5. n = r
    BY <2>3, <2>4 DEF Later
  <2>6. QED  BY <2>5 DEF n
<1>19. "price" \in DOMAIN shown /\ shown["price"].fact = r
  BY <1>7, <1>8, <1>9, <1>11, <1>14, <1>15, <1>18
<1>20. QED  BY <1>12, <1>19

\* Somebody can afford least.
LEMMA LeastMeans ==
    ASSUME MembersInv, NEW u \in Group!Members
    PROVE  \E i \in DOMAIN Profiles :
              /\ \A j \in DOMAIN Profiles :
                    Group!Ranking!BUDGET_RANK[Profiles[i].budget_tier]
                      <= Group!Ranking!BUDGET_RANK[Profiles[j].budget_tier]
              /\ Group!Ranking!BUDGET_RANK[Profiles[i].budget_tier]
                   <= Group!Ranking!BUDGET_RANK[taste[u].budget_tier]
<1> DEFINE Means(i) == Group!Ranking!BUDGET_RANK[Profiles[i].budget_tier]
           S == {Means(i) : i \in DOMAIN Profiles}
<1>1. \A i \in DOMAIN Profiles : Profiles[i] \in Tastes \cup {Default}
  BY DEF Profiles, MembersInv
<1>2. \A m \in Tastes \cup {Default} : Group!Ranking!BUDGET_RANK[m.budget_tier] \in Nat
  <2>1. \A m \in Tastes \cup {Default} : m.budget_tier \in DOMAIN Group!Ranking!BUDGET_RANK
    BY PlacesAssumption
  <2>2. QED  BY <2>1 DEF Group!Ranking!BUDGET_RANK
<1>3. \A i \in DOMAIN Profiles : Means(i) \in Nat
  BY <1>1, <1>2
<1>4. PICK k \in DOMAIN members : members[k] = u /\ Profiles[k] = taste[u]
  BY ListedMember
<1>5. k \in DOMAIN Profiles /\ Means(k) = Group!Ranking!BUDGET_RANK[taste[u].budget_tier]
  BY <1>4 DEF Profiles
<1> HIDE DEF Means
<1>6. S \subseteq Nat /\ S # {}
  BY <1>3, <1>5
<1>7. PICK least \in S : \A m \in S : least <= m
  <2> HIDE DEF S
  <2>1. QED  BY <1>6, LeastMember
<1>8. PICK i \in DOMAIN Profiles : least = Means(i)
  BY <1>7
<1>9. /\ \A j \in DOMAIN Profiles : Means(i) <= Means(j)
      /\ Means(i) <= Means(k)
  BY <1>5, <1>7, <1>8
<1>10. QED  BY <1>5, <1>8, <1>9 DEF Means

\* What is dearer than anybody can afford is over the cap.
LEMMA DearIsOut ==
    ASSUME MembersInv, NEW p, NEW t, NEW u \in Group!Members,
           NEW tier \in DOMAIN Group!Ranking!BUDGET_RANK, tier \in PriceAt(PoiOf(p), t),
           Dearer(tier, taste[u].budget_tier)
    PROVE  RowAt(p, t).excluded
<1> DEFINE Means(i) == Group!Ranking!BUDGET_RANK[Profiles[i].budget_tier]
<1>1. PICK i \in DOMAIN Profiles :
         /\ \A j \in DOMAIN Profiles : Means(i) <= Means(j)
         /\ Means(i) <= Group!Ranking!BUDGET_RANK[taste[u].budget_tier]
  BY LeastMeans
<1>2. /\ Group!Ranking!BUDGET_RANK[tier] \in Nat
      /\ Means(i) \in Nat /\ Group!Ranking!BUDGET_RANK[taste[u].budget_tier] \in Nat
  <2>1. \A m \in Tastes \cup {Default} : m.budget_tier \in DOMAIN Group!Ranking!BUDGET_RANK
    BY PlacesAssumption
  <2>2. Profiles[i] \in Tastes \cup {Default} /\ taste[u] \in Tastes \cup {Default}
    BY DEF Profiles, MembersInv, Group!Members
  <2>3. QED  BY <2>1, <2>2 DEF Group!Ranking!BUDGET_RANK
<1>3. Group!Ranking!BUDGET_RANK[tier] > Means(i)
  BY <1>1, <1>2 DEF Dearer
<1>4. CandidateAt(p, t).price_tier = PriceAt(PoiOf(p), t)
  BY DEF CandidateAt
<1>5. Group!Ranking!TooDear(Profiles, CandidateAt(p, t))
  BY <1>1, <1>3, <1>4 DEF Group!Ranking!TooDear, Group!Ranking!Indices
<1>6. "budget" \in Group!Ranking!Flags(Profiles, CandidateAt(p, t))
  BY <1>5 DEF Group!Ranking!Flags
<1>7. QED  BY <1>6, RowFilters

-----------------------------------------------------------------------------
(* What a ranking says *)

CurationInv == BrainInv /\ TallyInv /\ MembersInv /\ RankInv

LEMMA HearsFromInv ==
    ASSUME CurationInv
    PROVE  Group!RankingHears(Categories)
<1> SUFFICES ASSUME rank.pc = "done", NEW p \in DOMAIN rank.rows
             PROVE  LET out == rank.rows[p]
                    IN /\ out.up + out.down <= out.member_count
                       /\ ~rank.late =>
                            /\ out.up = Group!Heard(p, "up") /\ out.down = Group!Heard(p, "down")
                            /\ out.member_count = Group!Cardinality(Group!Members)
                            /\ (\E u \in Group!Members :
                                   Categories[PoiOf(p)] \in taste[u].hard_exclusions)
                                  => out.excluded
                            /\ Group!Heard(p, "down") > 0 =>
                                  /\ "misery" \in out.flags
                                  /\ ~out.excluded =>
                                        100 * Group!Cardinality(Group!For(p, Categories[PoiOf(p)]))
                                          >= 34 * out.member_count
  BY DEF Group!RankingHears
<1> DEFINE out == rank.rows[p]
<1>1. MembersInv /\ RankInv
  BY DEF CurationInv
<1>2. out.up + out.down <= out.member_count
  BY <1>1 DEF RankInv
<1>3. CASE rank.late
  BY <1>2, <1>3
<1>4. CASE ~rank.late
  <2>1. PICK t \in Nat : out = RowAt(p, t)
    BY <1>1, <1>4 DEF RankInv
  <2>2. /\ out.up = Group!Heard(p, "up") /\ out.down = Group!Heard(p, "down")
        /\ out.member_count = Group!Cardinality(Group!Members) /\ out.member_count = Len(members)
    BY <1>1, <2>1, RowCounts
  <2>3. (\E u \in Group!Members : Categories[PoiOf(p)] \in taste[u].hard_exclusions) => out.excluded
    BY <1>1, <2>1, VetoIsHeard
  <2>4. ASSUME Group!Heard(p, "down") > 0
        PROVE  "misery" \in out.flags
    <3> DEFINE against == {u \in Group!Members : votes[p][u] = "down"}
    <3>1. Group!Heard(p, "down") = Group!Cardinality(against)
      BY DEF Group!Heard
    <3>2. Group!Cardinality({}) = 0
      BY CountNone
    <3>3. against # {}
      BY <2>4, <3>1, <3>2
    <3>4. PICK u \in Group!Members : votes[p][u] = "down"
      BY <3>3
    <3>5. QED  BY <1>1, <2>1, <3>4, DownIsMisery
  <2>5. ("misery" \in out.flags /\ ~out.excluded) =>
           100 * Group!Cardinality(Group!For(p, Categories[PoiOf(p)])) >= 34 * out.member_count
    BY <1>1, <2>1, <2>2, KeptHasThird
  <2> HIDE DEF out
  <2>6. QED  BY <1>2, <2>2, <2>3, <2>4, <2>5 DEF out
<1>5. QED  BY <1>3, <1>4

LEMMA AffordableFromInv ==
    ASSUME CurationInv
    PROVE  KeptIsAffordable
<1> SUFFICES ASSUME rank.pc = "done", ~rank.late, NEW c \in DOMAIN rank.rows,
                    NEW u \in Group!Members, NEW r \in Officials(rank.rows[c].poi_id),
                    \A s \in Officials(rank.rows[c].poi_id) \ {r} :
                       s.observed_at < r.observed_at /\ s.value # r.value,
                    \A s \in PriceReports(rank.rows[c].poi_id) : s.source_kind # "user_correction",
                    Dearer(r.value, taste[u].budget_tier)
             PROVE  rank.rows[c].excluded
  BY DEF KeptIsAffordable
<1>1. BrainInv /\ MembersInv /\ RankInv
  BY DEF CurationInv
<1>2. c \in Places /\ \E t \in Nat : rank.rows[c] = RowAt(c, t)
  BY <1>1 DEF RankInv
<1>3. PICK t \in Nat : rank.rows[c] = RowAt(c, t)
  BY <1>2
<1>4. rank.rows[c].poi_id = PoiOf(c) /\ PoiOf(c) \in Pois
  BY <1>2, <1>3, RowFilters, CurationAssumption
<1>5. PriceAt(PoiOf(c), t) = {r.value}
  BY <1>1, <1>4, NewestPrice
<1>6. r.value \in DOMAIN Group!Ranking!BUDGET_RANK
  <2>1. r \in said /\ r.attribute = "price"
    BY DEF Officials, PriceReports
  <2>2. PICK q \in Pois, draft \in Reportable, at \in Nat : r = Cards!FactRow(q, draft, at)
    BY <1>1, <2>1 DEF BrainInv, FactsInv, FactRows
  <2>3. draft.attribute = "price" /\ r.value = draft.value
    BY <2>1, <2>2 DEF Cards!FactRow
  <2>4. QED  BY <2>3, PlacesAssumption
<1>7. QED  BY <1>1, <1>3, <1>5, <1>6, DearIsOut

-----------------------------------------------------------------------------
\* All of it holds from the start and through every step.
THEOREM CurationHolds == Spec => []CurationInv
<1>1. Init => CurationInv
  BY BrainStart, TallyStart, MembersStart, RankStart DEF CurationInv
<1>2. CurationInv /\ [Next]_vars => CurationInv'
  <2> SUFFICES ASSUME CurationInv, [Next]_vars PROVE CurationInv'
    OBVIOUS
  <2>1. BrainInv /\ TallyInv /\ MembersInv /\ RankInv
    BY DEF CurationInv
  <2>2. FactsInv /\ places \subseteq Places
    BY <2>1 DEF BrainInv, TallyInv, VotesShape
  <2>3. BrainInv' /\ TallyInv' /\ MembersInv' /\ RankInv'
    BY <2>1, <2>2, BrainKeeps, TallyStep, MembersKeep, RankKeeps
  <2>4. QED  BY <2>3 DEF CurationInv
<1>3. QED  BY <1>1, <1>2, PTL DEF Spec

\* A card that no write overtook is about the place that the asked place was in the
\* end merged into, and has everything known of any place merged into that one, in
\* whatever order poiCardHandler's statements were answered.
THEOREM CardsAreWhole == Spec => []CardIsWhole
<1>1. CurationInv => CardIsWhole
  BY WholeFromInv DEF CurationInv
<1>2. QED  BY <1>1, CurationHolds, PTL

\* Such a card shows no value that the source it cites has replaced by a later
\* report, whichever of the resolver's rules chose it, unless the row of the later
\* value bears what an earlier report of it said.
THEOREM NothingReplaced == Spec => []NothingReplacedIsShown
<1>1. CurationInv => NothingReplacedIsShown
  BY ShownIsNewest DEF CurationInv
<1>2. QED  BY <1>1, CurationHolds, PTL

\* The last tally broadcast for a place is that of the votes committed, however many
\* votes, members, erasures and removals of stays overlap, unless another vote was
\* committed between that tally's count and its own commit.
THEOREM TalliesAgree == Spec => []TallyAgrees
<1>1. TallyInv => TallyAgrees
  BY DEF TallyInv, TallyAgrees, Group!TallyAgrees, Tells
<1>2. CurationInv => TallyAgrees
  BY <1>1 DEF CurationInv
<1>3. QED  BY <1>2, CurationHolds, PTL

\* A ranking counts no more votes than members; one that no write overtook counts
\* every member's vote and heeds every veto, averages no vote against away, keeps
\* what is voted against only if a third of the members are for it, and keeps
\* nothing that the newest official price makes too dear for any of them.
THEOREM RankingsHear == Spec => []RankingHears
<1>1. CurationInv => RankingHears
  BY HearsFromInv, AffordableFromInv DEF CurationInv, RankingHears
<1>2. QED  BY <1>1, CurationHolds, PTL
=============================================================================
