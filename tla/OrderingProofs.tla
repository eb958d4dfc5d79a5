--------------------------- MODULE OrderingProofs ---------------------------
(***************************************************************************)
(* Proofs about the ordered list of places: the key algorithms of          *)
(* ordering/fractional (FractionalKeys), one list changed by one request   *)
(* at a time (KeyList), and concurrent requests (PlaceOrdering).           *)
(*                                                                         *)
(* Keys.  Padded with the minimum digit, the first place where two legal   *)
(* keys differ decides both their codepoint order and the order of their   *)
(* values.  Each way of minting a key is shown to exceed its lower bound   *)
(* at such a place and to stay below its upper one; a re-keyed list        *)
(* ascends because ascending numerators give ascending quotients.          *)
(*                                                                         *)
(* Requests.  The invariant says of each request what it has the right to  *)
(* believe of the committed list: its snapshot has the rows that are still *)
(* there, in the order of those that nobody has displaced since it read    *)
(* them (OrderRead); what its rebalance wrote is in no other slot, of the  *)
(* committed list (OwnSlots) or of another open transaction (Compatible);  *)
(* a key it minted is after all it has seen (MintedLast).  None of these   *)
(* is inductive alone: a commit of one request is safe for another because *)
(* the unique index made it wait for that one's keys, and it reorders      *)
(* nothing but rows it then declares displaced.                            *)
(***************************************************************************)
EXTENDS PlaceOrdering, KeyList, PowerProofs, FiniteSetTheorems, SequenceTheorems

USE KeysAssumption

-----------------------------------------------------------------------------
(* Codepoint order *)

Words == Seq(Nat)

LEMMA BeforeIrreflexive ==
    ASSUME NEW a \in Words
    PROVE  ~Before(a, a)
BY DEF Before, Words

LEMMA WordEntries ==
    ASSUME NEW w \in Words
    PROVE  Len(w) \in Nat /\ \A m \in 1 .. Len(w) : w[m] \in Nat
BY DEF Words

LEMMA BeforeTransitive ==
    ASSUME NEW a \in Words, NEW b \in Words, NEW c \in Words, Before(a, b), Before(b, c)
    PROVE  Before(a, c)
<1>1. PICK i \in 1 .. Len(b) : /\ \A m \in 1 .. i - 1 : m <= Len(a) /\ a[m] = b[m]
                               /\ i <= Len(a) => a[i] < b[i]
  BY DEF Before
<1>2. PICK j \in 1 .. Len(c) : /\ \A m \in 1 .. j - 1 : m <= Len(b) /\ b[m] = c[m]
                               /\ j <= Len(b) => b[j] < c[j]
  BY DEF Before
<1>3. /\ Len(a) \in Nat /\ Len(b) \in Nat /\ Len(c) \in Nat
      /\ \A m \in 1 .. Len(a) : a[m] \in Nat
      /\ \A m \in 1 .. Len(b) : b[m] \in Nat
      /\ \A m \in 1 .. Len(c) : c[m] \in Nat
  BY WordEntries
<1>4. CASE i <= j
  <2>1. i \in 1 .. Len(c) /\ (i < j => b[i] = c[i]) /\ (i = j => b[i] < c[i])
    BY <1>1, <1>2, <1>3, <1>4
  <2>2. \A m \in 1 .. i - 1 : m <= Len(a) /\ a[m] = c[m]
    BY <1>1, <1>2, <1>3, <1>4
  <2>3. i <= Len(a) => a[i] < c[i]
    BY <1>1, <1>3, <1>4, <2>1
  <2>4. QED  BY <2>1, <2>2, <2>3 DEF Before
<1>5. CASE j < i
  <2>1. j <= Len(a) /\ a[j] = b[j] /\ j <= Len(b) /\ b[j] < c[j]
    BY <1>1, <1>2, <1>3, <1>5
  <2>2. \A m \in 1 .. j - 1 : m <= Len(a) /\ a[m] = c[m]
    BY <1>1, <1>2, <1>3, <1>5
  <2>3. QED  BY <2>1, <2>2 DEF Before
<1>6. QED  BY <1>4, <1>5, <1>3

LEMMA BeforeTotal ==
    ASSUME NEW a \in Words, NEW b \in Words, a # b
    PROVE  Before(a, b) \/ Before(b, a)
<1> DEFINE Differs == {i \in Nat : /\ i >= 1 /\ (i <= Len(a) \/ i <= Len(b))
                                   /\ i <= Len(a) /\ i <= Len(b) => a[i] # b[i]}
<1>0. /\ Len(a) \in Nat /\ Len(b) \in Nat
      /\ \A m \in 1 .. Len(a) : a[m] \in Nat
      /\ \A m \in 1 .. Len(b) : b[m] \in Nat
  BY DEF Words
<1>1. Differs # {}
  <2> SUFFICES ASSUME Differs = {} PROVE FALSE
    OBVIOUS
  <2>1. Len(a) = Len(b)
    <3>1. Len(a) + 1 \notin Differs /\ Len(b) + 1 \notin Differs
      OBVIOUS
    <3>2. QED  BY <1>0, <3>1
  <2>2. \A i \in 1 .. Len(a) : a[i] = b[i]
    <3>1. ASSUME NEW i \in 1 .. Len(a) PROVE a[i] = b[i]
      <4>1. i \notin Differs  OBVIOUS
      <4>2. QED  BY <1>0, <2>1, <4>1
    <3>2. QED  BY <3>1
  <2>3. QED  BY <2>1, <2>2, SeqEqual DEF Words
<1>2. PICK n \in Differs : \A m \in Differs : n <= m
  <2>1. Differs \subseteq Nat  OBVIOUS
  <2> HIDE DEF Differs
  <2>2. QED  BY <1>1, <2>1, LeastMember
<1>3. \A m \in 1 .. n - 1 : m <= Len(a) /\ m <= Len(b) /\ a[m] = b[m]
  <2>1. ASSUME NEW m \in 1 .. n - 1 PROVE m <= Len(a) /\ m <= Len(b) /\ a[m] = b[m]
    <3>1. m \notin Differs  BY <1>2
    <3>2. m \in Nat /\ m < n /\ m >= 1  OBVIOUS
    <3>3. n <= Len(a) \/ n <= Len(b)  OBVIOUS
    <3>4. QED  BY <1>0, <3>1, <3>2, <3>3
  <2>2. QED  BY <2>1
<1>4. CASE n > Len(a)
  <2>1. n \in 1 .. Len(b) /\ ~(n <= Len(a))
    BY <1>0, <1>4
  <2>2. QED  BY <1>3, <2>1 DEF Before
<1>5. CASE n > Len(b)
  <2>1. n \in 1 .. Len(a) /\ ~(n <= Len(b))
    BY <1>0, <1>5
  <2>2. QED  BY <1>3, <2>1 DEF Before
<1>6. CASE n <= Len(a) /\ n <= Len(b)
  <2>1. a[n] < b[n] \/ b[n] < a[n]
    BY <1>0, <1>6
  <2>2. n \in 1 .. Len(a) /\ n \in 1 .. Len(b)
    BY <1>6
  <2>3. QED  BY <1>3, <2>1, <2>2 DEF Before
<1>7. QED  BY <1>0, <1>4, <1>5, <1>6

LEMMA BeforeAsymmetric ==
    ASSUME NEW a \in Words, NEW b \in Words, Before(a, b)
    PROVE  ~Before(b, a) /\ a # b
BY BeforeTransitive, BeforeIrreflexive

\* Whatever follows a key lengthens it to a later one.
LEMMA LongerIsLater ==
    ASSUME NEW a \in Words, NEW s \in Words, s # <<>>
    PROVE  a \o s \in Words /\ Before(a, a \o s)
<1>1. a \o s \in Words /\ Len(a \o s) = Len(a) + Len(s) /\ Len(s) > 0 /\ Len(a) \in Nat
  BY DEF Words
<1>2. \A j \in 1 .. Len(a) : a[j] = (a \o s)[j]
  BY DEF Words
<1>3. Len(a) + 1 \in 1 .. Len(a \o s)
  BY <1>1
<1>4. QED  BY <1>1, <1>2, <1>3 DEF Before

\* A finite set of keys has a last one.
LEMMA LastMember ==
    ASSUME NEW S, S \subseteq Words, IsFiniteSet(S), S # {}
    PROVE  \E k \in S : \A l \in S : l = k \/ Before(l, k)
<1> DEFINE HasLast(T) == \E k \in T : \A l \in T : l = k \/ Before(l, k)
           Good == {n \in Nat : \A T \in SUBSET S : Cardinality(T) = n + 1 => HasLast(T)}
<1>1. 0 \in Good
  <2>1. ASSUME NEW T \in SUBSET S, Cardinality(T) = 0 + 1 PROVE HasLast(T)
    <3>1. IsFiniteSet(T) /\ Cardinality(T) = 1
      BY <2>1, FS_Subset
    <3>2. \E x : T = {x}
      BY <3>1, FS_Singleton
    <3>3. QED  BY <3>2
  <2>2. QED  BY <2>1
<1>2. ASSUME NEW n \in Good PROVE n + 1 \in Good
  <2>1. ASSUME NEW T \in SUBSET S, Cardinality(T) = (n + 1) + 1 PROVE HasLast(T)
    <3>1. IsFiniteSet(T) /\ T # {}
      BY <2>1, FS_Subset, FS_EmptySet
    <3>2. PICK x \in T : TRUE
      BY <3>1
    <3>3. Cardinality(T \ {x}) = n + 1
      <4>1. Cardinality(T \ {x}) = Cardinality(T) - 1
        BY <3>1, <3>2, FS_RemoveElement
      <4>2. QED  BY <2>1, <4>1
    <3>4. HasLast(T \ {x})
      BY <3>3
    <3>5. PICK k \in T \ {x} : \A l \in T \ {x} : l = k \/ Before(l, k)
      BY <3>4
    <3>6. k \in Words /\ x \in Words /\ k # x
      OBVIOUS
    <3>7. CASE Before(x, k)
      BY <3>5, <3>7
    <3>8. CASE Before(k, x)
      <4>1. \A l \in T : l = x \/ Before(l, x)
        <5>1. ASSUME NEW l \in T, l # x PROVE Before(l, x)
          <6>1. l = k \/ Before(l, k)
            BY <3>5, <5>1
          <6>2. l \in Words  OBVIOUS
          <6>3. QED  BY <3>6, <3>8, <6>1, <6>2, BeforeTransitive
        <5>2. QED  BY <5>1
      <4>2. QED  BY <4>1, <3>2
    <3>9. QED  BY <3>6, <3>7, <3>8, BeforeTotal
  <2>2. QED  BY <2>1
<1>3. Good = Nat
  <2>1. Good \subseteq Nat  OBVIOUS
  <2> HIDE DEF Good
  <2>2. QED  BY <1>1, <1>2, <2>1, SetInduction
<1>4. Cardinality(S) \in Nat /\ Cardinality(S) # 0
  BY FS_CardinalityType, FS_EmptySet
<1>5. Cardinality(S) - 1 \in Good /\ Cardinality(S) = (Cardinality(S) - 1) + 1
  BY <1>3, <1>4
<1>6. HasLast(S)
  BY <1>5
<1>7. QED  BY <1>6

-----------------------------------------------------------------------------
(* Legal keys *)

Keys == {k \in Seq(Digits) : IsValidKey(k)}
Bounds == Keys \cup {<<>>}

LEMMA BoundsAreWords ==
    /\ Seq(Digits) \subseteq Words
    /\ Bounds \subseteq Seq(Digits)
    /\ \A a \in Seq(Digits) : /\ Len(a) \in Nat /\ DOMAIN a = 1 .. Len(a)
                              /\ \A i \in 1 .. Len(a) : a[i] \in Digits
<1>1. Digits \subseteq Nat
  BY DEF Digits
<1>2. Seq(Digits) \subseteq Words
  BY <1>1, SeqMonotonic DEF Words
<1>3. Bounds \subseteq Seq(Digits)
  BY EmptySeq DEF Bounds, Keys
<1>4. ASSUME NEW a \in Seq(Digits)
      PROVE  /\ Len(a) \in Nat /\ DOMAIN a = 1 .. Len(a)
             /\ \A i \in 1 .. Len(a) : a[i] \in Digits
  BY LenProperties, ElementOfSeq
<1>5. QED  BY <1>2, <1>3, <1>4

LEMMA DigitIsDigit ==
    ASSUME NEW a \in Seq(Digits), NEW i \in Nat \ {0}
    PROVE  DigitAt(a, i) \in Digits
<1>1. 0 \in Digits
  BY DEF Digits
<1>2. QED  BY <1>1, BoundsAreWords DEF DigitAt

\* The digits of a, padded, are those of k before place n + 1, and smaller there.
Exceeds(k, a, n) ==
    /\ n \in Nat /\ n < Len(k)
    /\ \A j \in 1 .. n : DigitAt(a, j) = k[j]
    /\ DigitAt(a, n + 1) < k[n + 1]

\* Padding with the minimum digit decides nothing.
LEMMA ExceedsIsLater ==
    ASSUME NEW a \in Words, NEW k \in Words, NEW n, Exceeds(k, a, n)
    PROVE  Before(a, k)
<1>0. Len(a) \in Nat /\ Len(k) \in Nat /\ n \in Nat
  BY DEF Words, Exceeds
<1>1. CASE n <= Len(a)
  <2>1. n + 1 \in 1 .. Len(k)
    BY <1>0 DEF Exceeds
  <2>2. \A j \in 1 .. (n + 1) - 1 : j <= Len(a) /\ a[j] = k[j]
    BY <1>0, <1>1 DEF Exceeds, DigitAt
  <2>3. n + 1 <= Len(a) => a[n + 1] < k[n + 1]
    BY DEF Exceeds, DigitAt
  <2>4. QED  BY <2>1, <2>2, <2>3 DEF Before
<1>2. CASE Len(a) < n
  <2>1. Len(a) + 1 \in 1 .. Len(k) /\ ~(Len(a) + 1 <= Len(a))
    BY <1>0, <1>2 DEF Exceeds
  <2>2. \A j \in 1 .. (Len(a) + 1) - 1 : j <= Len(a) /\ a[j] = k[j]
    BY <1>0, <1>2 DEF Exceeds, DigitAt
  <2>3. QED  BY <2>1, <2>2 DEF Before
<1>3. QED  BY <1>0, <1>1, <1>2

\* The middle digit, where there is room for one.
LEMMA MiddleIsBetween ==
    ASSUME NEW d \in Nat, NEW e \in Nat, e - d > 1
    PROVE  MiddleDigit(d, e) \in Nat /\ d < MiddleDigit(d, e) /\ MiddleDigit(d, e) < e
BY DEF MiddleDigit

-----------------------------------------------------------------------------
(* keyAfter and jitter *)

LEMMA LeadingDigits ==
    ASSUME NEW a \in Seq(Digits)
    PROVE  \E i \in 0 .. Len(a) : /\ \A j \in 1 .. i : a[j] = Base - 1
                                  /\ i < Len(a) => a[i + 1] # Base - 1
<1> DEFINE Stops == {i \in Nat : i <= Len(a) /\ (i < Len(a) => a[i + 1] # Base - 1)}
<1>0. Len(a) \in Nat  BY BoundsAreWords
<1>1. Len(a) \in Stops  BY <1>0
<1>2. PICK n \in Stops : \A m \in Stops : n <= m
  <2>1. Stops \subseteq Nat  OBVIOUS
  <2> HIDE DEF Stops
  <2>2. QED  BY <1>1, <2>1, LeastMember
<1>3. ASSUME NEW j \in 1 .. n PROVE a[j] = Base - 1
  <2>1. j - 1 \in Nat /\ ~(n <= j - 1)
    OBVIOUS
  <2>2. j - 1 \notin Stops
    BY <1>2, <2>1
  <2>3. QED  BY <1>0, <2>1, <2>2
<1>4. QED  BY <1>0, <1>2, <1>3

LEMMA KeyAfterExceeds ==
    ASSUME NEW a \in Seq(Digits)
    PROVE  /\ KeyAfter(a) \in Keys
           /\ \E n \in 0 .. Len(a) : Len(KeyAfter(a)) = n + 1 /\ Exceeds(KeyAfter(a), a, n)
<1> DEFINE Stops(i) == /\ \A j \in 1 .. i : a[j] = Base - 1
                       /\ i < Len(a) => a[i + 1] # Base - 1
           n == CHOOSE i \in 0 .. Len(a) : Stops(i)
           d == DigitAt(a, n + 1)
           mid == MiddleDigit(d, Base)
           k == Append(Prefix(a, n), mid)
<1>1. n \in 0 .. Len(a) /\ Stops(n)
  BY LeadingDigits
<1>2. KeyAfter(a) = k
  BY DEF KeyAfter
<1> HIDE DEF n
<1>3. d \in Nat /\ Base - d > 1
  <2>1. d \in Digits
    BY <1>1, BoundsAreWords, DigitIsDigit
  <2>2. d # Base - 1
    BY <1>1, BoundsAreWords DEF DigitAt
  <2>3. QED  BY <2>1, <2>2 DEF Digits
<1>4. mid \in Digits /\ d < mid /\ mid # 0
  <2>1. mid \in Nat /\ d < mid /\ mid < Base
    BY <1>3, MiddleIsBetween
  <2>2. QED  BY <1>3, <2>1 DEF Digits
<1> HIDE DEF mid
<1>5. /\ Prefix(a, n) \in Seq(Digits) /\ Len(Prefix(a, n)) = n
      /\ \A j \in 1 .. n : Prefix(a, n)[j] = a[j]
  <2>1. \A j \in 1 .. n : a[j] \in Digits
    BY <1>1, BoundsAreWords
  <2>2. n \in Nat
    BY <1>1, BoundsAreWords
  <2>3. QED  BY <2>1, <2>2, SubSeqProperties DEF Prefix
<1>6. /\ k \in Seq(Digits) /\ Len(k) = n + 1 /\ k # <<>>
      /\ \A j \in 1 .. n : k[j] = a[j]
      /\ k[n + 1] = mid
  BY <1>4, <1>5, AppendProperties
<1>7. k \in Keys
  BY <1>4, <1>6, BoundsAreWords DEF Keys, IsValidKey
<1>8. Exceeds(k, a, n)
  <2>1. \A j \in 1 .. n : DigitAt(a, j) = k[j]
    BY <1>1, <1>6, BoundsAreWords DEF DigitAt
  <2>2. n \in Nat /\ n < Len(k)
    BY <1>1, <1>6, BoundsAreWords
  <2>3. QED  BY <1>4, <1>6, <2>1, <2>2 DEF Exceeds
<1>9. QED  BY <1>1, <1>2, <1>6, <1>7, <1>8

LEMMA KeyAfterIsLater ==
    ASSUME NEW a \in Bounds
    PROVE  KeyAfter(a) \in Keys /\ Before(a, KeyAfter(a)) /\ Len(KeyAfter(a)) <= Len(a) + 1
<1>1. a \in Seq(Digits) /\ a \in Words /\ Len(a) \in Nat
  BY BoundsAreWords
<1>2. KeyAfter(a) \in Keys
  BY <1>1, KeyAfterExceeds
<1>3. PICK n \in 0 .. Len(a) : Len(KeyAfter(a)) = n + 1 /\ Exceeds(KeyAfter(a), a, n)
  BY <1>1, KeyAfterExceeds
<1>4. KeyAfter(a) \in Words
  BY <1>2, BoundsAreWords DEF Keys
<1>5. QED  BY <1>1, <1>2, <1>3, <1>4, ExceedsIsLater

LEMMA DigitAppended ==
    ASSUME NEW k \in Seq(Digits), NEW l \in Lengthened(k)
    PROVE  l \in Keys /\ Before(k, l) /\ Len(l) = Len(k) + 1
<1>1. PICK d \in JitterDigits : l = Append(k, d)
  BY DEF Lengthened
<1>2. d \in Digits /\ d # 0
  BY DEF Digits
<1>3. /\ l \in Seq(Digits) /\ l # <<>> /\ Len(l) = Len(k) + 1
      /\ \A i \in 1 .. Len(k) : l[i] = k[i]
      /\ l[Len(k) + 1] = d
  BY <1>1, <1>2, AppendProperties
<1>4. l \in Keys
  BY <1>2, <1>3, BoundsAreWords DEF Keys, IsValidKey
<1>5. Before(k, l)
  <2>1. Len(k) \in Nat  BY BoundsAreWords
  <2>2. Len(k) + 1 \in 1 .. Len(l) /\ ~(Len(k) + 1 <= Len(k))
    BY <1>3, <2>1
  <2>3. \A j \in 1 .. (Len(k) + 1) - 1 : j <= Len(k) /\ k[j] = l[j]
    BY <1>3, <2>1
  <2>4. QED  BY <2>2, <2>3 DEF Before
<1>6. QED  BY <1>3, <1>4, <1>5

\* A jittered key is a legal key after the one it lengthens.
LEMMA JitterIsLater ==
    ASSUME NEW k \in Keys, NEW j \in Jitter(k)
    PROVE  j \in Keys /\ Before(k, j) /\ Len(j) <= Len(k) + 2
<1>0. k \in Seq(Digits) /\ Len(k) \in Nat
  BY BoundsAreWords DEF Keys
<1>1. CASE j \in Lengthened(k)
  BY <1>0, <1>1, DigitAppended
<1>2. ASSUME NEW l \in Lengthened(k), j \in Lengthened(l)
      PROVE  j \in Keys /\ Before(k, j) /\ Len(j) <= Len(k) + 2
  <2>1. l \in Keys /\ Before(k, l) /\ Len(l) = Len(k) + 1
    BY <1>0, DigitAppended
  <2>2. l \in Seq(Digits)
    BY <2>1 DEF Keys
  <2>3. j \in Keys /\ Before(l, j) /\ Len(j) = Len(l) + 1
    BY <1>2, <2>2, DigitAppended
  <2>4. k \in Words /\ l \in Words /\ j \in Words
    BY <2>1, <2>3, BoundsAreWords DEF Keys
  <2>5. Before(k, j)
    BY <2>1, <2>3, <2>4, BeforeTransitive
  <2>6. QED  BY <1>0, <2>1, <2>3, <2>5
<1>3. QED  BY <1>1, <1>2 DEF Jitter

-----------------------------------------------------------------------------
(* Division *)

LEMMA Quotient ==
    ASSUME NEW a \in Nat, NEW b \in Nat \ {0}
    PROVE  /\ a \div b \in Nat
           /\ (a \div b) * b <= a /\ a < (a \div b + 1) * b
OBVIOUS

LEMMA QuotientIsUnique ==
    ASSUME NEW a \in Nat, NEW b \in Nat \ {0}, NEW q \in Nat, q * b <= a, a < (q + 1) * b
    PROVE  a \div b = q
OBVIOUS

LEMMA RemainderIsDigit ==
    ASSUME NEW a \in Nat, NEW b \in Nat \ {0}
    PROVE  a % b \in 0 .. b - 1
OBVIOUS

LEMMA SmallerRemainder ==
    ASSUME NEW a \in Nat, NEW c \in Nat, NEW b \in Nat \ {0}, a \div b = c \div b, a < c
    PROVE  a % b < c % b
OBVIOUS

LEMMA ProductMonotone ==
    ASSUME NEW a \in Nat, NEW b \in Nat, NEW c \in Nat, a <= b
    PROVE  a * c <= b * c
OBVIOUS

LEMMA QuotientBelow ==
    ASSUME NEW a \in Nat, NEW b \in Nat \ {0}, NEW c \in Nat, a < c * b
    PROVE  a \div b < c
<1>1. (a \div b) \in Nat /\ (a \div b) * b < c * b
  BY Quotient
<1>2. QED  BY <1>1, ProductMonotone

LEMMA QuotientMonotone ==
    ASSUME NEW a \in Nat, NEW c \in Nat, NEW b \in Nat \ {0}, a <= c
    PROVE  a \div b <= c \div b
<1>1. (a \div b) \in Nat /\ (c \div b) \in Nat
  BY Quotient
<1>2. (a \div b) * b <= c /\ c < (c \div b + 1) * b
  BY Quotient
<1>3. (a \div b) * b < (c \div b + 1) * b
  BY <1>1, <1>2
<1>4. QED  BY <1>1, <1>3, ProductMonotone

LEMMA QuotientGrows ==
    ASSUME NEW a \in Nat, NEW c \in Nat, NEW b \in Nat \ {0}, a + b <= c
    PROVE  a \div b < c \div b
<1>1. a \div b \in Nat /\ c \div b \in Nat
  BY Quotient
<1>2. (a \div b) * b + b <= c /\ c < (c \div b + 1) * b
  BY Quotient
<1>3. (a \div b + 1) * b < (c \div b + 1) * b
  BY <1>1, <1>2
<1>4. QED  BY <1>1, <1>3, ProductMonotone

LEMMA NestedQuotient ==
    ASSUME NEW a \in Nat, NEW b \in Nat \ {0}, NEW c \in Nat \ {0}
    PROVE  a \div (b * c) = (a \div c) \div b
<1> DEFINE q == a \div c
           p == q \div b
<1>1. q \in Nat /\ q * c <= a /\ a < (q + 1) * c
  BY Quotient
<1> HIDE DEF q
<1>2. p \in Nat /\ p * b <= q /\ q < (p + 1) * b
  BY <1>1, Quotient
<1> HIDE DEF p
<1>3. (p * b) * c <= q * c /\ (q + 1) * c <= ((p + 1) * b) * c
  BY <1>1, <1>2, ProductMonotone
<1>4. p * (b * c) <= a /\ a < (p + 1) * (b * c)
  <2>1. (p * b) * c = p * (b * c) /\ ((p + 1) * b) * c = (p + 1) * (b * c)
    BY <1>2
  <2>2. QED  BY <1>1, <1>2, <1>3, <2>1
<1>5. b * c \in Nat \ {0}
  OBVIOUS
<1>6. a \div (b * c) = p
  BY <1>2, <1>4, <1>5, QuotientIsUnique
<1>7. QED  BY <1>6 DEF p, q

-----------------------------------------------------------------------------
(* The digits of a number *)

Spelled(v, m) == [k \in 1 .. m |-> (v \div Power(Base)[m - k]) % Base]

LEMMA PowersOfBase ==
    /\ Power(Base) \in [Nat -> Nat]
    /\ Power(Base)[0] = 1
    /\ \A n \in Nat : Power(Base)[n] \in Nat \ {0}
    /\ \A n \in Nat : Power(Base)[n + 1] = Base * Power(Base)[n]
    /\ \A n \in Nat : Power(Base)[n] >= n + 1
<1>1. /\ Power(Base) \in [Nat -> Nat]
      /\ Power(Base)[0] = 1
      /\ \A n \in Nat : Power(Base)[n + 1] = Base * Power(Base)[n]
  BY PowerEquations
<1>2. \A n \in Nat : Power(Base)[n] >= n + 1
  BY PowerGrows
<1>3. \A n \in Nat : Power(Base)[n] \in Nat \ {0}
  <2>1. \A n \in Nat : Power(Base)[n] \in Nat
    BY <1>1
  <2>2. QED  BY <1>2, <2>1
<1>4. QED  BY <1>1, <1>2, <1>3

LEMMA SpelledIsWord ==
    ASSUME NEW v \in Nat, NEW m \in Nat
    PROVE  Spelled(v, m) \in Seq(Digits) /\ Len(Spelled(v, m)) = m
<1>1. ASSUME NEW k \in 1 .. m PROVE (v \div Power(Base)[m - k]) % Base \in Digits
  <2>1. Power(Base)[m - k] \in Nat \ {0}
    BY PowersOfBase
  <2>2. v \div Power(Base)[m - k] \in Nat /\ Base \in Nat \ {0}
    BY <2>1, Quotient
  <2>3. QED  BY <2>2, RemainderIsDigit DEF Digits
<1>2. Spelled(v, m) \in [1 .. m -> Digits]
  BY <1>1 DEF Spelled
<1>3. Spelled(v, m) \in Seq(Digits)
  BY <1>2, SeqDef
<1>4. Len(Spelled(v, m)) = m
  BY <1>2, <1>3, LenProperties
<1>5. QED  BY <1>3, <1>4

\* The digits of a larger number are first larger where they first differ.
LEMMA SpelledAscends ==
    ASSUME NEW m \in Nat, NEW v \in Nat, NEW w \in Nat, v < w, w < Power(Base)[m]
    PROVE  \E k \in 1 .. m : /\ \A j \in 1 .. k - 1 : Spelled(v, m)[j] = Spelled(w, m)[j]
                             /\ Spelled(v, m)[k] < Spelled(w, m)[k]
<1> DEFINE head(x, k) == x \div Power(Base)[m - k]
           Differs == {k \in Nat : k <= m /\ head(v, k) # head(w, k)}
<1>1. m \in Differs
  <2>1. m - m = 0 /\ Power(Base)[0] = 1
    BY PowersOfBase
  <2>2. head(v, m) = v /\ head(w, m) = w
    BY <2>1, QuotientIsUnique
  <2>3. QED  BY <2>2
<1>2. PICK k \in Differs : \A j \in Differs : k <= j
  <2>1. Differs \subseteq Nat  OBVIOUS
  <2> HIDE DEF Differs
  <2>2. QED  BY <1>1, <2>1, LeastMember
<1>3. k # 0
  <2>1. head(v, 0) = 0 /\ head(w, 0) = 0
    <3>1. Power(Base)[m] \in Nat \ {0} /\ m - 0 = m
      BY PowersOfBase
    <3>2. v < Power(Base)[m]
      BY <3>1
    <3>3. QED  BY <3>1, <3>2, QuotientIsUnique
  <2>2. QED  BY <2>1
<1>4. k \in 1 .. m
  BY <1>3
<1>5. \A j \in 0 .. k - 1 : head(v, j) = head(w, j)
  <2>1. ASSUME NEW j \in 0 .. k - 1 PROVE head(v, j) = head(w, j)
    <3>1. j \notin Differs
      <4>1. j \in Nat /\ ~(k <= j)  OBVIOUS
      <4>2. QED  BY <1>2, <4>1
    <3>2. QED  BY <1>4, <3>1
  <2>2. QED  BY <2>1
<1>6. head(v, k) \in Nat /\ head(w, k) \in Nat /\ head(v, k) < head(w, k)
  <2>1. Power(Base)[m - k] \in Nat \ {0}
    BY <1>4, PowersOfBase
  <2>2. head(v, k) <= head(w, k) /\ head(v, k) \in Nat /\ head(w, k) \in Nat
    BY <2>1, Quotient, QuotientMonotone
  <2>3. QED  BY <2>2
<1>7. head(v, k) \div Base = head(w, k) \div Base
  <2>1. ASSUME NEW x \in Nat PROVE head(x, k) \div Base = head(x, k - 1)
    <3>1. m - k \in Nat /\ m - (k - 1) = (m - k) + 1
      BY <1>4
    <3>2. Power(Base)[m - (k - 1)] = Base * Power(Base)[m - k]
      BY <3>1, PowersOfBase
    <3>3. Power(Base)[m - k] \in Nat \ {0} /\ Base \in Nat \ {0}
      BY <3>1, PowersOfBase
    <3>4. QED  BY <3>2, <3>3, NestedQuotient
  <2>2. k - 1 \in 0 .. k - 1
    BY <1>4
  <2>3. QED  BY <1>5, <2>1, <2>2
<1>8. head(v, k) % Base < head(w, k) % Base
  BY <1>6, <1>7, SmallerRemainder
<1>9. \A j \in 1 .. k - 1 : Spelled(v, m)[j] = Spelled(w, m)[j]
  BY <1>4, <1>5 DEF Spelled
<1>10. QED  BY <1>4, <1>8, <1>9 DEF Spelled

-----------------------------------------------------------------------------
(* stripTrailingZeros *)

LEMMA StripKeepsDigits ==
    ASSUME NEW s \in Seq(Digits)
    PROVE  LET t == StripTrailingZeros(s)
           IN  /\ t \in Seq(Digits) /\ Len(t) <= Len(s)
               /\ \A i \in 1 .. Len(s) : DigitAt(t, i) = s[i]
               /\ (\E i \in 1 .. Len(s) : s[i] # 0) => t \in Keys
<1> DEFINE Zeros(n) == \A j \in n + 1 .. Len(s) : s[j] = 0
           n == CHOOSE i \in 0 .. Len(s) : (i > 0 => s[i] # 0) /\ Zeros(i)
           t == Prefix(s, n)
<1>0. Len(s) \in Nat /\ \A i \in 1 .. Len(s) : s[i] \in Digits
  BY BoundsAreWords
<1>1. \E i \in 0 .. Len(s) : (i > 0 => s[i] # 0) /\ Zeros(i)
  <2> DEFINE Stops == {i \in Nat : i <= Len(s) /\ Zeros(i)}
  <2>1. Len(s) \in Stops
    BY <1>0
  <2>2. PICK i \in Stops : \A j \in Stops : i <= j
    <3>1. Stops \subseteq Nat  OBVIOUS
    <3> HIDE DEF Stops
    <3>2. QED  BY <2>1, <3>1, LeastMember
  <2>3. ASSUME i > 0, s[i] = 0 PROVE FALSE
    <3>1. i - 1 \in Nat /\ i - 1 <= Len(s) /\ ~(i <= i - 1)
      BY <1>0, <2>3
    <3>2. Zeros(i - 1)
      BY <1>0, <2>3
    <3>3. QED  BY <2>2, <3>1, <3>2
  <2>4. QED  BY <1>0, <2>2, <2>3
<1>2. n \in 0 .. Len(s) /\ (n > 0 => s[n] # 0) /\ Zeros(n)
  BY <1>1
<1>3. StripTrailingZeros(s) = t
  BY DEF StripTrailingZeros
<1> HIDE DEF n
<1>4. t \in Seq(Digits) /\ Len(t) = n /\ \A j \in 1 .. n : t[j] = s[j]
  <2>1. \A j \in 1 .. n : s[j] \in Digits
    BY <1>0, <1>2
  <2>2. n \in Nat
    BY <1>0, <1>2
  <2>3. QED  BY <2>1, <2>2, SubSeqProperties DEF Prefix
<1> HIDE DEF t
<1>5. \A i \in 1 .. Len(s) : DigitAt(t, i) = s[i]
  BY <1>0, <1>2, <1>4 DEF DigitAt
<1>6. ASSUME NEW i \in 1 .. Len(s), s[i] # 0 PROVE t \in Keys
  <2>1. n > 0
    BY <1>0, <1>2, <1>6
  <2>2. n \in 1 .. n /\ t[Len(t)] # 0
    BY <1>0, <1>2, <1>4, <2>1
  <2>3. t # <<>>
    BY <1>4, <2>1, EmptySeq
  <2>4. QED  BY <1>4, <2>2, <2>3, BoundsAreWords DEF Keys, IsValidKey
<1>7. QED  BY <1>0, <1>2, <1>3, <1>4, <1>5, <1>6

-----------------------------------------------------------------------------
(* rebalanceKeys *)

LEMMA WidthIsEnough ==
    ASSUME NEW count \in Nat \ {0}
    PROVE  /\ RebalanceWidth(count) \in 2 .. count + 1
           /\ Power(Base)[RebalanceWidth(count)] >= count + 1
<1> DEFINE Enough(m) == /\ Power(Base)[m] >= count + 1
                        /\ \A j \in 1 .. m - 1 : Power(Base)[j] < count + 1
           width == CHOOSE m \in 1 .. count : Enough(m)
<1>1. \E m \in 1 .. count : Enough(m)
  <2> DEFINE Wide == {m \in Nat : m >= 1 /\ Power(Base)[m] >= count + 1}
  <2>1. count \in Wide
    BY PowersOfBase
  <2>2. PICK m \in Wide : \A j \in Wide : m <= j
    <3>1. Wide \subseteq Nat  OBVIOUS
    <3> HIDE DEF Wide
    <3>2. QED  BY <2>1, <3>1, LeastMember
  <2>3. ASSUME NEW j \in 1 .. m - 1 PROVE Power(Base)[j] < count + 1
    <3>1. j \in Nat /\ j >= 1 /\ ~(m <= j)
      OBVIOUS
    <3>2. j \notin Wide
      BY <2>2, <3>1
    <3>3. QED  BY <3>1, <3>2, PowersOfBase
  <2>4. QED  BY <2>1, <2>2, <2>3
<1>2. width \in 1 .. count /\ Enough(width)
  BY <1>1
<1>3. RebalanceWidth(count) = 1 + width
  BY DEF RebalanceWidth
<1> HIDE DEF width
<1>4. Power(Base)[width + 1] = Base * Power(Base)[width] /\ Power(Base)[width] \in Nat
  BY <1>2, PowersOfBase
<1>5. Base * Power(Base)[width] >= Power(Base)[width]
  BY <1>4
<1>6. QED  BY <1>2, <1>3, <1>4, <1>5

\* rebalanceKeys makes as many legal keys as it is asked for, in ascending order.
THEOREM RebalancedKeys ==
    ASSUME NEW count \in Nat \ {0}
    PROVE  /\ RebalanceKeys(count) \in [1 .. count -> Keys]
           /\ \A i, j \in 1 .. count :
                 i < j => Before(RebalanceKeys(count)[i], RebalanceKeys(count)[j])
           /\ \A i \in 1 .. count :
                 Len(RebalanceKeys(count)[i]) <= RebalanceWidth(count)
<1> DEFINE m == RebalanceWidth(count)
           cap == Power(Base)[m]
           value(i) == (i * cap) \div (count + 1)
           key(i) == StripTrailingZeros(Spelled(value(i), m))
<1>1. RebalanceKeys(count) = [i \in 1 .. count |-> key(i)]
  BY DEF RebalanceKeys, Spelled
<1>2. m \in Nat /\ cap \in Nat /\ cap >= count + 1
  BY WidthIsEnough, PowersOfBase
<1> HIDE DEF m
<1> HIDE DEF cap
<1>3. ASSUME NEW i \in 1 .. count
      PROVE  value(i) \in Nat /\ 0 < value(i) /\ value(i) < cap
  <2>1. i * cap \in Nat /\ count + 1 \in Nat \ {0}
    BY <1>2
  <2>2. 1 * cap <= i * cap
    BY <1>2, ProductMonotone
  <2>3. 0 + (count + 1) <= i * cap
    BY <1>2, <2>1, <2>2
  <2>4. 0 \div (count + 1) < value(i)
    BY <2>1, <2>3, QuotientGrows
  <2>5. 0 \div (count + 1) \in Nat /\ value(i) \in Nat
    BY <2>1, Quotient
  <2>6. i * cap < cap * (count + 1)
    <3>1. i * cap <= count * cap
      BY <1>2, ProductMonotone
    <3>2. count * cap + cap = cap * (count + 1)
      BY <1>2
    <3>3. QED  BY <1>2, <2>1, <3>1, <3>2
  <2>7. value(i) < cap
    BY <1>2, <2>1, <2>6, QuotientBelow
  <2>8. QED  BY <2>4, <2>5, <2>7
<1>4. ASSUME NEW i \in 1 .. count, NEW j \in 1 .. count, i < j
      PROVE  value(i) < value(j)
  <2>1. i * cap \in Nat /\ j * cap \in Nat /\ count + 1 \in Nat \ {0}
    BY <1>2
  <2>2. (i + 1) * cap <= j * cap
    BY <1>2, <1>4, ProductMonotone
  <2>3. (i + 1) * cap = i * cap + cap
    BY <1>2
  <2>4. i * cap + (count + 1) <= j * cap
    BY <1>2, <2>1, <2>2, <2>3
  <2>5. QED  BY <2>1, <2>4, QuotientGrows
<1> HIDE DEF value
<1>5. ASSUME NEW i \in 1 .. count
      PROVE  /\ Spelled(value(i), m) \in Seq(Digits) /\ Len(Spelled(value(i), m)) = m
             /\ key(i) \in Keys /\ Len(key(i)) <= m
             /\ \A k \in 1 .. m : DigitAt(key(i), k) = Spelled(value(i), m)[k]
  <2>1. Spelled(value(i), m) \in Seq(Digits) /\ Len(Spelled(value(i), m)) = m
    BY <1>2, <1>3, SpelledIsWord
  <2>2. PICK k \in 1 .. m : Spelled(0, m)[k] < Spelled(value(i), m)[k]
    BY <1>2, <1>3, SpelledAscends DEF cap
  <2>3. Spelled(0, m) \in Seq(Digits) /\ Len(Spelled(0, m)) = m
    BY <1>2, SpelledIsWord
  <2>4. Spelled(value(i), m)[k] # 0
    <3>1. Spelled(0, m)[k] \in Digits /\ Spelled(value(i), m)[k] \in Digits
      BY <2>1, <2>3, BoundsAreWords
    <3>2. QED  BY <2>2, <3>1 DEF Digits
  <2>5. QED  BY <2>1, <2>4, StripKeepsDigits
<1>6. ASSUME NEW i \in 1 .. count, NEW j \in 1 .. count, i < j
      PROVE  Before(key(i), key(j))
  <2> DEFINE v == Spelled(value(i), m)
             w == Spelled(value(j), m)
  <2>1. PICK k \in 1 .. m : /\ \A l \in 1 .. k - 1 : v[l] = w[l]
                            /\ v[k] < w[k]
    BY <1>2, <1>3, <1>4, <1>6, SpelledAscends DEF cap
  <2>2. v[k] \in Nat /\ w[k] \in Nat
    <3>1. v[k] \in Digits /\ w[k] \in Digits
      BY <1>5, BoundsAreWords
    <3>2. QED  BY <3>1 DEF Digits
  <2>3. /\ \A l \in 1 .. m : DigitAt(key(i), l) = v[l] /\ DigitAt(key(j), l) = w[l]
        /\ key(i) \in Keys /\ key(j) \in Keys
    BY <1>5
  <2>4. key(i) \in Words /\ key(j) \in Words
    BY <2>3, BoundsAreWords DEF Keys
  <2> HIDE DEF v, w, key
  <2>5. Len(key(j)) \in Nat /\ k <= Len(key(j))
    <3>1. Len(key(j)) \in Nat
      BY <2>4 DEF Words
    <3>2. DigitAt(key(j), k) # 0
      BY <2>1, <2>2, <2>3
    <3>3. QED  BY <3>1, <3>2 DEF DigitAt
  <2>6. Exceeds(key(j), key(i), k - 1)
    <3>1. \A l \in 1 .. k : DigitAt(key(j), l) = key(j)[l]
      BY <2>5 DEF DigitAt
    <3>2. k - 1 \in Nat /\ k - 1 < Len(key(j)) /\ (k - 1) + 1 = k
      BY <2>5
    <3>3. \A l \in 1 .. k - 1 : DigitAt(key(i), l) = key(j)[l]
      BY <1>2, <2>1, <2>3, <3>1
    <3>4. DigitAt(key(i), k) < key(j)[k]
      BY <2>1, <2>3, <3>1
    <3>5. QED  BY <3>2, <3>3, <3>4 DEF Exceeds
  <2>7. QED  BY <2>4, <2>6, ExceedsIsLater
<1>7. QED  BY <1>1, <1>5, <1>6 DEF m

-----------------------------------------------------------------------------
(* keyBetween *)

\* n digits are common to a and b, and the next one of a, padded, is smaller.
Diverge(a, b, n) ==
    /\ n \in 0 .. Len(b) - 1
    /\ \A j \in 1 .. n : DigitAt(a, j) = b[j]
    /\ DigitAt(a, n + 1) # b[n + 1]

LEMMA SomewhereDiverge ==
    ASSUME NEW a \in Bounds, NEW b \in Keys, Before(a, b)
    PROVE  \E n \in 0 .. Len(b) - 1 : Diverge(a, b, n)
<1> DEFINE Differ == {j \in Nat : j \in 1 .. Len(b) /\ DigitAt(a, j) # b[j]}
<1>1. Len(a) \in Nat /\ Len(b) \in Nat \ {0} /\ b[Len(b)] # 0
  BY BoundsAreWords, EmptySeq DEF Keys, IsValidKey
<1>2. PICK i \in 1 .. Len(b) : /\ \A j \in 1 .. i - 1 : j <= Len(a) /\ a[j] = b[j]
                               /\ i <= Len(a) => a[i] < b[i]
  BY DEF Before
<1>3. CASE i <= Len(a)
  <2>1. a[i] \in Nat /\ b[i] \in Nat
    BY <1>1, <1>2, <1>3, BoundsAreWords DEF Keys, Digits
  <2>2. i - 1 \in 0 .. Len(b) - 1 /\ (i - 1) + 1 = i
    BY <1>1
  <2>3. \A j \in 1 .. i - 1 : DigitAt(a, j) = b[j]
    BY <1>1, <1>2 DEF DigitAt
  <2>4. DigitAt(a, i) # b[i]
    BY <1>2, <1>3, <2>1 DEF DigitAt
  <2>5. Diverge(a, b, i - 1)
    BY <2>2, <2>3, <2>4 DEF Diverge
  <2>6. QED  BY <2>2, <2>5
<1>4. CASE ~(i <= Len(a))
  <2>1. Len(b) \in Differ
    BY <1>1, <1>2, <1>4 DEF DigitAt
  <2>2. PICK l \in Differ : \A m \in Differ : l <= m
    <3>1. Differ \subseteq Nat  OBVIOUS
    <3> HIDE DEF Differ
    <3>2. QED  BY <2>1, <3>1, LeastMember
  <2>3. l \in 1 .. Len(b) /\ DigitAt(a, l) # b[l]
    OBVIOUS
  <2>4. l - 1 \in 0 .. Len(b) - 1 /\ (l - 1) + 1 = l
    BY <1>1, <2>3
  <2>5. ASSUME NEW j \in 1 .. l - 1 PROVE DigitAt(a, j) = b[j]
    <3>1. j \in Nat /\ j \in 1 .. Len(b) /\ ~(l <= j)
      BY <1>1, <2>3
    <3>2. QED  BY <2>2, <3>1
  <2>6. Diverge(a, b, l - 1)
    BY <2>3, <2>4, <2>5 DEF Diverge
  <2>7. QED  BY <2>4, <2>6
<1>5. QED  BY <1>3, <1>4

\* There the digit of the earlier key is the smaller one.
LEMMA DivergesBelow ==
    ASSUME NEW a \in Bounds, NEW b \in Keys, Before(a, b), NEW n, Diverge(a, b, n)
    PROVE  /\ DigitAt(a, n + 1) \in Digits /\ b[n + 1] \in Digits
           /\ DigitAt(a, n + 1) < b[n + 1]
<1>1. Len(a) \in Nat /\ Len(b) \in Nat /\ n \in Nat /\ n + 1 \in 1 .. Len(b)
  BY BoundsAreWords DEF Keys, Diverge
<1>2. DigitAt(a, n + 1) \in Digits /\ b[n + 1] \in Digits
  BY <1>1, BoundsAreWords, DigitIsDigit DEF Keys
<1>3. PICK i \in 1 .. Len(b) : /\ \A j \in 1 .. i - 1 : j <= Len(a) /\ a[j] = b[j]
                               /\ i <= Len(a) => a[i] < b[i]
  BY DEF Before
<1>4. i <= n + 1
  <2>1. SUFFICES ASSUME n + 1 < i PROVE FALSE
    BY <1>1
  <2>2. n + 1 \in 1 .. i - 1
    BY <1>1, <2>1
  <2>3. n + 1 <= Len(a) /\ a[n + 1] = b[n + 1]
    BY <1>3, <2>2
  <2>4. QED  BY <2>3 DEF Diverge, DigitAt
<1>5. CASE n + 1 <= Len(a)
  <2>1. i <= Len(a)
    BY <1>1, <1>4, <1>5
  <2>2. a[i] \in Nat /\ b[i] \in Nat /\ a[i] # b[i]
    BY <1>1, <1>3, <2>1, BoundsAreWords DEF Keys, Digits
  <2>3. ~(i <= n)
    BY <1>1, <2>1, <2>2 DEF Diverge, DigitAt
  <2>4. i = n + 1
    BY <1>1, <1>4, <2>3
  <2>5. QED  BY <1>2, <1>3, <1>5, <2>4 DEF DigitAt
<1>6. CASE ~(n + 1 <= Len(a))
  <2>1. DigitAt(a, n + 1) = 0 /\ b[n + 1] # 0
    BY <1>6 DEF Diverge, DigitAt
  <2>2. QED  BY <1>2, <2>1 DEF Digits
<1>7. QED  BY <1>2, <1>5, <1>6

\* The head of b followed by one more digit.
LEMMA DigitAfterPrefix ==
    ASSUME NEW b \in Seq(Digits), NEW n \in Nat, n < Len(b), NEW d \in Digits
    PROVE  LET k == Prefix(b, n) \o <<d>> IN
           /\ k \in Seq(Digits) /\ Len(k) = n + 1 /\ k # <<>>
           /\ \A j \in 1 .. n : k[j] = b[j]
           /\ k[n + 1] = d
<1>1. /\ Prefix(b, n) \in Seq(Digits) /\ Len(Prefix(b, n)) = n
      /\ \A j \in 1 .. n : Prefix(b, n)[j] = b[j]
  <2>1. \A j \in 1 .. n : b[j] \in Digits
    BY BoundsAreWords
  <2>2. QED  BY <2>1, SubSeqProperties DEF Prefix
<1>2. Prefix(b, n) \o <<d>> = Append(Prefix(b, n), d)
  BY <1>1, AppendIsConcat
<1>3. QED  BY <1>1, <1>2, AppendProperties

\* Room for a middle digit.
LEMMA BetweenByMiddle ==
    ASSUME NEW a \in Bounds, NEW b \in Keys, Before(a, b), NEW n, Diverge(a, b, n),
           b[n + 1] - DigitAt(a, n + 1) > 1
    PROVE  LET k == Prefix(b, n) \o <<MiddleDigit(DigitAt(a, n + 1), b[n + 1])>> IN
           k \in Keys /\ Before(a, k) /\ Before(k, b)
<1> DEFINE d == DigitAt(a, n + 1)
           mid == MiddleDigit(d, b[n + 1])
           k == Prefix(b, n) \o <<mid>>
<1>1. /\ a \in Seq(Digits) /\ b \in Seq(Digits) /\ a \in Words /\ b \in Words
      /\ n \in Nat /\ n < Len(b) /\ Len(b) \in Nat
  BY BoundsAreWords DEF Keys, Diverge
<1>2. d \in Digits /\ b[n + 1] \in Digits /\ b[n + 1] - d > 1
  BY DivergesBelow
<1>3. mid \in Digits /\ d < mid /\ mid < b[n + 1] /\ mid # 0
  <2>1. mid \in Nat /\ d < mid /\ mid < b[n + 1]
    BY <1>2, MiddleIsBetween DEF Digits
  <2>2. QED  BY <1>2, <2>1 DEF Digits
<1> HIDE DEF mid
<1>4. /\ k \in Seq(Digits) /\ Len(k) = n + 1 /\ k # <<>>
      /\ \A j \in 1 .. n : k[j] = b[j]
      /\ k[n + 1] = mid
  BY <1>1, <1>3, DigitAfterPrefix
<1> HIDE DEF k, d
<1>5. k \in Keys /\ k \in Words
  BY <1>3, <1>4, BoundsAreWords DEF Keys, IsValidKey
<1>6. Exceeds(k, a, n)
  BY <1>1, <1>3, <1>4 DEF Exceeds, Diverge, d
<1>7. Exceeds(b, k, n)
  BY <1>1, <1>3, <1>4 DEF Exceeds, DigitAt
<1>8. Before(a, k) /\ Before(k, b)
  BY <1>1, <1>5, <1>6, <1>7, ExceedsIsLater
<1>9. QED  BY <1>5, <1>8 DEF k, mid, d

\* None, but b goes on: b cut off behind the digit.
LEMMA BetweenByPrefix ==
    ASSUME NEW a \in Bounds, NEW b \in Keys, Before(a, b), NEW n, Diverge(a, b, n),
           Len(b) > n + 1
    PROVE  LET k == Prefix(b, n) \o <<b[n + 1]>> IN
           k \in Keys /\ Before(a, k) /\ Before(k, b)
<1> DEFINE k == Prefix(b, n) \o <<b[n + 1]>>
<1>1. /\ a \in Words /\ b \in Seq(Digits) /\ b \in Words
      /\ n \in Nat /\ n < Len(b) /\ Len(b) \in Nat
  BY BoundsAreWords DEF Keys, Diverge
<1>2. /\ DigitAt(a, n + 1) \in Digits /\ b[n + 1] \in Digits
      /\ DigitAt(a, n + 1) < b[n + 1]
  BY DivergesBelow
<1>3. /\ k \in Seq(Digits) /\ Len(k) = n + 1 /\ k # <<>>
      /\ \A j \in 1 .. n : k[j] = b[j]
      /\ k[n + 1] = b[n + 1]
  BY <1>1, <1>2, DigitAfterPrefix
<1> HIDE DEF k
<1>4. b[n + 1] # 0
  BY <1>2 DEF Digits
<1>5. k \in Keys /\ k \in Words
  BY <1>3, <1>4, BoundsAreWords DEF Keys, IsValidKey
<1>6. Exceeds(k, a, n)
  BY <1>1, <1>2, <1>3 DEF Exceeds, Diverge
<1>7. Before(a, k)
  BY <1>1, <1>5, <1>6, ExceedsIsLater
<1>8. Before(k, b)
  <2>1. n + 2 \in 1 .. Len(b) /\ ~(n + 2 <= Len(k))
    BY <1>1, <1>3
  <2>2. \A j \in 1 .. (n + 2) - 1 : j <= Len(k) /\ k[j] = b[j]
    BY <1>1, <1>3
  <2>3. QED  BY <2>1, <2>2 DEF Before
<1>9. QED  BY <1>5, <1>7, <1>8 DEF k

\* None, and b ends there: the digit of a, and a key after the rest of a.
LEMMA BetweenByDescent ==
    ASSUME NEW a \in Bounds, NEW b \in Keys, Before(a, b), NEW n, Diverge(a, b, n)
    PROVE  LET k == Prefix(b, n) \o (<<DigitAt(a, n + 1)>> \o KeyAfter(SubSeq(a, n + 2, Len(a)))) IN
           k \in Keys /\ Before(a, k) /\ Before(k, b)
<1> DEFINE d == DigitAt(a, n + 1)
           rest == SubSeq(a, n + 2, Len(a))
           head == Prefix(b, n) \o <<d>>
           tail == KeyAfter(rest)
           k == Prefix(b, n) \o (<<d>> \o tail)
<1>1. /\ a \in Seq(Digits) /\ a \in Words /\ b \in Seq(Digits) /\ b \in Words
      /\ n \in Nat /\ n < Len(b) /\ Len(b) \in Nat /\ Len(a) \in Nat
  <2>1. a \in Seq(Digits) /\ a \in Words /\ Len(a) \in Nat
    BY BoundsAreWords
  <2>2. b \in Bounds
    BY DEF Bounds
  <2>3. b \in Seq(Digits) /\ b \in Words /\ Len(b) \in Nat
    BY <2>2, BoundsAreWords
  <2>4. n \in Nat /\ n < Len(b)
    BY <2>3 DEF Diverge
  <2>5. QED  BY <2>1, <2>3, <2>4
<1>2. d \in Digits /\ b[n + 1] \in Digits /\ d < b[n + 1]
  BY DivergesBelow
<1> HIDE DEF d
<1>3. /\ head \in Seq(Digits) /\ Len(head) = n + 1
      /\ \A j \in 1 .. n : head[j] = b[j]
      /\ head[n + 1] = d
  BY <1>1, <1>2, DigitAfterPrefix
<1>4. /\ rest \in Seq(Digits)
      /\ Len(rest) = IF n + 2 <= Len(a) THEN Len(a) - (n + 2) + 1 ELSE 0
      /\ \A i \in 1 .. Len(a) - (n + 2) + 1 : rest[i] = a[(n + 2) + i - 1]
  <2>1. \A i \in n + 2 .. Len(a) : a[i] \in Digits
    BY <1>1, BoundsAreWords
  <2>2. n + 2 \in Int /\ Len(a) \in Int
    BY <1>1
  <2>3. QED  BY <2>1, <2>2, SubSeqProperties
<1> HIDE DEF rest
<1>5. \A i \in Nat \ {0} : DigitAt(rest, i) = DigitAt(a, n + 1 + i)
  <2>1. ASSUME NEW i \in Nat \ {0} PROVE DigitAt(rest, i) = DigitAt(a, n + 1 + i)
    <3>1. CASE n + 1 + i <= Len(a)
      <4>1. i \in 1 .. Len(a) - (n + 2) + 1 /\ n + 2 <= Len(a) /\ i <= Len(rest)
        BY <1>1, <1>4, <3>1
      <4>2. (n + 2) + i - 1 = n + 1 + i
        BY <1>1
      <4>3. QED  BY <1>4, <3>1, <4>1, <4>2 DEF DigitAt
    <3>2. CASE ~(n + 1 + i <= Len(a))
      <4>1. ~(i <= Len(rest))
        BY <1>1, <1>4, <3>2
      <4>2. QED  BY <3>2, <4>1 DEF DigitAt
    <3>3. QED  BY <3>1, <3>2
  <2>2. QED  BY <2>1
<1>6. tail \in Keys
  BY <1>4, KeyAfterExceeds
<1>7. PICK m \in 0 .. Len(rest) : Len(tail) = m + 1 /\ Exceeds(tail, rest, m)
  BY <1>4, KeyAfterExceeds
<1> HIDE DEF tail
<1>8. tail \in Seq(Digits) /\ tail[Len(tail)] # 0 /\ m \in Nat
  BY <1>6, <1>7 DEF Keys, IsValidKey, Exceeds
<1>9. k = head \o tail
  <2>1. Prefix(b, n) \in Seq(Digits)
    <3>1. \A j \in 1 .. n : b[j] \in Digits
      BY <1>1, BoundsAreWords
    <3>2. QED  BY <1>1, <3>1, SubSeqProperties DEF Prefix
  <2>2. <<d>> \in Seq(Digits)
    BY <1>2
  <2>3. QED  BY <1>8, <2>1, <2>2, ConcatAssociative
<1> HIDE DEF k, head
<1>10. /\ k \in Seq(Digits) /\ Len(k) = n + 1 + (m + 1)
       /\ \A j \in 1 .. n : k[j] = b[j]
       /\ k[n + 1] = d
       /\ \A i \in 1 .. m + 1 : k[n + 1 + i] = tail[i]
  <2>1. /\ k \in Seq(Digits) /\ Len(k) = n + 1 + (m + 1)
        /\ \A i \in 1 .. (n + 1) + (m + 1) :
              k[i] = IF i <= n + 1 THEN head[i] ELSE tail[i - (n + 1)]
    <3>1. /\ head \o tail \in Seq(Digits) /\ Len(head \o tail) = Len(head) + Len(tail)
          /\ \A i \in 1 .. Len(head) + Len(tail) :
                (head \o tail)[i] = IF i <= Len(head) THEN head[i] ELSE tail[i - Len(head)]
      BY <1>3, <1>8, ConcatProperties
    <3>2. Len(head) = n + 1 /\ Len(tail) = m + 1
      BY <1>3, <1>7
    <3>3. QED  BY <1>9, <3>1, <3>2
  <2>2. \A j \in 1 .. n + 1 : k[j] = head[j]
    BY <1>1, <1>8, <2>1
  <2>3. ASSUME NEW i \in 1 .. m + 1 PROVE k[n + 1 + i] = tail[i]
    <3>1. /\ n + 1 + i \in 1 .. (n + 1) + (m + 1) /\ ~(n + 1 + i <= n + 1)
          /\ (n + 1 + i) - (n + 1) = i
      BY <1>1, <1>8
    <3>2. QED  BY <2>1, <3>1
  <2>4. QED  BY <1>1, <1>3, <2>1, <2>2, <2>3
<1>11. k \in Keys /\ k \in Words
  <2>1. k[Len(k)] = tail[Len(tail)]
    BY <1>1, <1>7, <1>8, <1>10
  <2>2. k # <<>>
    BY <1>1, <1>8, <1>10
  <2>3. QED  BY <1>8, <1>10, <2>1, <2>2, BoundsAreWords DEF Keys, IsValidKey
<1>12. Exceeds(k, a, n + 1 + m)
  <2>1. ASSUME NEW j \in 1 .. n + 1 + m PROVE DigitAt(a, j) = k[j]
    <3>1. CASE j <= n
      BY <1>10, <3>1 DEF Diverge
    <3>2. CASE j = n + 1
      BY <1>10, <3>2 DEF d
    <3>3. CASE n + 1 < j
      <4>1. PICK i \in 1 .. m : j = n + 1 + i
        <5>1. j - (n + 1) \in 1 .. m /\ j = n + 1 + (j - (n + 1))
          BY <1>1, <1>8, <3>3
        <5>2. QED  BY <5>1
      <4>2. DigitAt(rest, i) = tail[i]
        BY <1>7 DEF Exceeds
      <4>3. i \in Nat \ {0} /\ i \in 1 .. m + 1
        BY <1>8
      <4>4. QED  BY <1>5, <1>10, <4>1, <4>2, <4>3
    <3>4. QED  BY <1>1, <3>1, <3>2, <3>3
  <2>2. DigitAt(a, (n + 1 + m) + 1) < k[(n + 1 + m) + 1]
    <3>1. DigitAt(rest, m + 1) < tail[m + 1]
      BY <1>7 DEF Exceeds
    <3>2. /\ m + 1 \in Nat \ {0} /\ m + 1 \in 1 .. m + 1
          /\ (n + 1 + m) + 1 = n + 1 + (m + 1)
      BY <1>1, <1>8
    <3>3. QED  BY <1>5, <1>10, <3>1, <3>2
  <2>3. n + 1 + m \in Nat /\ n + 1 + m < Len(k)
    BY <1>1, <1>8, <1>10
  <2>4. QED  BY <2>1, <2>2, <2>3 DEF Exceeds
<1>13. Exceeds(b, k, n)
  BY <1>1, <1>2, <1>8, <1>10 DEF Exceeds, DigitAt
<1>14. Before(a, k) /\ Before(k, b)
  BY <1>1, <1>11, <1>12, <1>13, ExceedsIsLater
<1>15. QED  BY <1>11, <1>14 DEF k, rest, tail, d

\* keyBetween makes a legal key strictly between its neighbours.
THEOREM KeyBetweenIsBetween ==
    ASSUME NEW a \in Bounds, NEW b \in Keys, Before(a, b)
    PROVE  KeyBetween(a, b) \in Keys /\ Before(a, KeyBetween(a, b)) /\ Before(KeyBetween(a, b), b)
<1> DEFINE n == CHOOSE i \in 0 .. Len(b) - 1 : /\ \A j \in 1 .. i : DigitAt(a, j) = b[j]
                                               /\ DigitAt(a, i + 1) # b[i + 1]
           d == DigitAt(a, n + 1)
           e == b[n + 1]
<1>1. Diverge(a, b, n)
  BY SomewhereDiverge DEF Diverge
<1>2. KeyBetween(a, b) =
         Prefix(b, n) \o
          IF e - d > 1 THEN <<MiddleDigit(d, e)>>
          ELSE IF Len(b) > n + 1 THEN <<e>>
          ELSE <<d>> \o KeyAfter(SubSeq(a, n + 2, Len(a)))
  BY DEF KeyBetween
<1> HIDE DEF n
<1>3. CASE e - d > 1
  BY <1>1, <1>2, <1>3, BetweenByMiddle
<1>4. CASE ~(e - d > 1) /\ Len(b) > n + 1
  BY <1>1, <1>2, <1>4, BetweenByPrefix
<1>5. CASE ~(e - d > 1) /\ ~(Len(b) > n + 1)
  BY <1>1, <1>2, <1>5, BetweenByDescent
<1>6. QED  BY <1>3, <1>4, <1>5

USE ListAssumption

-----------------------------------------------------------------------------
(* KeyList *)

\* A list of keys that ascends.
Ascends(s) == \A i, j \in 1 .. Len(s) : i < j => Before(s[i], s[j])

\* t holds the keys of s, and k.
Adds(t, s, k) == \A j \in 1 .. Len(t) : t[j] = k \/ \E i \in 1 .. Len(s) : t[j] = s[i]

Short(s) == \A i \in 1 .. Len(s) : ~NeedsRebalance(s[i])

\* The list as the users mean it, its keys legal and short.
ListInv == list \in Seq(Keys) /\ Ascends(list) /\ Short(list)

LEMMA ListOfKeys ==
    ASSUME NEW s \in Seq(Keys)
    PROVE  /\ Len(s) \in Nat /\ (s # <<>> <=> Len(s) # 0)
           /\ \A i \in 1 .. Len(s) : s[i] \in Keys /\ s[i] \in Bounds /\ s[i] \in Words
<1>1. Len(s) \in Nat /\ \A i \in 1 .. Len(s) : s[i] \in Keys
  BY LenProperties, ElementOfSeq
<1>2. Keys \subseteq Bounds /\ Keys \subseteq Words
  BY BoundsAreWords DEF Bounds, Keys
<1>3. s # <<>> <=> Len(s) # 0
  BY EmptySeq
<1>4. QED  BY <1>1, <1>2, <1>3

\* A key after the last one extends the list.
LEMMA AppendAscends ==
    ASSUME NEW s \in Seq(Keys), Ascends(s), NEW k \in Keys,
           s # <<>> => Before(s[Len(s)], k)
    PROVE  Append(s, k) \in Seq(Keys) /\ Ascends(Append(s, k)) /\ Adds(Append(s, k), s, k)
<1> DEFINE t == Append(s, k)
<1>1. /\ t \in Seq(Keys) /\ Len(t) = Len(s) + 1 /\ Len(s) \in Nat
      /\ \A i \in 1 .. Len(s) : t[i] = s[i]
      /\ t[Len(s) + 1] = k
  BY AppendProperties, ListOfKeys
<1> HIDE DEF t
<1>2. ASSUME NEW i \in 1 .. Len(t), NEW j \in 1 .. Len(t), i < j
      PROVE  Before(t[i], t[j])
  <2>1. i \in 1 .. Len(s) /\ t[i] = s[i]
    BY <1>1, <1>2
  <2>2. CASE j \in 1 .. Len(s)
    BY <1>1, <1>2, <2>1, <2>2 DEF Ascends
  <2>3. CASE j = Len(s) + 1
    <3>1. s # <<>> /\ Len(s) \in 1 .. Len(s)
      BY <1>1, <2>1, ListOfKeys
    <3>2. i = Len(s) \/ Before(s[i], s[Len(s)])
      BY <1>1, <2>1, <3>1 DEF Ascends
    <3>3. s[i] \in Words /\ s[Len(s)] \in Words /\ k \in Words
      BY <2>1, <3>1, ListOfKeys, BoundsAreWords DEF Keys
    <3>4. QED  BY <1>1, <2>1, <2>3, <3>1, <3>2, <3>3, BeforeTransitive
  <2>4. QED  BY <1>1, <2>2, <2>3
<1>3. Adds(t, s, k)
  BY <1>1 DEF Adds
<1>4. QED  BY <1>1, <1>2, <1>3 DEF Ascends, t

\* A key between its neighbours fits in.
LEMMA InsertAscends ==
    ASSUME NEW s \in Seq(Keys), Ascends(s), NEW i \in 0 .. Len(s), NEW k \in Keys,
           i # 0 => Before(s[i], k), i # Len(s) => Before(k, s[i + 1])
    PROVE  LET t == InsertAt(s, i + 1, k) IN t \in Seq(Keys) /\ Ascends(t) /\ Adds(t, s, k)
<1> DEFINE t == InsertAt(s, i + 1, k)
           before == SubSeq(s, 1, i)
           after == SubSeq(s, i + 1, Len(s))
<1>0. Len(s) \in Nat /\ i \in Nat /\ i <= Len(s) /\ \A j \in 1 .. Len(s) : s[j] \in Keys
  BY ListOfKeys
<1>1. t = (before \o <<k>>) \o after
  <2>1. (i + 1) - 1 = i
    BY <1>0
  <2>2. QED  BY <2>1 DEF InsertAt
<1>2. /\ before \in Seq(Keys) /\ Len(before) = i
      /\ \A j \in 1 .. i : before[j] = s[j]
  BY <1>0, SubSeqProperties
<1>3. /\ after \in Seq(Keys) /\ Len(after) = Len(s) - i
      /\ \A j \in 1 .. Len(s) - i : after[j] = s[i + j]
  <2>1. \A j \in i + 1 .. Len(s) : s[j] \in Keys
    BY <1>0
  <2>2. /\ after \in Seq(Keys)
        /\ Len(after) = IF i + 1 <= Len(s) THEN Len(s) - (i + 1) + 1 ELSE 0
        /\ \A j \in 1 .. Len(s) - (i + 1) + 1 : after[j] = s[(i + 1) + j - 1]
    BY <1>0, <2>1, SubSeqProperties
  <2>3. QED  BY <1>0, <2>2
<1> HIDE DEF before, after
<1>4. /\ before \o <<k>> \in Seq(Keys) /\ Len(before \o <<k>>) = i + 1
      /\ \A j \in 1 .. i : (before \o <<k>>)[j] = s[j]
      /\ (before \o <<k>>)[i + 1] = k
  <2>1. before \o <<k>> = Append(before, k)
    BY <1>2, AppendIsConcat
  <2>2. QED  BY <1>2, <2>1, AppendProperties
<1>5. /\ t \in Seq(Keys) /\ Len(t) = Len(s) + 1
      /\ \A j \in 1 .. Len(s) + 1 :
            t[j] = IF j <= i THEN s[j] ELSE IF j = i + 1 THEN k ELSE s[j - 1]
  <2> DEFINE u == before \o <<k>>
  <2>0. u \in Seq(Keys) /\ Len(u) = i + 1
    BY <1>4
  <2>1. /\ t \in Seq(Keys) /\ Len(t) = Len(u) + Len(after)
        /\ \A j \in 1 .. Len(u) + Len(after) :
              t[j] = IF j <= Len(u) THEN u[j] ELSE after[j - Len(u)]
    <3>1. t = u \o after
      BY <1>1
    <3> HIDE DEF t, u
    <3>2. /\ u \o after \in Seq(Keys) /\ Len(u \o after) = Len(u) + Len(after)
          /\ \A j \in 1 .. Len(u) + Len(after) :
                (u \o after)[j] = IF j <= Len(u) THEN u[j] ELSE after[j - Len(u)]
      BY <1>3, <2>0, ConcatProperties
    <3>3. QED  BY <3>1, <3>2
  <2> HIDE DEF t, u
  <2>2. Len(t) = Len(s) + 1 /\ Len(u) + Len(after) = Len(s) + 1
    BY <1>0, <1>3, <2>0, <2>1
  <2>3. ASSUME NEW j \in 1 .. Len(s) + 1
        PROVE  t[j] = IF j <= i THEN s[j] ELSE IF j = i + 1 THEN k ELSE s[j - 1]
    <3>1. CASE j <= i + 1
      <4>1. t[j] = u[j]
        BY <2>0, <2>1, <2>2, <3>1
      <4>2. QED  BY <1>0, <1>4, <3>1, <4>1 DEF u
    <3>2. CASE ~(j <= i + 1)
      <4>1. t[j] = after[j - (i + 1)]
        BY <2>0, <2>1, <2>2, <3>2
      <4>2. j - (i + 1) \in 1 .. Len(s) - i /\ i + (j - (i + 1)) = j - 1
        BY <1>0, <3>2
      <4>3. QED  BY <1>0, <1>3, <3>2, <4>1, <4>2
    <3>3. QED  BY <3>1, <3>2
  <2>4. QED  BY <2>1, <2>2, <2>3
<1> HIDE DEF t
<1>6. \A j \in 1 .. Len(s) : s[j] \in Words
  BY ListOfKeys
<1>7. k \in Words
  BY BoundsAreWords DEF Keys
<1>8. ASSUME NEW j \in 1 .. i PROVE Before(s[j], k)
  <2>1. i # 0 /\ Before(s[i], k) /\ i \in 1 .. Len(s) /\ j \in 1 .. Len(s)
    BY <1>0
  <2>2. j = i \/ Before(s[j], s[i])
    BY <1>0, <2>1 DEF Ascends
  <2>3. QED  BY <1>6, <1>7, <2>1, <2>2, BeforeTransitive
<1>9. ASSUME NEW j \in i + 1 .. Len(s) PROVE Before(k, s[j])
  <2>1. Before(k, s[i + 1]) /\ i + 1 \in 1 .. Len(s) /\ j \in 1 .. Len(s)
    BY <1>0
  <2>2. j = i + 1 \/ Before(s[i + 1], s[j])
    BY <1>0, <2>1 DEF Ascends
  <2>3. QED  BY <1>6, <1>7, <2>1, <2>2, BeforeTransitive
<1>10. ASSUME NEW j \in 1 .. Len(t), NEW l \in 1 .. Len(t), j < l
       PROVE  Before(t[j], t[l])
  <2>1. CASE l <= i
    BY <1>0, <1>5, <1>10, <2>1 DEF Ascends
  <2>2. CASE l = i + 1
    <3>1. j \in 1 .. i /\ t[j] = s[j] /\ t[l] = k
      BY <1>0, <1>5, <1>10, <2>2
    <3>2. QED  BY <1>8, <3>1
  <2>3. CASE l > i + 1 /\ j <= i
    <3>1. t[j] = s[j] /\ t[l] = s[l - 1] /\ j \in 1 .. Len(s) /\ l - 1 \in 1 .. Len(s) /\ j < l - 1
      BY <1>0, <1>5, <1>10, <2>3
    <3>2. QED  BY <3>1 DEF Ascends
  <2>4. CASE j = i + 1
    <3>1. t[j] = k /\ t[l] = s[l - 1] /\ l - 1 \in i + 1 .. Len(s)
      BY <1>0, <1>5, <1>10, <2>4
    <3>2. QED  BY <1>9, <3>1
  <2>5. CASE j > i + 1
    <3>1. /\ t[j] = s[j - 1] /\ t[l] = s[l - 1]
          /\ j - 1 \in 1 .. Len(s) /\ l - 1 \in 1 .. Len(s) /\ j - 1 < l - 1
      BY <1>0, <1>5, <1>10, <2>5
    <3>2. QED  BY <3>1 DEF Ascends
  <2>6. QED  BY <1>0, <1>5, <2>1, <2>2, <2>3, <2>4, <2>5
<1>11. Adds(t, s, k)
  <2>1. ASSUME NEW j \in 1 .. Len(t) PROVE t[j] = k \/ \E l \in 1 .. Len(s) : t[j] = s[l]
    <3>1. CASE j <= i
      <4>1. j \in 1 .. Len(s) /\ t[j] = s[j]
        BY <1>0, <1>5, <3>1
      <4>2. QED  BY <4>1
    <3>2. CASE j = i + 1
      BY <1>0, <1>5, <3>2
    <3>3. CASE j > i + 1
      <4>1. j - 1 \in 1 .. Len(s) /\ t[j] = s[j - 1]
        BY <1>0, <1>5, <3>3
      <4>2. QED  BY <4>1
    <3>4. QED  BY <1>0, <3>1, <3>2, <3>3
  <2>2. QED  BY <2>1 DEF Adds
<1>12. QED  BY <1>5, <1>10, <1>11 DEF Ascends, t

LEMMA RemoveAscends ==
    ASSUME NEW s \in Seq(Keys), Ascends(s), NEW i \in 1 .. Len(s)
    PROVE  /\ RemoveAt(s, i) \in Seq(Keys) /\ Ascends(RemoveAt(s, i))
           /\ Len(RemoveAt(s, i)) = Len(s) - 1
           /\ \A j \in 1 .. Len(s) - 1 : RemoveAt(s, i)[j] = s[IF j < i THEN j ELSE j + 1]
<1> DEFINE t == RemoveAt(s, i)
           before == SubSeq(s, 1, i - 1)
           after == SubSeq(s, i + 1, Len(s))
<1>0. Len(s) \in Nat /\ i \in Nat /\ i >= 1 /\ i <= Len(s) /\ \A j \in 1 .. Len(s) : s[j] \in Keys
  BY ListOfKeys
<1>1. t = before \o after
  BY DEF RemoveAt
<1>2. /\ before \in Seq(Keys) /\ Len(before) = i - 1
      /\ \A j \in 1 .. i - 1 : before[j] = s[j]
  <2>1. /\ before \in Seq(Keys)
        /\ Len(before) = IF 1 <= i - 1 THEN (i - 1) - 1 + 1 ELSE 0
        /\ \A j \in 1 .. (i - 1) - 1 + 1 : before[j] = s[1 + j - 1]
    BY <1>0, SubSeqProperties
  <2>2. QED  BY <1>0, <2>1
<1>3. /\ after \in Seq(Keys) /\ Len(after) = Len(s) - i
      /\ \A j \in 1 .. Len(s) - i : after[j] = s[i + j]
  <2>1. \A j \in i + 1 .. Len(s) : s[j] \in Keys
    BY <1>0
  <2>2. /\ after \in Seq(Keys)
        /\ Len(after) = IF i + 1 <= Len(s) THEN Len(s) - (i + 1) + 1 ELSE 0
        /\ \A j \in 1 .. Len(s) - (i + 1) + 1 : after[j] = s[(i + 1) + j - 1]
    BY <1>0, <2>1, SubSeqProperties
  <2>3. QED  BY <1>0, <2>2
<1> HIDE DEF before, after
<1>4. /\ t \in Seq(Keys) /\ Len(t) = Len(before) + Len(after)
      /\ \A j \in 1 .. Len(before) + Len(after) :
            t[j] = IF j <= Len(before) THEN before[j] ELSE after[j - Len(before)]
  <2> HIDE DEF t
  <2>1. /\ before \o after \in Seq(Keys) /\ Len(before \o after) = Len(before) + Len(after)
        /\ \A j \in 1 .. Len(before) + Len(after) :
              (before \o after)[j] = IF j <= Len(before) THEN before[j] ELSE after[j - Len(before)]
    BY <1>2, <1>3, ConcatProperties
  <2>2. QED  BY <1>1, <2>1
<1> HIDE DEF t
<1>5. Len(t) = Len(s) - 1 /\ Len(before) + Len(after) = Len(s) - 1
  BY <1>0, <1>2, <1>3, <1>4
<1>6. ASSUME NEW j \in 1 .. Len(s) - 1
      PROVE  t[j] = s[IF j < i THEN j ELSE j + 1]
  <2>1. CASE j < i
    <3>1. j \in 1 .. i - 1 /\ j <= Len(before)
      BY <1>0, <1>2, <2>1
    <3>2. QED  BY <1>2, <1>4, <1>5, <2>1, <3>1
  <2>2. CASE ~(j < i)
    <3>1. j - (i - 1) \in 1 .. Len(s) - i /\ i + (j - (i - 1)) = j + 1 /\ ~(j <= Len(before))
      BY <1>0, <1>2, <2>2
    <3>2. t[j] = after[j - (i - 1)]
      BY <1>2, <1>4, <1>5, <3>1
    <3>3. QED  BY <1>3, <2>2, <3>1, <3>2
  <2>3. QED  BY <2>1, <2>2
<1>7. ASSUME NEW j \in 1 .. Len(t), NEW l \in 1 .. Len(t), j < l
      PROVE  Before(t[j], t[l])
  <2> DEFINE p == IF j < i THEN j ELSE j + 1
             q == IF l < i THEN l ELSE l + 1
  <2>1. p \in 1 .. Len(s) /\ q \in 1 .. Len(s) /\ p < q
    BY <1>0, <1>5, <1>7
  <2>2. t[j] = s[p] /\ t[l] = s[q]
    BY <1>5, <1>6
  <2>3. QED  BY <2>1, <2>2 DEF Ascends
<1>8. QED  BY <1>4, <1>5, <1>6, <1>7 DEF Ascends, t

\* Re-keyed from the start, with a key after the last one.
LEMMA BackstopKeeps ==
    ASSUME ListInv, Len(list) < MaxRows, NEW k, Backstop(k)
    PROVE  ListInv'
<1> DEFINE fresh == RebalanceKeys(Len(list))
           last == IF fresh = <<>> THEN <<>> ELSE Last(fresh)
<1>1. Len(list) \in Nat
  BY ListOfKeys DEF ListInv
<1>2. /\ fresh \in Seq(Keys) /\ Ascends(fresh)
      /\ \A i \in 1 .. Len(fresh) : Len(fresh[i]) + 3 <= Threshold
  <2>1. CASE Len(list) = 0
    <3>1. fresh = <<>>
      BY <2>1 DEF RebalanceKeys
    <3>2. QED  BY <3>1, EmptySeq DEF Ascends
  <2>2. CASE Len(list) # 0
    <3>1. /\ fresh \in [1 .. Len(list) -> Keys]
          /\ \A i, j \in 1 .. Len(list) : i < j => Before(fresh[i], fresh[j])
          /\ \A i \in 1 .. Len(list) : Len(fresh[i]) <= RebalanceWidth(Len(list))
      BY <1>1, <2>2, RebalancedKeys
    <3>2. RebalanceWidth(Len(list)) + 3 <= Threshold /\ RebalanceWidth(Len(list)) \in Nat
      BY <1>1, <2>2, WidthIsEnough
    <3> HIDE DEF fresh
    <3>3. fresh \in Seq(Keys) /\ Len(fresh) = Len(list)
      BY <1>1, <3>1, IsASeq
    <3>4. \A i \in 1 .. Len(fresh) : Len(fresh[i]) \in Nat
      BY <3>3, ListOfKeys DEF Words
    <3>5. QED  BY <3>1, <3>2, <3>3, <3>4 DEF Ascends
  <2>3. QED  BY <2>1, <2>2
<1>3. PICK j \in Jitter(KeyAfter(last)) : list' = Append(fresh, j)
  BY DEF Backstop
<1> HIDE DEF fresh
<1>4. /\ last \in Bounds /\ (fresh # <<>> => last = fresh[Len(fresh)])
      /\ Len(last) + 3 <= Threshold
  <2>1. <<>> \in Bounds /\ Len(<<>>) = 0
    BY DEF Bounds
  <2>2. fresh # <<>> => Len(fresh) \in 1 .. Len(fresh)
    BY <1>2, ListOfKeys
  <2>3. 3 <= Threshold
    <3>1. 1 \in 1 .. MaxRows
      BY <1>1
    <3>2. RebalanceWidth(1) + 3 <= Threshold
      BY <3>1
    <3>3. RebalanceWidth(1) \in 2 .. 1 + 1
      <4>1. 1 \in Nat \ {0}
        OBVIOUS
      <4>2. QED  BY <4>1, WidthIsEnough
    <3>4. QED  BY <3>2, <3>3
  <2>4. CASE fresh = <<>>
    BY <2>1, <2>3, <2>4
  <2>5. CASE fresh # <<>>
    <3>1. last = fresh[Len(fresh)]
      BY <2>5 DEF Last
    <3>2. fresh[Len(fresh)] \in Keys /\ Len(fresh[Len(fresh)]) + 3 <= Threshold
      BY <1>2, <2>2, <2>5
    <3>3. QED  BY <2>5, <3>1, <3>2 DEF Bounds
  <2>6. QED  BY <2>4, <2>5
<1> HIDE DEF last
<1>5. /\ KeyAfter(last) \in Keys /\ Before(last, KeyAfter(last))
      /\ Len(KeyAfter(last)) <= Len(last) + 1
  BY <1>4, KeyAfterIsLater
<1>6. /\ j \in Keys /\ Before(KeyAfter(last), j)
      /\ Len(j) <= Len(KeyAfter(last)) + 2
  BY <1>5, JitterIsLater
<1>7. last \in Words /\ KeyAfter(last) \in Words /\ j \in Words
  BY <1>4, <1>5, <1>6, BoundsAreWords DEF Keys
<1>8. Before(last, j)
  BY <1>5, <1>6, <1>7, BeforeTransitive
<1>9. ~NeedsRebalance(j)
  <2>1. Len(last) \in Nat /\ Len(KeyAfter(last)) \in Nat /\ Len(j) \in Nat
    BY <1>7 DEF Words
  <2>2. QED  BY <1>4, <1>5, <1>6, <2>1 DEF NeedsRebalance
<1>10. Short(fresh)
  <2>1. \A i \in 1 .. Len(fresh) : Len(fresh[i]) \in Nat
    BY <1>2, ListOfKeys DEF Words
  <2>2. QED  BY <1>2, <2>1 DEF Short, NeedsRebalance
<1>11. list' \in Seq(Keys) /\ Ascends(list') /\ Adds(list', fresh, j)
  BY <1>2, <1>3, <1>4, <1>6, <1>8, AppendAscends
<1>12. QED  BY <1>9, <1>10, <1>11 DEF ListInv, Adds, Short

\* The keys a client computes for a slot.
LEMMA InsertKeeps ==
    ASSUME ListInv, NEW i \in Rows \cup {0}, InsertAfter(i)
    PROVE  ListInv'
<1> DEFINE k == CASE i = Len(list) -> KeyAfter(Final)
                  [] i = 0 /\ list # <<>> -> KeyBefore(list[1])
                  [] OTHER -> KeyBetween(list[i], list[i + 1])
<1>0. /\ list \in Seq(Keys) /\ Ascends(list) /\ Short(list) /\ Len(list) \in Nat
      /\ (list # <<>> <=> Len(list) # 0)
      /\ \A j \in 1 .. Len(list) : list[j] \in Keys /\ list[j] \in Bounds
  BY ListOfKeys DEF ListInv
<1>1. i \in 0 .. Len(list)
  BY <1>0 DEF Rows
<1>2. /\ k \in Keys
      /\ i # 0 => Before(list[i], k)
      /\ i # Len(list) => Before(k, list[i + 1])
  <2>1. CASE i = Len(list)
    <3>1. Final \in Bounds /\ (i # 0 => Final = list[i])
      <4>1. <<>> \in Bounds
        BY DEF Bounds
      <4>2. QED  BY <1>0, <1>1, <2>1, <4>1 DEF Final, Last
    <3>2. KeyAfter(Final) \in Keys /\ Before(Final, KeyAfter(Final))
      BY <3>1, KeyAfterIsLater
    <3>3. QED  BY <2>1, <3>1, <3>2
  <2>2. CASE i # Len(list) /\ i = 0
    <3>1. list[1] \in Keys /\ <<>> \in Bounds
      BY <1>0, <2>2 DEF Bounds
    <3>2. Before(<<>>, list[1])
      <4>1. Len(list[1]) \in Nat \ {0}
        BY <3>1, EmptySeq DEF Keys, IsValidKey
      <4>2. 1 \in 1 .. Len(list[1]) /\ Len(<<>>) = 0
        BY <4>1
      <4>3. QED  BY <4>2 DEF Before
    <3>3. KeyBefore(list[1]) \in Keys /\ Before(KeyBefore(list[1]), list[1])
      BY <3>1, <3>2, KeyBetweenIsBetween DEF KeyBefore
    <3>4. QED  BY <1>0, <2>2, <3>3
  <2>3. CASE i # Len(list) /\ i # 0
    <3>1. i \in 1 .. Len(list) /\ i + 1 \in 1 .. Len(list) /\ i < i + 1
      BY <1>0, <1>1, <2>3
    <3>2. list[i] \in Bounds /\ list[i + 1] \in Keys /\ Before(list[i], list[i + 1])
      BY <1>0, <3>1 DEF Ascends
    <3>3. /\ KeyBetween(list[i], list[i + 1]) \in Keys
          /\ Before(list[i], KeyBetween(list[i], list[i + 1]))
          /\ Before(KeyBetween(list[i], list[i + 1]), list[i + 1])
      BY <3>2, KeyBetweenIsBetween
    <3>4. QED  BY <2>3, <3>3
  <2>4. QED  BY <2>1, <2>2, <2>3
<1>3. /\ Len(list) < MaxRows
      /\ IF NeedsRebalance(k) THEN Backstop(k) ELSE list' = InsertAt(list, i + 1, k)
  BY DEF InsertAfter
<1> HIDE DEF k
<1>4. CASE NeedsRebalance(k)
  BY <1>3, <1>4, BackstopKeeps
<1>5. CASE ~NeedsRebalance(k)
  <2>1. list' \in Seq(Keys) /\ Ascends(list') /\ Adds(list', list, k)
    BY <1>0, <1>1, <1>2, <1>3, <1>5, InsertAscends
  <2>2. QED  BY <1>0, <1>5, <2>1 DEF ListInv, Adds, Short
<1>6. QED  BY <1>4, <1>5

\* The keys the server mints.
LEMMA AddKeeps ==
    ASSUME ListInv, AddLast
    PROVE  ListInv'
<1>0. /\ list \in Seq(Keys) /\ Ascends(list) /\ Short(list) /\ Len(list) \in Nat
      /\ (list # <<>> <=> Len(list) # 0)
      /\ \A j \in 1 .. Len(list) : list[j] \in Keys /\ list[j] \in Bounds
  BY ListOfKeys DEF ListInv
<1>1. PICK k \in Jitter(KeyAfter(Final)) :
          IF NeedsRebalance(k) THEN Backstop(k) ELSE list' = Append(list, k)
  BY DEF AddLast
<1>2. Final \in Bounds /\ (list # <<>> => Final = list[Len(list)])
  <2>1. <<>> \in Bounds
    BY DEF Bounds
  <2>2. QED  BY <1>0, <2>1 DEF Final, Last
<1>3. KeyAfter(Final) \in Keys /\ Before(Final, KeyAfter(Final))
  BY <1>2, KeyAfterIsLater
<1>4. k \in Keys /\ Before(KeyAfter(Final), k)
  BY <1>3, JitterIsLater
<1>5. Before(Final, k)
  <2>1. Final \in Words /\ KeyAfter(Final) \in Words /\ k \in Words
    BY <1>2, <1>3, <1>4, BoundsAreWords DEF Keys
  <2>2. QED  BY <1>3, <1>4, <2>1, BeforeTransitive
<1>6. CASE NeedsRebalance(k)
  BY <1>1, <1>6, BackstopKeeps DEF AddLast
<1>7. CASE ~NeedsRebalance(k)
  <2>1. list' \in Seq(Keys) /\ Ascends(list') /\ Adds(list', list, k)
    BY <1>0, <1>1, <1>2, <1>4, <1>5, <1>7, AppendAscends
  <2>2. QED  BY <1>0, <1>7, <2>1 DEF ListInv, Adds, Short
<1>8. QED  BY <1>6, <1>7

LEMMA DropKeeps ==
    ASSUME ListInv, NEW i \in Rows, Drop(i)
    PROVE  ListInv'
<1>0. list \in Seq(Keys) /\ Ascends(list) /\ Short(list) /\ Len(list) \in Nat
  BY ListOfKeys DEF ListInv
<1>1. /\ list' \in Seq(Keys) /\ Ascends(list') /\ Len(list') = Len(list) - 1
      /\ \A j \in 1 .. Len(list) - 1 : list'[j] = list[IF j < i THEN j ELSE j + 1]
  BY <1>0, RemoveAscends DEF Drop, Rows
<1>2. ASSUME NEW j \in 1 .. Len(list') PROVE ~NeedsRebalance(list'[j])
  <2>1. /\ list'[j] = list[IF j < i THEN j ELSE j + 1]
        /\ (IF j < i THEN j ELSE j + 1) \in 1 .. Len(list)
    BY <1>0, <1>1
  <2>2. QED  BY <1>0, <2>1 DEF Short
<1>3. QED  BY <1>1, <1>2 DEF ListInv, Short

\* The invariant of a list changed by one request at a time: its keys are legal,
\* strictly ascending, and none calls for a rebalance.
THEOREM ListInvariance == ListSpec => []ListInv
<1>1. ListInit => ListInv
  BY EmptySeq DEF ListInit, ListInv, Ascends, Short
<1>2. ListInv /\ [ListNext]_list => ListInv'
  BY InsertKeeps, AddKeeps, DropKeeps DEF ListNext, ListInv
<1>3. QED  BY <1>1, <1>2, PTL DEF ListSpec

\* Every minted key lands strictly between its neighbours, whatever the base.
THEOREM KeysAscend == ListSpec => []Ascending
<1>1. ListInv => Ascending
  BY DEF ListInv, Ascending, Ascends, Rows
<1>2. QED  BY <1>1, ListInvariance, PTL

\* No stored key outgrows the threshold.
THEOREM KeysAreShort == ListSpec => []KeysStayShort
<1>1. ListInv => KeysStayShort
  BY DEF ListInv, KeysStayShort, Short, Rows
<1>2. QED  BY <1>1, ListInvariance, PTL

-----------------------------------------------------------------------------
(* The value of a key *)

LEMMA OneMoreDigit ==
    ASSUME NEW u \in Nat, NEW d \in Nat
    PROVE  Base * u + d \in Nat
<1>1. Base * u \in Nat
  OBVIOUS
<1>2. QED  BY <1>1

LEMMA LargerStaysLarger ==
    ASSUME NEW u \in Nat, NEW v \in Nat, NEW d \in Digits, NEW e \in Digits, u < v
    PROVE  Base * u + d < Base * v + e
<1>1. u + 1 \in Nat /\ u + 1 <= v
  OBVIOUS
<1>2. (u + 1) * Base <= v * Base
  BY <1>1, ProductMonotone
<1>3. /\ (u + 1) * Base = Base * u + Base /\ v * Base = Base * v
      /\ Base * u \in Nat /\ Base * v \in Nat
  OBVIOUS
<1> DEFINE x == Base * u
           y == Base * v
<1>4. x \in Nat /\ y \in Nat /\ x + Base <= y
  BY <1>2, <1>3
<1> HIDE DEF x, y
<1>5. x + d < y + e
  BY <1>4 DEF Digits
<1>6. QED  BY <1>5 DEF x, y

LEMMA ValueEquations ==
    ASSUME NEW k \in Seq(Digits)
    PROVE  /\ Value(k)[0] = 0
           /\ \A n \in Nat : /\ Value(k)[n] \in Nat
                             /\ Value(k)[n + 1] = Base * Value(k)[n] + DigitAt(k, n + 1)
<1> DEFINE S == Nat \X Nat
           step == [p \in S |-> <<p[1] + 1, Base * p[2] + DigitAt(k, p[1] + 1)>>]
           Body(v) == [n \in Nat |-> IF n = 0 THEN 0 ELSE Base * v[n - 1] + DigitAt(k, n)]
<1>0. \A n \in Nat : DigitAt(k, n + 1) \in Nat
  BY DigitIsDigit DEF Digits
<1>1. step \in [S -> S] /\ <<0, 0>> \in S
  <2>1. ASSUME NEW p \in S PROVE <<p[1] + 1, Base * p[2] + DigitAt(k, p[1] + 1)>> \in S
    <3>1. p[1] \in Nat /\ p[2] \in Nat /\ p[1] + 1 \in Nat
      OBVIOUS
    <3>2. Base * p[2] + DigitAt(k, p[1] + 1) \in Nat
      BY <1>0, <3>1, OneMoreDigit
    <3>3. QED  BY <3>1, <3>2
  <2>2. QED  BY <2>1
<1>2. PICK f : Recurs(f, S, <<0, 0>>, step)
  <2>1. ASSUME NEW next \in [S -> S]
        PROVE  \E f : Recurs(f, S, <<0, 0>>, next)
    BY <1>1, StepRecursion
  <2>2. QED  BY <1>1, <2>1
<1>3. f \in [Nat -> S] /\ f[0] = <<0, 0>> /\ \A n \in Nat : f[n + 1] = step[f[n]]
  BY <1>2 DEF Recurs
<1>4. \A n \in Nat : /\ f[n] \in S
                     /\ f[n + 1] = <<f[n][1] + 1, Base * f[n][2] + DigitAt(k, f[n][1] + 1)>>
  BY <1>3
<1>a. ASSUME NEW n \in Nat
      PROVE  /\ f[n][1] \in Nat /\ f[n][2] \in Nat
             /\ f[n + 1][1] = f[n][1] + 1
             /\ f[n + 1][2] = Base * f[n][2] + DigitAt(k, f[n][1] + 1)
  <2>1. f[n] \in Nat \X Nat
    BY <1>4
  <2>2. f[n + 1] = <<f[n][1] + 1, Base * f[n][2] + DigitAt(k, f[n][1] + 1)>>
    BY <1>4
  <2>3. QED  BY <2>1, <2>2
<1> HIDE DEF step, S
<1>5. \A n \in Nat : f[n][1] = n
  <2> DEFINE Good == {n \in Nat : f[n][1] = n}
  <2>1. 0 \in Good
    BY <1>3
  <2>2. \A n \in Good : n + 1 \in Good
    BY <1>a
  <2>3. Good \subseteq Nat  OBVIOUS
  <2> HIDE DEF Good
  <2>4. Good = Nat  BY <2>1, <2>2, <2>3, SetInduction
  <2>5. QED  BY <2>4 DEF Good
<1> DEFINE v == [n \in Nat |-> f[n][2]]
<1>6. v[0] = 0 /\ \A n \in Nat : v[n] \in Nat /\ v[n + 1] = Base * v[n] + DigitAt(k, n + 1)
  <2>1. f[0][2] = 0
    BY <1>3
  <2>2. ASSUME NEW n \in Nat
        PROVE  f[n][2] \in Nat /\ f[n + 1][2] = Base * f[n][2] + DigitAt(k, n + 1)
    BY <1>a, <1>5
  <2>3. \A n \in Nat : v[n] = f[n][2]
    OBVIOUS
  <2>4. \A n \in Nat : n + 1 \in Nat
    OBVIOUS
  <2> HIDE DEF v
  <2>5. QED  BY <2>1, <2>2, <2>3, <2>4
<1>7. v = Body(v)
  <2>0. v = [n \in Nat |-> v[n]]
    OBVIOUS
  <2> HIDE DEF v
  <2>1. ASSUME NEW n \in Nat
        PROVE  v[n] = IF n = 0 THEN 0 ELSE Base * v[n - 1] + DigitAt(k, n)
    <3>1. CASE n = 0
      BY <1>6, <3>1
    <3>2. CASE n # 0
      <4>1. n - 1 \in Nat /\ (n - 1) + 1 = n
        BY <3>2
      <4>2. QED  BY <1>6, <3>2, <4>1
    <3>3. QED  BY <3>1, <3>2
  <2>2. QED  BY <2>0, <2>1
<1>8. Value(k) = CHOOSE x : x = Body(x)
  BY DEF Value
<1> HIDE DEF Body, v
<1>9. Value(k) = Body(Value(k))
  BY <1>7, <1>8
<1> DEFINE x == Value(k)
<1>10. x = Body(x)
  BY <1>9
<1> HIDE DEF x
<1>11. x[0] = 0 /\ \A n \in Nat \ {0} : x[n] = Base * x[n - 1] + DigitAt(k, n)
  BY <1>10 DEF Body
<1>12. \A n \in Nat : x[n + 1] = Base * x[n] + DigitAt(k, n + 1)
  <2> SUFFICES ASSUME NEW n \in Nat PROVE x[n + 1] = Base * x[n] + DigitAt(k, n + 1)
    OBVIOUS
  <2>1. n + 1 \in Nat \ {0} /\ (n + 1) - 1 = n
    OBVIOUS
  <2>2. QED  BY <1>11, <2>1
<1>13. \A n \in Nat : x[n] \in Nat
  <2> DEFINE Good == {n \in Nat : x[n] \in Nat}
  <2>1. 0 \in Good  BY <1>11
  <2>2. ASSUME NEW n \in Good PROVE n + 1 \in Good
    <3>1. x[n] \in Nat /\ n \in Nat /\ x[n + 1] = Base * x[n] + DigitAt(k, n + 1)
      BY <1>12
    <3>2. x[n + 1] \in Nat
      BY <1>0, <3>1, OneMoreDigit
    <3>3. QED  BY <3>1, <3>2
  <2>3. Good \subseteq Nat  OBVIOUS
  <2> HIDE DEF Good
  <2>4. Good = Nat  BY <2>1, <2>2, <2>3, SetInduction
  <2>5. QED  BY <2>4 DEF Good
<1>14. QED  BY <1>11, <1>12, <1>13 DEF x

\* The digits decide in the order of their places.
LEMMA FirstDigitDecides ==
    ASSUME NEW a \in Seq(Digits), NEW b \in Seq(Digits), NEW n \in Nat, NEW w \in Nat, n < w,
           \A j \in 1 .. n : DigitAt(a, j) = DigitAt(b, j),
           DigitAt(a, n + 1) < DigitAt(b, n + 1)
    PROVE  Value(a)[w] < Value(b)[w]
<1> DEFINE x == Value(a)
           y == Value(b)
<1>1. /\ x[0] = 0 /\ y[0] = 0
      /\ \A m \in Nat : /\ x[m] \in Nat /\ y[m] \in Nat
                        /\ x[m + 1] = Base * x[m] + DigitAt(a, m + 1)
                        /\ y[m + 1] = Base * y[m] + DigitAt(b, m + 1)
  BY ValueEquations
<1>2. \A m \in Nat : DigitAt(a, m + 1) \in Digits /\ DigitAt(b, m + 1) \in Digits
  BY DigitIsDigit
<1> HIDE DEF x, y
<1> DEFINE Alike == {m \in Nat : m <= n => x[m] = y[m]}
           Below == {m \in Nat : m > n => x[m] < y[m]}
<1>3. Alike = Nat
  <2>1. 0 \in Alike  BY <1>1
  <2>2. ASSUME NEW m \in Alike PROVE m + 1 \in Alike
    <3> SUFFICES ASSUME m + 1 <= n PROVE x[m + 1] = y[m + 1]
      OBVIOUS
    <3>1. x[m] = y[m] /\ m + 1 \in 1 .. n /\ m \in Nat
      OBVIOUS
    <3>2. DigitAt(a, m + 1) = DigitAt(b, m + 1)
      BY <3>1
    <3>3. /\ x[m + 1] = Base * x[m] + DigitAt(a, m + 1)
          /\ y[m + 1] = Base * y[m] + DigitAt(b, m + 1)
      BY <1>1, <3>1
    <3>4. QED  BY <3>1, <3>2, <3>3, Zenon
  <2>3. Alike \subseteq Nat  OBVIOUS
  <2> HIDE DEF Alike
  <2>4. QED  BY <2>1, <2>2, <2>3, SetInduction
<1>4. Below = Nat
  <2>1. 0 \in Below  OBVIOUS
  <2>2. ASSUME NEW m \in Below PROVE m + 1 \in Below
    <3>1. /\ m \in Nat /\ x[m] \in Nat /\ y[m] \in Nat
          /\ x[m + 1] = Base * x[m] + DigitAt(a, m + 1)
          /\ y[m + 1] = Base * y[m] + DigitAt(b, m + 1)
          /\ DigitAt(a, m + 1) \in Digits /\ DigitAt(b, m + 1) \in Digits
      BY <1>1, <1>2
    <3>2. CASE m = n
      <4>1. x[m] = y[m]
        BY <1>3, <3>2
      <4> DEFINE z == Base * x[m]
      <4>2. z \in Nat /\ x[m + 1] = z + DigitAt(a, m + 1) /\ y[m + 1] = z + DigitAt(b, m + 1)
        BY <3>1, <4>1
      <4> HIDE DEF z
      <4>3. x[m + 1] < y[m + 1]
        BY <3>1, <3>2, <4>2 DEF Digits
      <4>4. QED  BY <3>1, <4>3
    <3>3. CASE m > n
      <4>1. x[m] < y[m]
        BY <3>3
      <4>2. x[m + 1] < y[m + 1]
        BY <3>1, <4>1, LargerStaysLarger
      <4>3. QED  BY <3>1, <4>2
    <3>4. CASE m < n
      BY <3>1, <3>4
    <3>5. QED  BY <3>1, <3>2, <3>3, <3>4
  <2>3. Below \subseteq Nat  OBVIOUS
  <2> HIDE DEF Below
  <2>4. QED  BY <2>1, <2>2, <2>3, SetInduction
<1>5. w \in Below
  BY <1>4
<1>6. QED  BY <1>5 DEF x, y

LEMMA LaterIsLarger ==
    ASSUME NEW a \in Keys, NEW b \in Keys, Before(a, b), NEW w \in Nat, w >= Len(b)
    PROVE  Value(a)[w] < Value(b)[w]
<1>1. a \in Seq(Digits) /\ b \in Seq(Digits) /\ a \in Bounds /\ Len(b) \in Nat
  BY BoundsAreWords DEF Keys, Bounds
<1>2. PICK n \in 0 .. Len(b) - 1 : Diverge(a, b, n)
  BY <1>1, SomewhereDiverge
<1>3. DigitAt(a, n + 1) < b[n + 1]
  BY <1>1, <1>2, DivergesBelow
<1>4. /\ \A j \in 1 .. n : DigitAt(a, j) = DigitAt(b, j)
      /\ DigitAt(a, n + 1) < DigitAt(b, n + 1)
  BY <1>1, <1>2, <1>3 DEF Diverge, DigitAt
<1>5. n \in Nat /\ n < w
  BY <1>1
<1>6. QED  BY <1>1, <1>4, <1>5, FirstDigitDecides

LEMMA LaterIffLarger ==
    ASSUME NEW a \in Keys, NEW b \in Keys
    PROVE  Before(a, b) <=> Value(a)[Len(a) + Len(b)] < Value(b)[Len(a) + Len(b)]
<1> DEFINE w == Len(a) + Len(b)
<1>1. a \in Words /\ b \in Words /\ a \in Seq(Digits) /\ b \in Seq(Digits)
  BY BoundsAreWords DEF Keys
<1>2. w \in Nat /\ w >= Len(a) /\ w >= Len(b)
  <2>1. Len(a) \in Nat /\ Len(b) \in Nat
    BY <1>1 DEF Words
  <2>2. QED  BY <2>1
<1> HIDE DEF w
<1>3. Value(a)[w] \in Nat /\ Value(b)[w] \in Nat
  BY <1>1, <1>2, ValueEquations
<1>4. CASE Before(a, b)
  BY <1>2, <1>4, LaterIsLarger DEF w
<1>5. CASE Before(b, a)
  <2>1. Value(b)[w] < Value(a)[w]
    BY <1>2, <1>5, LaterIsLarger
  <2>2. ~Before(a, b)
    BY <1>1, <1>5, BeforeAsymmetric
  <2>3. QED  BY <1>3, <2>1, <2>2 DEF w
<1>6. CASE a = b
  BY <1>1, <1>3, <1>6, BeforeIrreflexive DEF w
<1>7. QED  BY <1>1, <1>4, <1>5, <1>6, BeforeTotal

\* Codepoint order is the order of the fractions, and every key is legal.
THEOREM OrderAgreesWithValue == ListSpec => []OrderIsNumeric
<1>1. ListInv => OrderIsNumeric
  <2> SUFFICES ASSUME ListInv PROVE OrderIsNumeric
    OBVIOUS
  <2>1. \A i \in Rows : list[i] \in Keys
    BY ListOfKeys DEF ListInv, Rows
  <2>2. QED  BY <2>1, LaterIffLarger DEF OrderIsNumeric, Keys
<1>2. QED  BY <1>1, ListInvariance, PTL

USE PlacesAssumption

-----------------------------------------------------------------------------
(* The invariant *)

\* A request that claims a place tries a legal key; a rebalance has parked its rows,
\* and announced nothing yet, or given them legal keys and announced them all.
LegalRequest(q) ==
    /\ q.pc \in {"claim", "settle"} => q.key \in Keys
    /\ q.pc = "park" =>
         \A p \in Places : q.mine[p] \in {NoKey, Parked} /\ q.news[p] = NoKey
    /\ q.pc # "park" =>
         \A p \in Places : q.mine[p] \in Bounds /\ q.news[p] = q.mine[p]

\* The rows of the snapshot, while they are there, are the rows a rebalance writes.
SnapshotKept(q, at) ==
    /\ q.pc \in {"idle", "snapshot"} => ~q.rebalanced
    /\ q.pc = "park" => q.rebalanced
    /\ ~q.rebalanced => \A p \in Places : q.mine[p] = NoKey
    /\ q.pc # "idle" /\ q.op = "add" => q.place \in Places
    /\ \A i, j \in DOMAIN q.ids : q.ids[i] \in Places /\ q.ids[i] = q.ids[j] => i = j
    /\ \A i \in DOMAIN q.ids : q.ids[i] \in Places => at[q.ids[i]] # NoKey
    /\ \A p \in Places : q.mine[p] # NoKey => \E i \in DOMAIN q.ids : q.ids[i] = p
    /\ q.pc # "park" =>
         \A i \in DOMAIN q.ids : q.ids[i] \in Places => q.mine[q.ids[i]] # NoKey

\* The keys a rebalance has written are in no other place.
OwnSlots(q, at) ==
    q.pc # "park" =>
      \A p, x \in Places : q.mine[p] # NoKey =>
          /\ q.mine[p] = q.mine[x] => p = x
          /\ q.mine[x] = NoKey => q.mine[p] # at[x]

\* A rebalance has read the order of the rows nobody has displaced since, and its
\* keys keep the order it has read.
OrderRead(q, moved, at) ==
    /\ q.rebalanced =>
         \A a, b \in Places \ moved : at[a] # NoKey /\ Before(at[a], at[b]) =>
             \E i, j \in DOMAIN q.ids : i < j /\ q.ids[i] = a /\ q.ids[j] = b
    /\ q.pc # "park" =>
         \A i, j \in DOMAIN q.ids :
             i < j /\ q.ids[i] \in Places /\ q.ids[j] \in Places
                => Before(q.mine[q.ids[i]], q.mine[q.ids[j]])

SeenBy(q, at, p) == IF q.mine[p] # NoKey THEN q.mine[p] ELSE at[p]

\* A minted key is after every row it has seen and nobody has displaced since.
MintedLast(q, sn, at) ==
    q.pc \in {"claim", "settle"} /\ (q.asked = NoKey \/ q.rebalanced) /\ ~sn.rekeyed =>
        \A a \in Places \ sn.moved :
            SeenBy(q, at, a) # NoKey => Before(SeenBy(q, at, a), q.key)

Good(q, sn, at) ==
    /\ LegalRequest(q)
    /\ SnapshotKept(q, at)
    /\ OwnSlots(q, at)
    /\ OrderRead(q, sn.moved, at)
    /\ MintedLast(q, sn, at)

HeldRows(q) == {p \in Places : q.mine[p] # NoKey \/ (q.pc = "settle" /\ q.place = p)}

\* Two transactions hold different rows, and have written different keys.
Compatible(q, t) ==
    /\ HeldRows(q) \cap HeldRows(t) = {}
    /\ q.pc # "park" /\ t.pc # "park" =>
         \A p, x \in Places : q.mine[p] # NoKey => q.mine[p] # t.mine[x]

Inv ==
    /\ TypeOK
    /\ ListOrdered
    /\ ChannelAgrees
    /\ \A r \in Requests : Good(req[r], since[r], pos)
    /\ \A r, s \in Requests : r # s => Compatible(req[r], req[s])

-----------------------------------------------------------------------------
(* Keys and positions *)

LEMMA KeysAreStrings ==
    /\ Seq(Digits) \subseteq Strings /\ Keys \subseteq Strings /\ Bounds \subseteq Strings
    /\ Keys \subseteq Seq(Digits)
    /\ Strings \subseteq Words
    /\ NoKey \in Strings /\ NoKey \in Bounds /\ NoKey \notin Keys
    /\ Parked \in Strings /\ Parked \notin Bounds /\ Parked # NoKey
<1>1. Digits \subseteq 0 .. Base /\ 0 .. Base \subseteq Nat
  BY DEF Digits
<1>2. Seq(Digits) \subseteq Strings
  BY <1>1, SeqMonotonic DEF Strings
<1>3. Strings \subseteq Words
  BY <1>1, SeqMonotonic DEF Strings, Words
<1>4. NoKey \in Strings /\ NoKey \in Bounds /\ NoKey \notin Keys
  BY EmptySeq DEF Strings, NoKey, Bounds, Keys, IsValidKey
<1>5. Base \in 0 .. Base /\ Base \notin Digits
  BY DEF Digits
<1>6. Parked \in Strings /\ Len(Parked) = 1 /\ Parked[1] = Base
  BY <1>5 DEF Parked, Strings
<1>7. Parked # NoKey
  BY <1>6 DEF NoKey
<1>8. Parked \notin Keys
  <2>1. SUFFICES ASSUME Parked \in Seq(Digits) PROVE FALSE
    BY DEF Keys
  <2>2. Parked[1] \in Digits
    BY <1>6, <2>1, ElementOfSeq
  <2>3. QED  BY <1>5, <1>6, <2>2
<1>9. QED  BY <1>2, <1>3, <1>4, <1>6, <1>7, <1>8 DEF Bounds, Keys, NoKey

\* A legal position is a key.
LEMMA ValidIsKey ==
    ASSUME NEW k \in Strings, IsValidKey(k)
    PROVE  k \in Keys
<1>1. k \in [1 .. Len(k) -> 0 .. Base] /\ Len(k) \in Nat /\ DOMAIN k = 1 .. Len(k)
  BY LenProperties DEF Strings
<1>2. k \in [1 .. Len(k) -> Digits]
  BY <1>1 DEF IsValidKey
<1>3. k \in Seq(Digits)
  BY <1>1, <1>2, SeqDef
<1>4. QED  BY <1>3 DEF Keys

LEMMA PositionsAreKeys ==
    ASSUME TypeOK, ListOrdered
    PROVE  \A p \in Places : /\ pos[p] \in Bounds
                             /\ pos[p] # NoKey => pos[p] \in Keys
<1>1. ASSUME NEW p \in Places, pos[p] # NoKey PROVE pos[p] \in Keys
  BY <1>1, ValidIsKey DEF TypeOK, ListOrdered
<1>2. QED  BY <1>1 DEF Bounds, NoKey

LEMMA ClientKeysAreKeys ==
    ClientKeys \subseteq Keys /\ InitialKeys \subseteq Keys
BY DEF Keys

LEMMA CompatibleSymmetric ==
    ASSUME NEW q, NEW t, Compatible(q, t)
    PROVE  Compatible(t, q)
BY DEF Compatible

LEMMA HoldsIsHeldRows ==
    ASSUME NEW r \in Requests
    PROVE  Holds(r) = HeldRows(req[r])
BY DEF Holds, HeldRows

-----------------------------------------------------------------------------
(* Steps of one request that leave the list alone *)

SinceRecord == [moved : SUBSET Places, rekeyed : BOOLEAN]

LEMMA RequestStep ==
    ASSUME Inv, NEW r \in Requests, NEW q \in RequestRecord, NEW sn \in SinceRecord,
           req' = [req EXCEPT ![r] = q], since' = [since EXCEPT ![r] = sn],
           pos' = pos, client' = client, arrivals' \in 0 .. MaxArrivals,
           q.pc = "settle" => q.place \in Places,
           Good(q, sn, pos),
           \A s \in Requests \ {r} : Compatible(q, req[s])
    PROVE  Inv'
<1> USE DEF Inv
<1>1. /\ req'[r] = q /\ since'[r] = sn
      /\ \A s \in Requests \ {r} : req'[s] = req[s] /\ since'[s] = since[s]
  BY DEF TypeOK
<1>2. TypeOK'
  BY <1>1 DEF TypeOK, SinceRecord
<1>3. ListOrdered' /\ ChannelAgrees'
  BY DEF ListOrdered, ChannelAgrees
<1>4. \A s \in Requests : Good(req'[s], since'[s], pos')
  BY <1>1
<1>5. \A s, t \in Requests : s # t => Compatible(req'[s], req'[t])
  BY <1>1, CompatibleSymmetric
<1>6. QED  BY <1>2, <1>3, <1>4, <1>5

LEMMA SetStep ==
    ASSUME Inv, NEW r \in Requests, NEW q \in RequestRecord, Set(r, q),
           q.pc = "settle" => q.place \in Places,
           Good(q, since[r], pos),
           \A s \in Requests \ {r} : Compatible(q, req[s])
    PROVE  Inv'
<1>1. since[r] \in SinceRecord /\ since = [since EXCEPT ![r] = since[r]]
  BY DEF Inv, TypeOK, SinceRecord
<1>2. arrivals \in 0 .. MaxArrivals
  BY DEF Inv, TypeOK
<1>3. QED  BY <1>1, <1>2, RequestStep DEF Set, Keep

-----------------------------------------------------------------------------
(* Requests that hold nothing *)

\* A request that has written no row and tries a key of its client's.
LEMMA BlankIsGood ==
    ASSUME NEW q \in RequestRecord, NEW sn, NEW at,
           ~q.rebalanced, q.ids = <<>>, q.mine = [p \in Places |-> NoKey],
           q.news = [p \in Places |-> NoKey],
           q.pc \notin {"park", "settle"},
           q.pc = "claim" => q.key \in Keys /\ q.asked # NoKey,
           q.pc # "idle" /\ q.op = "add" => q.place \in Places
    PROVE  Good(q, sn, at) /\ \A t : Compatible(q, t)
<1>1. \A i \in DOMAIN q.ids : FALSE
  BY EmptySeq
<1>2. \A p \in Places : q.mine[p] = NoKey /\ q.news[p] = NoKey /\ NoKey \in Bounds
  BY KeysAreStrings
<1>3. LegalRequest(q)
  BY <1>2 DEF LegalRequest
<1>4. SnapshotKept(q, at)
  BY <1>1, <1>2 DEF SnapshotKept
<1>5. OwnSlots(q, at)
  BY <1>2 DEF OwnSlots
<1>6. OrderRead(q, sn.moved, at) /\ MintedLast(q, sn, at)
  BY <1>1 DEF OrderRead, MintedLast
<1>7. \A t : Compatible(q, t)
  BY <1>2 DEF Compatible, HeldRows
<1>8. QED  BY <1>3, <1>4, <1>5, <1>6, <1>7 DEF Good

LEMMA IdleIsRequest ==
    /\ Idle \in RequestRecord
    /\ \A sn, at : Good(Idle, sn, at)
    /\ \A t : Compatible(Idle, t)
<1>1. Idle \in RequestRecord
  <2>1. <<>> \in Seq(Places \cup {NoPlace})
    BY EmptySeq
  <2>2. [p \in Places |-> NoKey] \in [Places -> Strings] /\ NoKey \in Strings
    BY KeysAreStrings
  <2>3. QED  BY <2>1, <2>2 DEF Idle, RequestRecord, PCs
<1>2. QED  BY <1>1, BlankIsGood DEF Idle

LEMMA RollbackKeeps ==
    ASSUME Inv, NEW r \in Requests, Rollback(r)
    PROVE  Inv'
<1>1. Idle.pc = "idle"
  BY DEF Idle
<1>2. QED  BY <1>1, IdleIsRequest, SetStep DEF Rollback

LEMMA ArriveKeeps ==
    ASSUME Inv, NEW r \in Requests, NEW op \in {"add", "move"}, NEW p \in Places,
           NEW k \in ClientKeys \cup {NoKey}, op = "move" => k \in ClientKeys,
           Arrive(r, op, p, k)
    PROVE  Inv'
<1> DEFINE pc == CASE k = NoKey -> "mint"
                   [] k # NoKey /\ NeedsRebalance(k) -> "snapshot"
                   [] OTHER -> "claim"
           q == [Idle EXCEPT !.op = op, !.place = p, !.asked = k, !.key = k, !.pc = pc]
           sn == [moved |-> {}, rekeyed |-> FALSE]
<1>1. k \in Strings /\ (k # NoKey => k \in Keys)
  BY ClientKeysAreKeys, KeysAreStrings
<1>2. pc \in {"mint", "snapshot", "claim"} /\ (pc = "claim" => k # NoKey)
  OBVIOUS
<1> HIDE DEF pc
<1>3. q \in RequestRecord
  BY <1>1, <1>2, IdleIsRequest DEF RequestRecord, PCs
<1>4. /\ q.pc = pc /\ q.op = op /\ q.place = p /\ q.asked = k /\ q.key = k
      /\ ~q.rebalanced /\ q.ids = <<>>
      /\ q.mine = [x \in Places |-> NoKey] /\ q.news = [x \in Places |-> NoKey]
  BY DEF Idle
<1>5. sn \in SinceRecord
  BY DEF SinceRecord
<1>6. req' = [req EXCEPT ![r] = q] /\ since' = [since EXCEPT ![r] = sn]
  BY DEF Arrive, pc
<1>7. arrivals' \in 0 .. MaxArrivals /\ pos' = pos /\ client' = client
  BY DEF Arrive, Inv, TypeOK
<1> HIDE DEF q, sn
<1>8. Good(q, sn, pos) /\ \A t : Compatible(q, t)
  BY <1>1, <1>2, <1>3, <1>4, BlankIsGood
<1>9. q.pc # "settle"
  BY <1>2, <1>4
<1>10. QED  BY <1>3, <1>5, <1>6, <1>7, <1>8, <1>9, RequestStep

-----------------------------------------------------------------------------
(* Requests that move on with the rows they have *)

LEMMA MovesOn ==
    ASSUME NEW t, NEW q, NEW sn, NEW tn, NEW at,
           Good(t, tn, at), t.pc \notin {"idle", "park"},
           q.pc \notin {"idle", "park"}, q.pc = "snapshot" => ~q.rebalanced,
           q.rebalanced = t.rebalanced, q.ids = t.ids, q.mine = t.mine, q.news = t.news,
           q.op = t.op, q.place = t.place,
           q.pc \in {"claim", "settle"} => q.key \in Keys,
           ~t.rebalanced \/ sn = tn,
           MintedLast(q, sn, at)
    PROVE  Good(q, sn, at)
<1> USE DEF Good
<1>1. LegalRequest(q)
  BY DEF LegalRequest
<1>2. SnapshotKept(q, at)
  BY DEF SnapshotKept
<1>3. OwnSlots(q, at)
  BY DEF OwnSlots
<1>4. OrderRead(q, sn.moved, at)
  BY DEF OrderRead
<1>5. QED  BY <1>1, <1>2, <1>3, <1>4

LEMMA StaysCompatible ==
    ASSUME NEW t, NEW q, NEW x, Compatible(t, x), t.pc # "park", q.mine = t.mine,
           q.pc = "settle" => q.place \notin HeldRows(x)
    PROVE  Compatible(q, x)
<1>1. HeldRows(q) \cap HeldRows(x) = {}
  BY DEF Compatible, HeldRows
<1>2. QED  BY <1>1 DEF Compatible

\* The last position a request has seen.
LEMMA LastSeenIsLast ==
    ASSUME Inv, NEW r \in Requests, req[r].pc = "mint"
    PROVE  /\ LastSeen(r) \in Bounds
           /\ \A p \in Places : Seen(r, p) # NoKey =>
                 Seen(r, p) = LastSeen(r) \/ Before(Seen(r, p), LastSeen(r))
<1>1. \A p \in Places : Seen(r, p) \in Bounds
  BY PositionsAreKeys DEF Inv, Good, LegalRequest, Seen
<1>2. SeenKeys(r) \subseteq Keys
  BY <1>1 DEF SeenKeys, Bounds, NoKey
<1>3. IsFiniteSet(SeenKeys(r))
  <2> DEFINE seen == [p \in Places |-> Seen(r, p)]
             all == {Seen(r, p) : p \in Places}
  <2>1. seen \in Surjection(Places, all)
    BY DEF Surjection
  <2>2. IsFiniteSet(all)
    BY <2>1, FS_Surjection
  <2>3. SeenKeys(r) \in SUBSET all
    BY DEF SeenKeys
  <2>4. QED  BY <2>2, <2>3, FS_Subset
<1>4. CASE SeenKeys(r) = {}
  BY <1>4, KeysAreStrings DEF LastSeen, SeenKeys
<1>5. CASE SeenKeys(r) # {}
  <2>1. SeenKeys(r) \subseteq Words
    BY <1>2, KeysAreStrings
  <2>2. \E k \in SeenKeys(r) : \A l \in SeenKeys(r) : l = k \/ Before(l, k)
    BY <1>3, <1>5, <2>1, LastMember
  <2>3. /\ LastSeen(r) \in SeenKeys(r)
        /\ \A l \in SeenKeys(r) : l = LastSeen(r) \/ Before(l, LastSeen(r))
    BY <1>5, <2>2 DEF LastSeen
  <2>4. \A p \in Places : Seen(r, p) # NoKey => Seen(r, p) \in SeenKeys(r)
    BY DEF SeenKeys
  <2>5. QED  BY <1>2, <2>3, <2>4 DEF Bounds
<1>6. QED  BY <1>4, <1>5

LEMMA MintedAfterAll ==
    ASSUME Inv, NEW r \in Requests, req[r].pc = "mint",
           NEW k \in Jitter(KeyAfter(LastSeen(r)))
    PROVE  k \in Keys /\ \A p \in Places : Seen(r, p) # NoKey => Before(Seen(r, p), k)
<1> DEFINE last == LastSeen(r)
           next == KeyAfter(last)
<1>1. /\ last \in Bounds
      /\ \A p \in Places : Seen(r, p) # NoKey => Seen(r, p) = last \/ Before(Seen(r, p), last)
  BY LastSeenIsLast
<1> HIDE DEF last
<1>2. next \in Keys /\ Before(last, next)
  BY <1>1, KeyAfterIsLater
<1>3. k \in Keys /\ Before(next, k)
  BY <1>2, JitterIsLater DEF last
<1> HIDE DEF next
<1>4. last \in Words /\ next \in Words /\ k \in Words
  BY <1>1, <1>2, <1>3, KeysAreStrings
<1>5. Before(last, k)
  BY <1>2, <1>3, <1>4, BeforeTransitive
<1>6. \A p \in Places : Seen(r, p) \in Words
  BY PositionsAreKeys, KeysAreStrings DEF Inv, Good, LegalRequest, Seen
<1>7. QED  BY <1>1, <1>3, <1>4, <1>5, <1>6, BeforeTransitive

LEMMA MintKeeps ==
    ASSUME Inv, NEW r \in Requests, Mint(r)
    PROVE  Inv'
<1> DEFINE t == req[r]
           fresh == [moved |-> {}, rekeyed |-> FALSE]
<1>1. t \in RequestRecord /\ t.pc = "mint" /\ Good(t, since[r], pos)
  BY DEF Inv, TypeOK, Mint
<1>2. fresh \in SinceRecord /\ since[r] \in SinceRecord
  BY DEF Inv, TypeOK, SinceRecord
<1>3. arrivals \in 0 .. MaxArrivals
  BY DEF Inv, TypeOK
<1>4. PICK k \in Jitter(KeyAfter(LastSeen(r))) :
          IF t.rebalanced
          THEN Set(r, [t EXCEPT !.pc = "claim", !.key = k])
          ELSE Reads(r, IF NeedsRebalance(k)
                        THEN [t EXCEPT !.pc = "snapshot"]
                        ELSE [t EXCEPT !.pc = "claim", !.key = k])
  BY DEF Mint
<1>5. k \in Keys /\ \A p \in Places : SeenBy(t, pos, p) # NoKey => Before(SeenBy(t, pos, p), k)
  BY <1>1, MintedAfterAll DEF Seen, SeenBy
<1> DEFINE c == [t EXCEPT !.pc = "claim", !.key = k]
           s == [t EXCEPT !.pc = "snapshot"]
<1>6. /\ c \in RequestRecord /\ c.pc = "claim" /\ c.key = k
      /\ c.rebalanced = t.rebalanced /\ c.ids = t.ids /\ c.mine = t.mine /\ c.news = t.news
      /\ c.op = t.op /\ c.place = t.place
  BY <1>1, <1>5, KeysAreStrings DEF RequestRecord, PCs
<1>7. /\ s \in RequestRecord /\ s.pc = "snapshot"
      /\ s.rebalanced = t.rebalanced /\ s.ids = t.ids /\ s.mine = t.mine /\ s.news = t.news
      /\ s.op = t.op /\ s.place = t.place
  BY <1>1 DEF RequestRecord, PCs
<1>8. \A x \in Requests \ {r} : Compatible(t, req[x])
  BY DEF Inv
<1> HIDE DEF c, s, fresh
<1>9. ASSUME NEW sn, ~t.rebalanced \/ sn = since[r]
      PROVE  /\ Good(c, sn, pos)
             /\ \A x \in Requests \ {r} : Compatible(c, req[x])
  <2>1. MintedLast(c, sn, pos)
    BY <1>5, <1>6 DEF MintedLast, SeenBy
  <2>2. Good(c, sn, pos)
    BY <1>1, <1>5, <1>6, <1>9, <2>1, MovesOn
  <2>3. QED  BY <1>1, <1>6, <1>8, <2>2, StaysCompatible
<1>10. CASE t.rebalanced
  <2>1. Set(r, c)
    BY <1>4, <1>10 DEF c
  <2>2. QED  BY <1>6, <1>9, <2>1, SetStep
<1>11. CASE ~t.rebalanced /\ ~NeedsRebalance(k)
  <2>1. Reads(r, c)
    BY <1>4, <1>11 DEF c
  <2>2. Good(c, fresh, pos) /\ \A x \in Requests \ {r} : Compatible(c, req[x])
    BY <1>9, <1>11
  <2>3. QED  BY <1>2, <1>3, <1>6, <2>1, <2>2, RequestStep DEF Reads, fresh
<1>12. CASE ~t.rebalanced /\ NeedsRebalance(k)
  <2>1. Reads(r, s)
    BY <1>4, <1>12 DEF s
  <2>2. MintedLast(s, fresh, pos)
    BY <1>7 DEF MintedLast
  <2>3. Good(s, fresh, pos)
    BY <1>1, <1>7, <1>12, <2>2, MovesOn
  <2>4. \A x \in Requests \ {r} : Compatible(s, req[x])
    BY <1>1, <1>7, <1>8, StaysCompatible
  <2>5. QED  BY <1>2, <1>3, <1>7, <2>1, <2>3, <2>4, RequestStep DEF Reads, fresh
<1>13. QED  BY <1>10, <1>11, <1>12

-----------------------------------------------------------------------------
(* An attempt *)

\* The row of a request that starts its attempt is held by nobody else.
LEMMA ClaimsRow ==
    ASSUME Inv, NEW r \in Requests, req[r].pc = "claim", Blockers(r) = {},
           req[r].place \in Places,
           Set(r, [req[r] EXCEPT !.pc = "settle"])
    PROVE  Inv'
<1> DEFINE t == req[r]
           q == [t EXCEPT !.pc = "settle"]
<1>1. t \in RequestRecord /\ t.pc = "claim" /\ Good(t, since[r], pos)
  BY DEF Inv, TypeOK
<1>2. /\ q \in RequestRecord /\ q.pc = "settle" /\ q.key = t.key /\ q.asked = t.asked
      /\ q.rebalanced = t.rebalanced /\ q.ids = t.ids /\ q.mine = t.mine /\ q.news = t.news
      /\ q.op = t.op /\ q.place = t.place
  BY <1>1 DEF RequestRecord, PCs
<1>3. RowHolders(r, t.place) = {}
  BY <1>1 DEF Blockers
<1> HIDE DEF q
<1>4. MintedLast(q, since[r], pos)
  BY <1>1, <1>2 DEF Good, MintedLast, SeenBy
<1>5. q.key \in Keys
  BY <1>1, <1>2 DEF Good, LegalRequest
<1>6. Good(q, since[r], pos)
  BY <1>1, <1>2, <1>4, <1>5, MovesOn
<1>7. \A x \in Requests \ {r} : Compatible(q, req[x])
  <2>1. ASSUME NEW x \in Requests \ {r} PROVE Compatible(q, req[x])
    <3>1. t.place \notin HeldRows(req[x])
      BY <1>3, HoldsIsHeldRows DEF RowHolders
    <3>2. Compatible(t, req[x])
      BY DEF Inv
    <3>3. QED  BY <1>1, <1>2, <3>1, <3>2, StaysCompatible
  <2>2. QED  BY <2>1
<1>8. Set(r, q)
  BY DEF q
<1>9. q.place \in Places
  BY <1>2
<1>10. QED  BY <1>2, <1>6, <1>7, <1>8, <1>9, SetStep

\* A second attempt tries a key after the first one.
LEMMA RetriesLater ==
    ASSUME Inv, NEW r \in Requests, req[r].pc = "settle", NEW k \in Jitter(req[r].key),
           Set(r, [req[r] EXCEPT !.pc = "claim", !.key = k, !.retried = TRUE])
    PROVE  Inv'
<1> DEFINE t == req[r]
           q == [t EXCEPT !.pc = "claim", !.key = k, !.retried = TRUE]
<1>1. t \in RequestRecord /\ t.pc = "settle" /\ Good(t, since[r], pos)
  BY DEF Inv, TypeOK
<1>2. t.key \in Keys
  BY <1>1 DEF Good, LegalRequest
<1>3. k \in Keys /\ Before(t.key, k)
  BY <1>2, JitterIsLater
<1>4. /\ q \in RequestRecord /\ q.pc = "claim" /\ q.key = k /\ q.asked = t.asked
      /\ q.rebalanced = t.rebalanced /\ q.ids = t.ids /\ q.mine = t.mine /\ q.news = t.news
      /\ q.op = t.op /\ q.place = t.place
  BY <1>1, <1>3, KeysAreStrings DEF RequestRecord, PCs
<1> HIDE DEF q
<1>5. MintedLast(q, since[r], pos)
  <2> SUFFICES ASSUME t.asked = NoKey \/ t.rebalanced, ~since[r].rekeyed,
                      NEW a \in Places \ since[r].moved, SeenBy(t, pos, a) # NoKey
               PROVE  Before(SeenBy(t, pos, a), k)
    BY <1>4 DEF MintedLast, SeenBy
  <2>1. Before(SeenBy(t, pos, a), t.key)
    BY <1>1 DEF Good, MintedLast
  <2>2. SeenBy(t, pos, a) \in Words /\ t.key \in Words /\ k \in Words
    BY <1>1, <1>2, <1>3, PositionsAreKeys, KeysAreStrings
    DEF Good, LegalRequest, SeenBy, Inv
  <2>3. QED  BY <1>3, <2>1, <2>2, BeforeTransitive
<1>6. Good(q, since[r], pos)
  BY <1>1, <1>3, <1>4, <1>5, MovesOn
<1>7. \A x \in Requests \ {r} : Compatible(q, req[x])
  BY <1>1, <1>4, StaysCompatible DEF Inv
<1>8. Set(r, q)
  BY DEF q
<1>9. q.pc # "settle"
  BY <1>4
<1>10. QED  BY <1>4, <1>6, <1>7, <1>8, <1>9, SetStep

-----------------------------------------------------------------------------
(* A rebalance *)

ListedRows == {p \in Places : pos[p] # NoKey}

\* The snapshot has every row once, in order.
LEMMA SnapshotIsOrdered ==
    ASSUME Inv, NEW ids \in [1 .. Cardinality(ListedRows) -> ListedRows],
           \A i, j \in DOMAIN ids : i < j => Before(pos[ids[i]], pos[ids[j]])
    PROVE  /\ ids \in Seq(Places \cup {NoPlace})
           /\ \A i, j \in DOMAIN ids : ids[i] = ids[j] => i = j
           /\ \A p \in ListedRows : \E i \in DOMAIN ids : ids[i] = p
           /\ \A a, b \in ListedRows : Before(pos[a], pos[b]) =>
                 \E i, j \in DOMAIN ids : i < j /\ ids[i] = a /\ ids[j] = b
<1>1. ListedRows \subseteq Places
  BY DEF ListedRows
<1>2. IsFiniteSet(ListedRows) /\ Cardinality(ListedRows) \in Nat
  BY <1>1, FS_Subset, FS_CardinalityType
<1>3. ids \in Seq(Places \cup {NoPlace})
  <2>1. ids \in [1 .. Cardinality(ListedRows) -> Places \cup {NoPlace}]
    BY <1>1
  <2>2. QED  BY <1>2, <2>1, SeqDef
<1>4. DOMAIN ids = 1 .. Cardinality(ListedRows)
  OBVIOUS
<1>5. \A p \in ListedRows : pos[p] \in Words
  BY <1>1, PositionsAreKeys, KeysAreStrings DEF Inv
<1>6. \A i, j \in DOMAIN ids : ids[i] = ids[j] => i = j
  <2>1. ASSUME NEW i \in DOMAIN ids, NEW j \in DOMAIN ids, i < j PROVE ids[i] # ids[j]
    <3>1. Before(pos[ids[i]], pos[ids[j]]) /\ pos[ids[i]] \in Words
      BY <1>5, <2>1
    <3>2. QED  BY <3>1, BeforeIrreflexive
  <2>2. \A i, j \in DOMAIN ids : i < j \/ j < i \/ i = j
    BY <1>2, <1>4
  <2>3. QED  BY <2>1, <2>2
<1>7. \A p \in ListedRows : \E i \in DOMAIN ids : ids[i] = p
  <2>1. ids \in Injection(1 .. Cardinality(ListedRows), ListedRows)
    BY <1>4, <1>6 DEF Injection, IsInjective
  <2>2. /\ IsFiniteSet(1 .. Cardinality(ListedRows))
        /\ Cardinality(1 .. Cardinality(ListedRows)) = Cardinality(ListedRows)
    BY <1>2, FS_Interval
  <2>3. ids \in Surjection(1 .. Cardinality(ListedRows), ListedRows)
    BY <1>2, <2>1, <2>2, FS_Injection
  <2>4. QED  BY <1>4, <2>3 DEF Surjection
<1>8. ASSUME NEW a \in ListedRows, NEW b \in ListedRows, Before(pos[a], pos[b])
      PROVE  \E i, j \in DOMAIN ids : i < j /\ ids[i] = a /\ ids[j] = b
  <2>1. PICK i \in DOMAIN ids, j \in DOMAIN ids : ids[i] = a /\ ids[j] = b
    BY <1>7
  <2>2. pos[a] \in Words /\ pos[b] \in Words
    BY <1>5
  <2>3. ~(i = j)
    BY <1>8, <2>1, <2>2, BeforeIrreflexive
  <2>4. ~(j < i)
    <3>1. SUFFICES ASSUME j < i PROVE FALSE
      OBVIOUS
    <3>2. Before(pos[b], pos[a])
      BY <2>1, <3>1
    <3>3. QED  BY <1>8, <2>2, <3>2, BeforeAsymmetric
  <2>5. i < j
    BY <1>2, <1>4, <2>3, <2>4
  <2>6. QED  BY <2>1, <2>5
<1>9. QED  BY <1>3, <1>6, <1>7, <1>8

LEMMA SnapshotKeeps ==
    ASSUME Inv, NEW r \in Requests, Snapshot(r)
    PROVE  Inv'
<1> DEFINE t == req[r]
           rows == ListedRows
           fresh == [moved |-> {}, rekeyed |-> FALSE]
<1>1. t \in RequestRecord /\ t.pc = "snapshot" /\ Good(t, since[r], pos)
  BY DEF Inv, TypeOK, Snapshot
<1>2. fresh \in SinceRecord
  BY DEF SinceRecord
<1>3. PICK ids \in [1 .. Cardinality(rows) -> rows] :
          /\ \A i, j \in DOMAIN ids : i < j => Before(pos[ids[i]], pos[ids[j]])
          /\ Reads(r, [t EXCEPT !.ids = ids, !.rebalanced = TRUE,
                                !.pc = IF rows = {} THEN "mint" ELSE "park"])
  BY DEF Snapshot, ListedRows
<1>4. /\ ids \in Seq(Places \cup {NoPlace})
      /\ \A i, j \in DOMAIN ids : ids[i] = ids[j] => i = j
      /\ \A p \in rows : \E i \in DOMAIN ids : ids[i] = p
      /\ \A a, b \in rows : Before(pos[a], pos[b]) =>
            \E i, j \in DOMAIN ids : i < j /\ ids[i] = a /\ ids[j] = b
  BY <1>3, SnapshotIsOrdered
<1> DEFINE q == [t EXCEPT !.ids = ids, !.rebalanced = TRUE,
                          !.pc = IF rows = {} THEN "mint" ELSE "park"]
<1>5. /\ q \in RequestRecord /\ q.pc = (IF rows = {} THEN "mint" ELSE "park")
      /\ q.rebalanced /\ q.ids = ids /\ q.mine = t.mine /\ q.news = t.news
      /\ q.op = t.op /\ q.place = t.place
  BY <1>1, <1>4 DEF RequestRecord, PCs
<1>6. Reads(r, q)
  BY <1>3
<1> HIDE DEF q
<1>7. \A p \in Places : t.mine[p] = NoKey /\ t.news[p] = NoKey
  BY <1>1 DEF Good, LegalRequest, SnapshotKept
<1>8. \A i \in DOMAIN ids : ids[i] \in rows /\ pos[ids[i]] # NoKey
  BY <1>3 DEF ListedRows
<1>9. NoKey \in Bounds
  BY KeysAreStrings
<1>10. LegalRequest(q)
  BY <1>5, <1>7, <1>9 DEF LegalRequest
<1>11. SnapshotKept(q, pos)
  <2>1. q.pc = "mint" => \A i \in DOMAIN ids : FALSE
    BY <1>5, <1>8
  <2>2. q.op = "add" => q.place \in Places
    BY <1>1, <1>5 DEF Good, SnapshotKept
  <2>3. q.pc \in {"mint", "park"}
    BY <1>5
  <2>4. QED  BY <1>4, <1>5, <1>7, <1>8, <2>1, <2>2, <2>3 DEF SnapshotKept
<1>12. OwnSlots(q, pos)
  BY <1>5, <1>7 DEF OwnSlots
<1>13. OrderRead(q, fresh.moved, pos)
  <2>1. ASSUME NEW a \in Places, NEW b \in Places, pos[a] # NoKey, Before(pos[a], pos[b])
        PROVE  pos[b] # NoKey
    BY <2>1 DEF Before, NoKey
  <2>2. \A a, b \in Places : pos[a] # NoKey /\ Before(pos[a], pos[b]) =>
            \E i, j \in DOMAIN ids : i < j /\ ids[i] = a /\ ids[j] = b
    BY <1>4, <2>1 DEF ListedRows
  <2>3. rows # {} \/ \A i \in DOMAIN ids : FALSE
    BY <1>8
  <2>4. QED  BY <1>5, <2>2, <2>3 DEF OrderRead
<1>14. MintedLast(q, fresh, pos)
  BY <1>5 DEF MintedLast
<1>15. Good(q, fresh, pos)
  BY <1>10, <1>11, <1>12, <1>13, <1>14 DEF Good
<1>16. \A x \in Requests \ {r} : Compatible(q, req[x])
  BY <1>5, <1>7 DEF Compatible, HeldRows
<1>17. q.pc # "settle" /\ arrivals \in 0 .. MaxArrivals
  BY <1>5 DEF Inv, TypeOK
<1> HIDE DEF fresh
<1>18. QED  BY <1>2, <1>5, <1>6, <1>15, <1>16, <1>17, RequestStep DEF Reads, fresh

LEMMA ParkKeeps ==
    ASSUME Inv, NEW r \in Requests, NEW p \in Places, Park(r, p)
    PROVE  Inv'
<1> DEFINE t == req[r]
           q == [t EXCEPT !.mine[p] = Parked, !.news[p] = Announcement(pos[p], Parked)]
<1>1. t \in RequestRecord /\ t.pc = "park" /\ Good(t, since[r], pos)
  BY DEF Inv, TypeOK, Park
<1>2. Announcement(pos[p], Parked) = NoKey
  BY DEF Announcement
<1>3. Parked \in Strings /\ NoKey \in Strings /\ Parked # NoKey
  BY KeysAreStrings
<1>4. t.mine \in [Places -> Strings] /\ t.news \in [Places -> Strings]
  BY <1>1 DEF RequestRecord
<1>5. /\ q \in RequestRecord /\ q.pc = "park" /\ q.ids = t.ids
      /\ q.rebalanced = t.rebalanced /\ q.op = t.op /\ q.place = t.place
      /\ q.mine = [t.mine EXCEPT ![p] = Parked]
      /\ q.news = [t.news EXCEPT ![p] = NoKey]
  BY <1>1, <1>2, <1>3, <1>4 DEF RequestRecord
<1>6. Set(r, q)
  BY DEF Park
<1> HIDE DEF q
<1>7. /\ q.mine[p] = Parked /\ q.news[p] = NoKey
      /\ \A x \in Places \ {p} : q.mine[x] = t.mine[x] /\ q.news[x] = t.news[x]
  BY <1>4, <1>5
<1>8. PICK i \in DOMAIN t.ids : t.ids[i] = p
  BY DEF Park, Unparked
<1>9. LegalRequest(q)
  BY <1>1, <1>5, <1>7 DEF LegalRequest, Good
<1>10. SnapshotKept(q, pos)
  BY <1>1, <1>5, <1>7, <1>8 DEF SnapshotKept, Good
<1>11. OwnSlots(q, pos) /\ OrderRead(q, since[r].moved, pos) /\ MintedLast(q, since[r], pos)
  BY <1>1, <1>5 DEF OwnSlots, OrderRead, MintedLast, Good
<1>12. ASSUME NEW x \in Requests \ {r} PROVE Compatible(q, req[x])
  <2>1. p \notin HeldRows(req[x])
    BY HoldsIsHeldRows DEF Park, RowHolders
  <2>2. Compatible(t, req[x])
    BY DEF Inv
  <2>3. HeldRows(q) \subseteq HeldRows(t) \cup {p}
    BY <1>1, <1>5, <1>7 DEF HeldRows
  <2>4. QED  BY <1>5, <2>1, <2>2, <2>3 DEF Compatible
<1>13. QED
  BY <1>5, <1>6, <1>9, <1>10, <1>11, <1>12, SetStep DEF Good

\* The keys a rebalance gives its rows.
LEMMA FinalKeys ==
    ASSUME Inv, NEW r \in Requests
    PROVE  LET ids == req[r].ids
               final == FinalKey(r)
           IN  /\ DOMAIN final = {p \in Places : \E i \in DOMAIN ids : ids[i] = p}
               /\ \A p \in DOMAIN final : final[p] \in Keys
               /\ \A p, x \in DOMAIN final : final[p] = final[x] => p = x
               /\ \A i, j \in DOMAIN ids : i < j /\ ids[i] \in Places /\ ids[j] \in Places
                     => Before(final[ids[i]], final[ids[j]])
<1> DEFINE ids == req[r].ids
           final == FinalKey(r)
           keys == RebalanceKeys(Len(ids))
           place(p) == CHOOSE i \in DOMAIN ids : ids[i] = p
<1>1. ids \in Seq(Places \cup {NoPlace}) /\ Good(req[r], since[r], pos)
  BY DEF Inv, TypeOK, RequestRecord
<1>2. Len(ids) \in Nat /\ DOMAIN ids = 1 .. Len(ids)
      /\ \A i \in DOMAIN ids : ids[i] \in Places \cup {NoPlace}
  BY <1>1, LenProperties
<1>3. final = [p \in {ids[i] : i \in DOMAIN ids} \ {NoPlace} |-> keys[place(p)]]
  BY DEF FinalKey
<1>4. DOMAIN final = {p \in Places : \E i \in DOMAIN ids : ids[i] = p}
  BY <1>2, <1>3
<1>5. ASSUME NEW i \in DOMAIN ids, ids[i] \in Places
      PROVE  final[ids[i]] = keys[i]
  <2>1. \A j \in DOMAIN ids : ids[i] = ids[j] => i = j
    BY <1>1, <1>5 DEF Good, SnapshotKept
  <2>2. place(ids[i]) = i
    BY <2>1
  <2>3. ids[i] \in DOMAIN final
    BY <1>4, <1>5
  <2>4. \A p \in DOMAIN final : final[p] = keys[place(p)]
    BY <1>3
  <2>5. final[ids[i]] = keys[place(ids[i])]
    BY <2>3, <2>4
  <2>6. QED  BY <2>2, <2>5
<1> HIDE DEF keys, final, place
<1>6. ASSUME NEW i \in DOMAIN ids
      PROVE  /\ keys[i] \in Keys
             /\ \A j \in DOMAIN ids : i < j => Before(keys[i], keys[j])
  <2>1. Len(ids) \in Nat \ {0}
    BY <1>2
  <2>2. QED  BY <1>2, <2>1, RebalancedKeys DEF keys
<1>7. ASSUME NEW i \in DOMAIN ids, NEW j \in DOMAIN ids, i # j PROVE keys[i] # keys[j]
  <2>1. keys[i] \in Words /\ keys[j] \in Words
    BY <1>6, KeysAreStrings
  <2>2. i < j \/ j < i
    BY <1>2, <1>7
  <2>3. QED  BY <1>6, <2>1, <2>2, BeforeIrreflexive
<1>8. \A p \in DOMAIN final : final[p] \in Keys
  BY <1>4, <1>5, <1>6
<1>9. \A p, x \in DOMAIN final : final[p] = final[x] => p = x
  BY <1>4, <1>5, <1>7
<1>10. \A i, j \in DOMAIN ids : i < j /\ ids[i] \in Places /\ ids[j] \in Places
           => Before(final[ids[i]], final[ids[j]])
  BY <1>5, <1>6
<1>11. QED  BY <1>4, <1>8, <1>9, <1>10 DEF final

LEMMA RekeyKeeps ==
    ASSUME Inv, NEW r \in Requests, Rekey(r)
    PROVE  Inv'
<1> DEFINE t == req[r]
           final == FinalKey(r)
           rows == DOMAIN final
           mine == [p \in Places |-> IF p \in rows THEN final[p] ELSE t.mine[p]]
           news == [p \in Places |-> IF p \in rows THEN Announcement(Parked, final[p])
                                     ELSE t.news[p]]
           q == [t EXCEPT !.pc = "mint", !.mine = mine, !.news = news]
<1>1. t \in RequestRecord /\ t.pc = "park" /\ Good(t, since[r], pos)
  BY DEF Inv, TypeOK, Rekey
<1>2. CASE \E p \in rows : Taken(r, final[p], rows)
  BY <1>2, RollbackKeeps DEF Rekey
<1>3. CASE ~\E p \in rows : Taken(r, final[p], rows)
  <2>1. Set(r, q)
    BY <1>3 DEF Rekey
  <2>2. /\ rows = {p \in Places : \E i \in DOMAIN t.ids : t.ids[i] = p}
        /\ \A p \in rows : final[p] \in Keys
        /\ \A p, x \in rows : final[p] = final[x] => p = x
        /\ \A i, j \in DOMAIN t.ids : i < j /\ t.ids[i] \in Places /\ t.ids[j] \in Places
              => Before(final[t.ids[i]], final[t.ids[j]])
    BY FinalKeys
  <2>3. \A p \in rows : KeyHolders(r, final[p]) = {}
    BY <1>1 DEF Rekey, Blockers
  <2>4. \A p \in rows : t.mine[p] # NoKey
    BY <2>2 DEF Rekey, Unparked
  <2>5. \A p \in rows : \A x \in Places \ rows : Seen(r, x) # final[p]
    BY <1>3 DEF Taken
  <2> HIDE DEF final, rows
  <2>6. \A p \in Places \ rows : t.mine[p] = NoKey /\ t.news[p] = NoKey
    BY <1>1, <2>2 DEF Good, SnapshotKept, LegalRequest
  <2>7. \A p \in rows : /\ final[p] \in Keys /\ final[p] # NoKey
                        /\ Announcement(Parked, final[p]) = final[p]
    BY <2>2, KeysAreStrings DEF Announcement, Bounds
  <2>8. \A p \in Places : /\ p \in rows => mine[p] = final[p] /\ news[p] = final[p]
                          /\ p \notin rows => mine[p] = NoKey /\ news[p] = NoKey
    BY <2>6, <2>7
  <2>9. mine \in [Places -> Strings] /\ news \in [Places -> Strings]
    BY <2>2, <2>7, <2>8, KeysAreStrings
  <2> HIDE DEF mine, news
  <2>10. /\ q \in RequestRecord /\ q.pc = "mint" /\ q.mine = mine /\ q.news = news
         /\ q.rebalanced = t.rebalanced /\ q.ids = t.ids /\ q.op = t.op /\ q.place = t.place
    BY <1>1, <2>9 DEF RequestRecord, PCs
  <2> HIDE DEF q
  <2>11. LegalRequest(q)
    BY <2>7, <2>8, <2>10, KeysAreStrings DEF LegalRequest, Bounds
  <2>12. SnapshotKept(q, pos)
    <3>1. \A i \in DOMAIN t.ids : t.ids[i] \in Places => t.ids[i] \in rows
      BY <2>2
    <3>2. \A p \in Places : mine[p] # NoKey => \E i \in DOMAIN t.ids : t.ids[i] = p
      BY <2>2, <2>8
    <3>3. \A i \in DOMAIN t.ids : t.ids[i] \in Places => mine[t.ids[i]] # NoKey
      BY <2>7, <2>8, <3>1
    <3>4. QED  BY <1>1, <2>10, <3>2, <3>3 DEF Good, SnapshotKept
  <2>13. OwnSlots(q, pos)
    <3> SUFFICES ASSUME NEW p \in Places, NEW x \in Places, mine[p] # NoKey
                 PROVE  /\ mine[p] = mine[x] => p = x
                        /\ mine[x] = NoKey => mine[p] # pos[x]
      BY <2>10 DEF OwnSlots
    <3>1. p \in rows /\ mine[p] = final[p]
      BY <2>8
    <3>2. CASE x \in rows
      BY <2>2, <2>7, <2>8, <3>1, <3>2
    <3>3. CASE x \notin rows
      <4>1. Seen(r, x) = pos[x]
        BY <2>6, <3>3 DEF Seen
      <4>2. QED  BY <2>5, <2>7, <2>8, <3>1, <3>3, <4>1
    <3>4. QED  BY <3>2, <3>3
  <2>14. OrderRead(q, since[r].moved, pos)
    <3>1. \A i, j \in DOMAIN t.ids : i < j /\ t.ids[i] \in Places /\ t.ids[j] \in Places
             => Before(mine[t.ids[i]], mine[t.ids[j]])
      BY <2>2, <2>8
    <3>2. QED  BY <1>1, <2>10, <3>1 DEF Good, OrderRead
  <2>15. MintedLast(q, since[r], pos)
    BY <2>10 DEF MintedLast
  <2>16. ASSUME NEW x \in Requests \ {r} PROVE Compatible(q, req[x])
    <3>1. HeldRows(q) \subseteq HeldRows(t)
      BY <2>4, <2>8, <2>10 DEF HeldRows
    <3>2. HeldRows(t) \cap HeldRows(req[x]) = {}
      BY DEF Inv, Compatible
    <3>3. ASSUME NEW p \in Places, NEW y \in Places, mine[p] # NoKey
          PROVE  mine[p] # req[x].mine[y]
      <4>1. p \in rows /\ mine[p] = final[p] /\ final[p] # NoKey
        BY <2>7, <2>8, <3>3
      <4>2. x \notin KeyHolders(r, final[p])
        BY <2>3, <4>1
      <4>3. y \in Holds(x) => req[x].mine[y] # final[p]
        BY <4>2 DEF KeyHolders
      <4>4. req[x].mine[y] # NoKey => y \in Holds(x)
        BY DEF Holds
      <4>5. QED  BY <4>1, <4>3, <4>4
    <3>4. QED  BY <2>10, <3>1, <3>2, <3>3 DEF Compatible
  <2>17. Good(q, since[r], pos)
    BY <2>11, <2>12, <2>13, <2>14, <2>15 DEF Good
  <2>18. q.pc # "settle"
    BY <2>10
  <2>19. QED  BY <2>1, <2>10, <2>16, <2>17, <2>18, SetStep
<1>4. QED  BY <1>2, <1>3

-----------------------------------------------------------------------------
(* A commit *)

\* The rows a request may commit: none, or its own at a key that nobody holds.
Commits(r, own) ==
    /\ req[r].pc \in {"claim", "settle"}
    /\ own \subseteq {req[r].place} \cap Places
    /\ own # {} => KeyHolders(r, req[r].key) = {} /\ ~Taken(r, req[r].key, own)
    /\ Commit(r, own)

\* What a transaction sees keeps the order of the rows that nobody has displaced
\* since it read the list.
LEMMA SeenKeepsOrder ==
    ASSUME NEW q, NEW sn, NEW at, Good(q, sn, at), q.pc # "park",
           \A p \in Places : q.mine[p] \in Strings /\ at[p] \in Strings,
           NEW a \in Places, NEW b \in Places,
           q.rebalanced => a \notin sn.moved /\ b \notin sn.moved,
           at[a] # NoKey, Before(at[a], at[b])
    PROVE  Before(SeenBy(q, at, a), SeenBy(q, at, b))
<1>1. CASE ~q.rebalanced
  BY <1>1 DEF Good, SnapshotKept, SeenBy
<1>2. CASE q.rebalanced
  <2>1. PICK i \in DOMAIN q.ids, j \in DOMAIN q.ids : i < j /\ q.ids[i] = a /\ q.ids[j] = b
    BY <1>2 DEF Good, OrderRead
  <2>2. Before(q.mine[a], q.mine[b])
    BY <2>1 DEF Good, OrderRead
  <2>3. q.mine[a] # NoKey /\ q.mine[b] # NoKey
    BY <2>1 DEF Good, SnapshotKept
  <2>4. QED  BY <2>2, <2>3 DEF SeenBy
<1>3. QED  BY <1>1, <1>2

\* Hence the order it sees is the order that was committed.
LEMMA SeenOrderIsOld ==
    ASSUME NEW q, NEW sn, NEW at, Good(q, sn, at), q.pc # "park",
           \A p \in Places : q.mine[p] \in Strings /\ at[p] \in Strings,
           \A p, x \in Places : at[p] # NoKey /\ at[p] = at[x] => p = x,
           NEW a \in Places, NEW b \in Places,
           q.rebalanced => a \notin sn.moved /\ b \notin sn.moved,
           SeenBy(q, at, a) # NoKey, Before(SeenBy(q, at, a), SeenBy(q, at, b))
    PROVE  at[a] # NoKey /\ Before(at[a], at[b])
<1>1. \A p \in Places : SeenBy(q, at, p) # NoKey => at[p] # NoKey
  BY DEF Good, SnapshotKept, SeenBy
<1>2. SeenBy(q, at, b) # NoKey
  BY DEF Before, NoKey
<1>3. at[a] # NoKey /\ at[b] # NoKey
  BY <1>1, <1>2
<1>4. \A p \in Places : at[p] \in Words /\ SeenBy(q, at, p) \in Words
  BY KeysAreStrings DEF SeenBy
<1>5. a # b
  BY <1>4, BeforeIrreflexive
<1>6. at[a] # at[b]
  BY <1>3, <1>5
<1>7. ~Before(at[b], at[a])
  <2> SUFFICES ASSUME Before(at[b], at[a]) PROVE FALSE
    OBVIOUS
  <2>1. Before(SeenBy(q, at, b), SeenBy(q, at, a))
    BY <1>3, SeenKeepsOrder
  <2>2. QED  BY <1>4, <2>1, BeforeAsymmetric
<1>8. QED  BY <1>3, <1>4, <1>6, <1>7, BeforeTotal

\* The committed positions after a commit.
LEMMA Committed ==
    ASSUME Inv, NEW r \in Requests, NEW own, Commits(r, own)
    PROVE  LET q == req[r] IN
           /\ q \in RequestRecord /\ Good(q, since[r], pos) /\ q.pc # "park" /\ q.key \in Keys
           /\ pos' = [p \in Places |-> IF p \in own THEN q.key ELSE SeenBy(q, pos, p)]
           /\ \A p \in Places : pos[p] \in Bounds /\ q.mine[p] \in Bounds /\ pos'[p] \in Bounds
           /\ \A p \in Places : pos'[p] # NoKey => pos'[p] \in Keys
           /\ \A p \in Places : pos[p] # NoKey => pos'[p] # NoKey
<1> DEFINE q == req[r]
<1>1. q \in RequestRecord /\ Good(q, since[r], pos) /\ q.pc # "park" /\ q.key \in Keys
  BY DEF Inv, TypeOK, Commits, Good, LegalRequest
<1>2. pos' = [p \in Places |-> IF p \in own THEN q.key ELSE SeenBy(q, pos, p)]
  BY DEF Commits, Commit, Seen, SeenBy
<1>3. \A p \in Places : pos[p] \in Bounds /\ q.mine[p] \in Bounds
  BY <1>1, PositionsAreKeys DEF Inv, Good, LegalRequest
<1>4. \A p \in Places : pos'[p] \in Bounds
  BY <1>1, <1>2, <1>3 DEF SeenBy, Bounds
<1>5. \A p \in Places : pos'[p] # NoKey => pos'[p] \in Keys
  BY <1>4 DEF Bounds, NoKey
<1>6. \A p \in Places : pos[p] # NoKey => pos'[p] # NoKey
  BY <1>1, <1>2, KeysAreStrings DEF SeenBy
<1>7. QED  BY <1>1, <1>2, <1>3, <1>4, <1>5, <1>6

LEMMA CommitIsOrdered ==
    ASSUME Inv, NEW r \in Requests, NEW own, Commits(r, own)
    PROVE  ListOrdered'
<1> DEFINE q == req[r]
<1>1. /\ q.pc # "park" /\ Good(q, since[r], pos)
      /\ pos' = [p \in Places |-> IF p \in own THEN q.key ELSE SeenBy(q, pos, p)]
      /\ \A p \in Places : pos'[p] # NoKey => pos'[p] \in Keys
  BY Committed
<1>2. ASSUME NEW p \in Places, NEW x \in Places, pos'[p] # NoKey, pos'[x] = pos'[p]
      PROVE  x = p
  <2>1. own \subseteq {q.place} /\ (own # {} => \A y \in Places \ own : SeenBy(q, pos, y) # q.key)
    BY DEF Commits, Taken, Seen, SeenBy
  <2>2. CASE p \in own \/ x \in own
    BY <1>1, <1>2, <2>1, <2>2
  <2>3. CASE p \notin own /\ x \notin own
    <3>1. SeenBy(q, pos, p) = SeenBy(q, pos, x) /\ SeenBy(q, pos, p) # NoKey
      BY <1>1, <1>2, <2>3
    <3>2. \A a, b \in Places : pos[a] # NoKey /\ pos[b] = pos[a] => b = a
      BY DEF Inv, ListOrdered
    <3>3. \A a, b \in Places : q.mine[a] # NoKey =>
              /\ q.mine[a] = q.mine[b] => a = b
              /\ q.mine[b] = NoKey => q.mine[a] # pos[b]
      BY <1>1 DEF Good, OwnSlots
    <3>4. QED  BY <3>1, <3>2, <3>3 DEF SeenBy
  <2>4. QED  BY <2>2, <2>3
<1>3. QED  BY <1>1, <1>2 DEF ListOrdered, Keys

LEMMA CommitIsAnnounced ==
    ASSUME Inv, NEW r \in Requests, NEW own, Commits(r, own)
    PROVE  ChannelAgrees'
<1> DEFINE q == req[r]
           news == [p \in Places |->
                      IF p \in own /\ Announcement(Seen(r, p), q.key) # NoKey THEN q.key
                      ELSE q.news[p]]
<1>1. /\ q.pc # "park" /\ Good(q, since[r], pos) /\ q.key \in Keys
      /\ pos' = [p \in Places |-> IF p \in own THEN q.key ELSE SeenBy(q, pos, p)]
  BY Committed
<1>2. client' = [p \in Places |-> IF news[p] # NoKey THEN news[p] ELSE client[p]]
  BY DEF Commits, Commit
<1>3. q.key # Parked /\ q.key # NoKey
  BY <1>1, KeysAreStrings DEF Bounds
<1>4. ASSUME NEW p \in Places PROVE client'[p] = pos'[p]
  <2>1. q.news[p] = q.mine[p] /\ client[p] = pos[p]
    BY <1>1 DEF Good, LegalRequest, Inv, ChannelAgrees
  <2>2. client'[p] = IF news[p] # NoKey THEN news[p] ELSE client[p]
    BY <1>2
  <2>3. QED  BY <1>1, <1>3, <2>1, <2>2 DEF Announcement, Seen, SeenBy
<1>5. client' = [p \in Places |-> client'[p]] /\ pos' = [p \in Places |-> pos'[p]]
  BY <1>1, <1>2
<1>6. QED  BY <1>4, <1>5 DEF ChannelAgrees

\* Another request is as good after a commit as it was before.
LEMMA OthersStayGood ==
    ASSUME Inv, NEW r \in Requests, NEW own, Commits(r, own), NEW s \in Requests \ {r}
    PROVE  Good(req[s], since'[s], pos')
<1> DEFINE q == req[r]
           x == req[s]
<1>1. /\ q.pc # "park" /\ Good(q, since[r], pos) /\ q.key \in Keys
      /\ pos' = [p \in Places |-> IF p \in own THEN q.key ELSE SeenBy(q, pos, p)]
      /\ \A p \in Places : pos[p] \in Bounds /\ q.mine[p] \in Bounds /\ pos'[p] \in Bounds
      /\ \A p \in Places : pos[p] # NoKey => pos'[p] # NoKey
  BY Committed
<1>2. Good(x, since[s], pos) /\ Compatible(x, q) /\ Compatible(q, x)
  BY DEF Inv
<1>3. /\ since'[s].moved = since[s].moved \cup own
                              \cup (IF q.rebalanced THEN since[r].moved ELSE {})
      /\ since'[s].rekeyed = (since[s].rekeyed \/ q.rebalanced)
  BY DEF Commits, Commit
<1>4. \A p \in Places \ own : pos'[p] = SeenBy(q, pos, p)
  BY <1>1
<1>5. ~q.rebalanced => \A p \in Places \ own : pos'[p] = pos[p]
  BY <1>1, <1>4 DEF Good, SnapshotKept, SeenBy
<1>6. LegalRequest(x)
  BY <1>2 DEF Good
<1>7. SnapshotKept(x, pos')
  BY <1>1, <1>2 DEF Good, SnapshotKept
<1>8. OwnSlots(x, pos')
  <2> SUFFICES ASSUME x.pc # "park", NEW p \in Places, NEW y \in Places, x.mine[p] # NoKey
               PROVE  /\ x.mine[p] = x.mine[y] => p = y
                      /\ x.mine[y] = NoKey => x.mine[p] # pos'[y]
    BY DEF OwnSlots
  <2>1. x.mine[p] = x.mine[y] => p = y
    BY <1>2 DEF Good, OwnSlots
  <2>2. CASE y \in own
    <3>1. s \notin KeyHolders(r, q.key)
      BY <2>2 DEF Commits
    <3>2. p \in Holds(s)
      BY DEF Holds
    <3>3. x.mine[p] # q.key
      BY <3>1, <3>2 DEF KeyHolders
    <3>4. QED  BY <1>1, <2>1, <2>2, <3>3
  <2>3. CASE y \notin own /\ q.mine[y] # NoKey
    <3>1. q.mine[y] # x.mine[p]
      BY <1>1, <1>2, <2>3 DEF Compatible
    <3>2. QED  BY <1>4, <2>1, <2>3, <3>1 DEF SeenBy
  <2>4. CASE y \notin own /\ q.mine[y] = NoKey
    <3>1. x.mine[y] = NoKey => x.mine[p] # pos[y]
      BY <1>2 DEF Good, OwnSlots
    <3>2. QED  BY <1>4, <2>1, <2>4, <3>1 DEF SeenBy
  <2>5. QED  BY <2>2, <2>3, <2>4
<1>9. OrderRead(x, since'[s].moved, pos')
  <2>1. ASSUME NEW a \in Places \ since'[s].moved, NEW b \in Places \ since'[s].moved,
               pos'[a] # NoKey, Before(pos'[a], pos'[b])
        PROVE  pos[a] # NoKey /\ Before(pos[a], pos[b])
    <3>1. /\ a \notin own /\ b \notin own
          /\ q.rebalanced => a \notin since[r].moved /\ b \notin since[r].moved
      BY <1>3
    <3>2. SeenBy(q, pos, a) # NoKey /\ Before(SeenBy(q, pos, a), SeenBy(q, pos, b))
      BY <1>4, <2>1, <3>1
    <3>3. \A p \in Places : q.mine[p] \in Strings /\ pos[p] \in Strings
      BY <1>1, KeysAreStrings
    <3>4. \A p, y \in Places : pos[p] # NoKey /\ pos[p] = pos[y] => p = y
      BY DEF Inv, ListOrdered
    <3>5. QED  BY <1>1, <3>1, <3>2, <3>3, <3>4, SeenOrderIsOld
  <2>2. since[s].moved \subseteq since'[s].moved
    BY <1>3
  <2>3. QED  BY <1>2, <2>1, <2>2 DEF Good, OrderRead
<1>10. MintedLast(x, since'[s], pos')
  <2> SUFFICES ASSUME x.pc \in {"claim", "settle"}, x.asked = NoKey \/ x.rebalanced,
                      ~since'[s].rekeyed, NEW a \in Places \ since'[s].moved,
                      SeenBy(x, pos', a) # NoKey
               PROVE  Before(SeenBy(x, pos', a), x.key)
    BY DEF MintedLast
  <2>1. ~q.rebalanced /\ ~since[s].rekeyed /\ a \notin own /\ a \notin since[s].moved
    BY <1>3
  <2>2. SeenBy(x, pos', a) = SeenBy(x, pos, a)
    BY <1>5, <2>1 DEF SeenBy
  <2>3. QED  BY <1>2, <2>1, <2>2 DEF Good, MintedLast
<1>11. QED  BY <1>6, <1>7, <1>8, <1>9, <1>10 DEF Good

LEMMA CommitKeeps ==
    ASSUME Inv, NEW r \in Requests, NEW own, Commits(r, own)
    PROVE  Inv'
<1>1. /\ req' = [req EXCEPT ![r] = Idle] /\ arrivals' = arrivals
      /\ since' = [s \in Requests |->
                     IF s = r THEN since[s]
                     ELSE [moved |-> since[s].moved \cup own \cup
                                       (IF req[r].rebalanced THEN since[r].moved ELSE {}),
                           rekeyed |-> since[s].rekeyed \/ req[r].rebalanced]]
  BY DEF Commits, Commit
<1>2. req'[r] = Idle /\ \A s \in Requests \ {r} : req'[s] = req[s]
  BY <1>1 DEF Inv, TypeOK
<1>3. ListOrdered' /\ ChannelAgrees'
  BY CommitIsOrdered, CommitIsAnnounced
<1>4. TypeOK'
  <2>1. pos' \in [Places -> Strings]
    BY Committed, KeysAreStrings
  <2>2. client' \in [Places -> Strings]
    BY <1>3, <2>1 DEF ChannelAgrees
  <2>3. req' \in [Requests -> RequestRecord]
    BY <1>1, IdleIsRequest DEF Inv, TypeOK
  <2>4. own \subseteq Places
    BY DEF Commits
  <2>5. since' \in [Requests -> [moved : SUBSET Places, rekeyed : BOOLEAN]]
    <3>1. \A s \in Requests : since[s].moved \subseteq Places /\ since[s].rekeyed \in BOOLEAN
      BY DEF Inv, TypeOK
    <3>2. req[r].rebalanced \in BOOLEAN
      BY DEF Inv, TypeOK, RequestRecord
    <3>3. QED  BY <1>1, <2>4, <3>1, <3>2 DEF Inv, TypeOK
  <2>6. \A s \in Requests : req'[s].pc = "settle" => req'[s].place \in Places
    BY <1>2 DEF Inv, TypeOK, Idle
  <2>7. QED  BY <1>1, <2>1, <2>2, <2>3, <2>5, <2>6 DEF Inv, TypeOK
<1>5. \A s \in Requests : Good(req'[s], since'[s], pos')
  BY <1>2, OthersStayGood, IdleIsRequest
<1>6. \A s, t \in Requests : s # t => Compatible(req'[s], req'[t])
  BY <1>2, IdleIsRequest, CompatibleSymmetric DEF Inv
<1>7. QED  BY <1>3, <1>4, <1>5, <1>6 DEF Inv

-----------------------------------------------------------------------------
(* The ends of an attempt *)

\* A request ends with a commit, of its row or of none, or with nothing.
LEMMA ClaimEnds ==
    ASSUME Inv, NEW r \in Requests, Claim(r)
    PROVE  \/ Commits(r, {})
           \/ Rollback(r)
           \/ req[r].place \in Places /\ Set(r, [req[r] EXCEPT !.pc = "settle"])
<1>1. /\ req[r] \in RequestRecord /\ req[r].pc = "claim"
      /\ req[r].op = "add" => req[r].place \in Places
  BY DEF Inv, TypeOK, Good, SnapshotKept, Claim
<1>2. req[r].op \in {"add", "move"} /\ req[r].place \in Places \cup {NoPlace}
  BY <1>1 DEF RequestRecord
<1> DEFINE here == req[r].place # NoPlace /\ Seen(r, req[r].place) # NoKey
<1>3. CASE req[r].op = "add" /\ here
  BY <1>1, <1>3 DEF Claim, Commits
<1>4. CASE req[r].op = "move" /\ ~here
  BY <1>4 DEF Claim
<1>5. CASE ~(req[r].op = "add" /\ here) /\ ~(req[r].op = "move" /\ ~here)
  <2>1. Set(r, [req[r] EXCEPT !.pc = "settle"])
    BY <1>5 DEF Claim
  <2>2. req[r].place \in Places
    BY <1>1, <1>2, <1>5
  <2>3. QED  BY <2>1, <2>2
<1>6. QED  BY <1>3, <1>4, <1>5

LEMMA SettleEnds ==
    ASSUME Inv, NEW r \in Requests, Settle(r)
    PROVE  \/ Commits(r, {req[r].place})
           \/ Commits(r, {})
           \/ \E k \in Jitter(req[r].key) :
                 Set(r, [req[r] EXCEPT !.pc = "claim", !.key = k, !.retried = TRUE])
<1>1. req[r].pc = "settle" /\ req[r].place \in Places
  BY DEF Inv, TypeOK, Settle
<1>2. KeyHolders(r, req[r].key) = {}
  BY <1>1 DEF Settle, Blockers
<1>3. CASE ~Taken(r, req[r].key, {req[r].place})
  BY <1>1, <1>2, <1>3 DEF Settle, Commits
<1>4. CASE Taken(r, req[r].key, {req[r].place}) /\ req[r].retried
  BY <1>1, <1>4 DEF Settle, Commits
<1>5. CASE Taken(r, req[r].key, {req[r].place}) /\ ~req[r].retried
  BY <1>5 DEF Settle
<1>6. QED  BY <1>3, <1>4, <1>5

LEMMA StepKeeps ==
    ASSUME Inv, NEW r \in Requests, Step(r)
    PROVE  Inv'
<1>1. CASE Mint(r)
  BY <1>1, MintKeeps
<1>2. CASE Claim(r)
  <2>1. req[r].pc = "claim" /\ Blockers(r) = {}
    BY <1>2 DEF Claim
  <2>2. QED  BY <1>2, <2>1, ClaimEnds, CommitKeeps, RollbackKeeps, ClaimsRow
<1>3. CASE Settle(r)
  <2>1. req[r].pc = "settle"
    BY <1>3 DEF Settle
  <2>2. QED  BY <1>3, <2>1, SettleEnds, CommitKeeps, RetriesLater
<1>4. CASE Snapshot(r)
  BY <1>4, SnapshotKeeps
<1>5. CASE Rekey(r)
  BY <1>5, RekeyKeeps
<1>6. CASE \E p \in Places : Park(r, p)
  BY <1>6, ParkKeeps
<1>7. QED  BY <1>1, <1>2, <1>3, <1>4, <1>5, <1>6 DEF Step

-----------------------------------------------------------------------------
(* A row that is removed *)

\* What a request knows once row p is gone.
Without(q, p) ==
    [q EXCEPT !.ids = [i \in DOMAIN @ |-> IF @[i] = p THEN NoPlace ELSE @[i]],
              !.place = IF @ = p /\ q.op = "move" THEN NoPlace ELSE @]

LEMMA WithoutRow ==
    ASSUME NEW q \in RequestRecord, NEW p \in Places, p \notin HeldRows(q)
    PROVE  LET w == Without(q, p) IN
           /\ w \in RequestRecord
           /\ w.pc = q.pc /\ w.op = q.op /\ w.asked = q.asked /\ w.key = q.key
           /\ w.rebalanced = q.rebalanced /\ w.mine = q.mine /\ w.news = q.news
           /\ w.op = "add" => w.place = q.place
           /\ w.pc = "settle" => w.place = q.place
           /\ DOMAIN w.ids = DOMAIN q.ids
           /\ \A i \in DOMAIN q.ids :
                 /\ q.ids[i] = p => w.ids[i] = NoPlace
                 /\ q.ids[i] # p => w.ids[i] = q.ids[i]
           /\ q.mine[p] = NoKey
<1> DEFINE w == Without(q, p)
           ids == [i \in DOMAIN q.ids |-> IF q.ids[i] = p THEN NoPlace ELSE q.ids[i]]
           place == IF q.place = p /\ q.op = "move" THEN NoPlace ELSE q.place
<1>1. w = [q EXCEPT !.ids = ids, !.place = place]
  BY DEF Without, RequestRecord
<1>2. ids \in Seq(Places \cup {NoPlace})
  <2>1. q.ids \in Seq(Places \cup {NoPlace})
    BY DEF RequestRecord
  <2>2. /\ Len(q.ids) \in Nat /\ DOMAIN q.ids = 1 .. Len(q.ids)
        /\ \A i \in DOMAIN q.ids : q.ids[i] \in Places \cup {NoPlace}
    BY <2>1, LenProperties
  <2>3. ids \in [1 .. Len(q.ids) -> Places \cup {NoPlace}]
    BY <2>2
  <2>4. QED  BY <2>2, <2>3, SeqDef
<1>3. place \in Places \cup {NoPlace}
  BY DEF RequestRecord
<1>4. \A i \in DOMAIN q.ids : /\ q.ids[i] = p => ids[i] = NoPlace
                              /\ q.ids[i] # p => ids[i] = q.ids[i]
  OBVIOUS
<1>5. DOMAIN ids = DOMAIN q.ids
  OBVIOUS
<1>6. /\ q.op = "add" => place = q.place
      /\ q.pc = "settle" => place = q.place
  BY DEF HeldRows
<1> HIDE DEF ids, place
<1>7. /\ w \in RequestRecord
      /\ w.pc = q.pc /\ w.op = q.op /\ w.asked = q.asked /\ w.key = q.key
      /\ w.rebalanced = q.rebalanced /\ w.mine = q.mine /\ w.news = q.news
      /\ w.ids = ids /\ w.place = place
  BY <1>1, <1>2, <1>3 DEF RequestRecord
<1>8. q.mine[p] = NoKey
  BY DEF HeldRows
<1> HIDE DEF w
<1>9. QED  BY <1>4, <1>5, <1>6, <1>7, <1>8 DEF w

LEMMA RemovalIsGood ==
    ASSUME NEW q \in RequestRecord, NEW p \in Places, p \notin HeldRows(q),
           NEW sn, NEW at \in [Places -> Strings], Good(q, sn, at)
    PROVE  Good(Without(q, p), sn, [at EXCEPT ![p] = NoKey])
<1> DEFINE w == Without(q, p)
           after == [at EXCEPT ![p] = NoKey]
<1>1. /\ w.pc = q.pc /\ w.op = q.op /\ w.asked = q.asked /\ w.key = q.key
      /\ w.rebalanced = q.rebalanced /\ w.mine = q.mine /\ w.news = q.news
      /\ w.op = "add" => w.place = q.place
      /\ DOMAIN w.ids = DOMAIN q.ids
      /\ \A i \in DOMAIN q.ids : /\ q.ids[i] = p => w.ids[i] = NoPlace
                                 /\ q.ids[i] # p => w.ids[i] = q.ids[i]
      /\ q.mine[p] = NoKey
  BY WithoutRow
<1>2. after[p] = NoKey /\ \A x \in Places \ {p} : after[x] = at[x]
  OBVIOUS
<1>3. \A i \in DOMAIN q.ids : w.ids[i] \in Places => q.ids[i] # p /\ w.ids[i] = q.ids[i]
  BY <1>1
<1> HIDE DEF w, after
<1>4. LegalRequest(w)
  BY <1>1 DEF Good, LegalRequest
<1>5. SnapshotKept(w, after)
  <2>1. \A i, j \in DOMAIN w.ids : w.ids[i] \in Places /\ w.ids[i] = w.ids[j] => i = j
    BY <1>1, <1>3 DEF Good, SnapshotKept
  <2>2. \A i \in DOMAIN w.ids : w.ids[i] \in Places =>
            /\ after[w.ids[i]] # NoKey
            /\ w.pc # "park" => w.mine[w.ids[i]] # NoKey
    BY <1>1, <1>2, <1>3 DEF Good, SnapshotKept
  <2>3. \A x \in Places : w.mine[x] # NoKey => \E i \in DOMAIN w.ids : w.ids[i] = x
    BY <1>1 DEF Good, SnapshotKept
  <2>4. QED  BY <1>1, <2>1, <2>2, <2>3 DEF Good, SnapshotKept
<1>6. OwnSlots(w, after)
  BY <1>1, <1>2 DEF Good, OwnSlots
<1>7. OrderRead(w, sn.moved, after)
  <2>1. ASSUME NEW a \in Places \ sn.moved, NEW b \in Places \ sn.moved, w.rebalanced,
               after[a] # NoKey, Before(after[a], after[b])
        PROVE  \E i, j \in DOMAIN w.ids : i < j /\ w.ids[i] = a /\ w.ids[j] = b
    <3>1. after[b] # NoKey
      BY <2>1 DEF Before, NoKey
    <3>2. a # p /\ b # p /\ at[a] # NoKey /\ Before(at[a], at[b])
      BY <1>2, <2>1, <3>1
    <3>3. \E i, j \in DOMAIN q.ids : i < j /\ q.ids[i] = a /\ q.ids[j] = b
      BY <1>1, <2>1, <3>2 DEF Good, OrderRead
    <3>4. QED  BY <1>1, <3>2, <3>3
  <2>2. w.pc # "park" =>
          \A i, j \in DOMAIN w.ids : i < j /\ w.ids[i] \in Places /\ w.ids[j] \in Places
             => Before(w.mine[w.ids[i]], w.mine[w.ids[j]])
    BY <1>1, <1>3 DEF Good, OrderRead
  <2>3. QED  BY <2>1, <2>2 DEF OrderRead
<1>8. MintedLast(w, sn, after)
  BY <1>1, <1>2 DEF Good, MintedLast, SeenBy
<1>9. QED  BY <1>4, <1>5, <1>6, <1>7, <1>8 DEF Good, w, after

LEMMA RemoveRowKeeps ==
    ASSUME Inv, NEW p \in Places, RemoveRow(p)
    PROVE  Inv'
<1>1. /\ pos' = [pos EXCEPT ![p] = NoKey] /\ client' = [client EXCEPT ![p] = NoKey]
      /\ since' = since /\ arrivals < MaxArrivals /\ arrivals' = arrivals + 1
  BY DEF RemoveRow
<1>a. arrivals' \in 0 .. MaxArrivals
  BY <1>1 DEF Inv, TypeOK
<1>2. req' = [q \in Requests |-> Without(req[q], p)]
  BY DEF RemoveRow, Without
<1>3. \A q \in Requests : req[q] \in RequestRecord /\ p \notin HeldRows(req[q])
  BY HoldsIsHeldRows DEF RemoveRow, Inv, TypeOK
<1>4. \A q \in Requests : /\ req'[q] \in RequestRecord
                          /\ req'[q].pc = req[q].pc /\ req'[q].mine = req[q].mine
                          /\ req'[q].pc = "settle" => req'[q].place = req[q].place
  BY <1>2, <1>3, WithoutRow
<1>5. TypeOK'
  <2>1. pos' \in [Places -> Strings] /\ client' \in [Places -> Strings]
    BY <1>1, KeysAreStrings DEF Inv, TypeOK
  <2>2. req' \in [Requests -> RequestRecord]
    BY <1>2, <1>4
  <2>3. \A q \in Requests : req'[q].pc = "settle" => req'[q].place \in Places
    BY <1>4 DEF Inv, TypeOK
  <2>4. QED  BY <1>1, <1>a, <2>1, <2>2, <2>3 DEF Inv, TypeOK
<1>6. ListOrdered' /\ ChannelAgrees'
  <2>1. pos'[p] = NoKey /\ \A x \in Places \ {p} : pos'[x] = pos[x]
    BY <1>1 DEF Inv, TypeOK
  <2>2. ListOrdered'
    BY <2>1 DEF Inv, ListOrdered
  <2>3. QED  BY <1>1, <2>2 DEF Inv, ChannelAgrees
<1>7. ASSUME NEW q \in Requests PROVE Good(req'[q], since'[q], pos')
  <2>1. Good(req[q], since[q], pos) /\ pos \in [Places -> Strings]
    BY DEF Inv, TypeOK
  <2>2. Good(Without(req[q], p), since[q], [pos EXCEPT ![p] = NoKey])
    BY <1>3, <2>1, RemovalIsGood
  <2>3. QED  BY <1>1, <1>2, <2>2
<1>8. \A q, t \in Requests : q # t => Compatible(req'[q], req'[t])
  <2>1. \A q \in Requests : HeldRows(req'[q]) \subseteq HeldRows(req[q])
    BY <1>4 DEF HeldRows
  <2>2. ASSUME NEW q \in Requests, NEW t \in Requests, q # t
        PROVE  Compatible(req'[q], req'[t])
    <3>1. Compatible(req[q], req[t])
      BY <2>2 DEF Inv
    <3>2. /\ HeldRows(req'[q]) \subseteq HeldRows(req[q])
          /\ HeldRows(req'[t]) \subseteq HeldRows(req[t])
      BY <2>1
    <3>3. /\ req'[q].pc = req[q].pc /\ req'[q].mine = req[q].mine
          /\ req'[t].pc = req[t].pc /\ req'[t].mine = req[t].mine
      BY <1>4
    <3>4. QED  BY <3>1, <3>2, <3>3 DEF Compatible
  <2>3. QED  BY <2>2
<1>9. QED  BY <1>5, <1>6, <1>7, <1>8 DEF Inv

-----------------------------------------------------------------------------
(* The invariant holds *)

LEMMA StartIsOrdered ==
    ASSUME Init
    PROVE  Inv
<1>1. PICK f \in [InitialKeys -> Places] :
          /\ \A k, l \in InitialKeys : f[k] = f[l] => k = l
          /\ pos = [p \in Places |-> IF \E k \in InitialKeys : f[k] = p
                                     THEN CHOOSE k \in InitialKeys : f[k] = p
                                     ELSE NoKey]
  BY DEF Init
<1>2. ASSUME NEW p \in Places
      PROVE  pos[p] = NoKey \/ (pos[p] \in InitialKeys /\ f[pos[p]] = p)
  <2>1. CASE \E k \in InitialKeys : f[k] = p
    <3> DEFINE k == CHOOSE k \in InitialKeys : f[k] = p
    <3>1. k \in InitialKeys /\ f[k] = p
      BY <2>1
    <3>2. pos[p] = k
      BY <1>1, <2>1
    <3>3. QED  BY <3>1, <3>2
  <2>2. CASE ~\E k \in InitialKeys : f[k] = p
    BY <1>1, <2>2
  <2>3. QED  BY <2>1, <2>2
<1>3. ListOrdered
  BY <1>2, PlacesAssumption DEF ListOrdered
<1>4. TypeOK
  <2>1. pos \in [Places -> Strings]
    BY <1>1, <1>2, KeysAreStrings, ClientKeysAreKeys
  <2>2. req \in [Requests -> RequestRecord] /\ \A r \in Requests : req[r].pc # "settle"
    BY IdleIsRequest DEF Init, Idle
  <2>3. /\ client = pos /\ arrivals = 0
        /\ since = [r \in Requests |-> [moved |-> {}, rekeyed |-> FALSE]]
    BY DEF Init
  <2>4. since \in [Requests -> [moved : SUBSET Places, rekeyed : BOOLEAN]]
    BY <2>3
  <2>5. arrivals \in 0 .. MaxArrivals
    BY <2>3, PlacesAssumption
  <2>6. QED  BY <2>1, <2>2, <2>3, <2>4, <2>5 DEF TypeOK
<1>5. \A r \in Requests : req[r] = Idle
  BY DEF Init
<1>6. QED  BY <1>3, <1>4, <1>5, IdleIsRequest DEF Inv, Init, ChannelAgrees

LEMMA NextKeeps ==
    ASSUME Inv, [Next]_vars
    PROVE  Inv'
<1>1. CASE UNCHANGED vars
  <2>1. pos' = pos /\ req' = req /\ client' = client /\ since' = since /\ arrivals' = arrivals
    BY <1>1 DEF vars
  <2>2. TypeOK' /\ ListOrdered' /\ ChannelAgrees'
    BY <2>1 DEF Inv, TypeOK, ListOrdered, ChannelAgrees
  <2>3. QED  BY <2>1, <2>2 DEF Inv
<1>2. ASSUME NEW r \in Requests, NEW p \in Places, NEW k \in ClientKeys \cup {NoKey},
             RequestAdd(r, p, k) \/ RequestMove(r, p, k)
      PROVE  Inv'
  BY <1>2, ArriveKeeps DEF RequestAdd, RequestMove
<1>3. ASSUME NEW r \in Requests, Step(r) \/ Fail(r) \/ DeadlockVictim(r)
      PROVE  Inv'
  BY <1>3, StepKeeps, RollbackKeeps DEF Fail, DeadlockVictim
<1>4. ASSUME NEW p \in Places, RemoveRow(p)
      PROVE  Inv'
  BY <1>4, RemoveRowKeeps
<1>5. QED  BY <1>1, <1>2, <1>3, <1>4 DEF Next

\* The invariant of the ordered list.
THEOREM PlaceInvariance == Spec => []Inv
<1>1. Init => Inv
  BY StartIsOrdered
<1>2. Inv /\ [Next]_vars => Inv'
  BY NextKeeps
<1>3. QED  BY <1>1, <1>2, PTL DEF Spec

\* Whatever interleaves, a row is written only once a request has found it, and every
\* position, committed, tried or announced, is text.
THEOREM PlaceTypes == Spec => []TypeOK
<1>1. Inv => TypeOK
  BY DEF Inv
<1>2. QED  BY <1>1, PlaceInvariance, PTL

\* The list is a strict order of legal keys.
THEOREM ListIsOrdered == Spec => []ListOrdered
<1>1. Inv => ListOrdered
  BY DEF Inv
<1>2. QED  BY <1>1, PlaceInvariance, PTL

\* The trip's channel announces the committed positions, and nothing else.
THEOREM ChannelIsCommitted == Spec => []ChannelAgrees
<1>1. Inv => ChannelAgrees
  BY DEF Inv
<1>2. QED  BY <1>1, PlaceInvariance, PTL

-----------------------------------------------------------------------------
(* What a commit does to the order *)

LEMMA OnlyCommitsMoveRows ==
    ASSUME Inv, [Next]_vars
    PROVE  \/ pos' = pos
           \/ \E p \in Places : RemoveRow(p)
           \/ \E r \in Requests : \E own : Commits(r, own)
<1>1. CASE UNCHANGED vars
  BY <1>1 DEF vars
<1>2. ASSUME NEW r \in Requests, Claim(r)
      PROVE  pos' = pos \/ \E own : Commits(r, own)
  BY <1>2, ClaimEnds DEF Rollback, Set, Keep
<1>3. ASSUME NEW r \in Requests, Settle(r)
      PROVE  pos' = pos \/ \E own : Commits(r, own)
  BY <1>3, SettleEnds DEF Set, Keep
<1>4. ASSUME NEW r \in Requests, Mint(r) \/ Snapshot(r) \/ Rekey(r) \/ \E p \in Places : Park(r, p)
      PROVE  pos' = pos
  <2>1. CASE Mint(r)
    BY <2>1 DEF Mint, Set, Keep, Reads
  <2>2. CASE Snapshot(r)
    BY <2>2 DEF Snapshot, Reads
  <2>3. CASE Rekey(r)
    BY <2>3 DEF Rekey, Rollback, Set, Keep
  <2>4. CASE \E p \in Places : Park(r, p)
    BY <2>4 DEF Park, Set, Keep
  <2>5. QED  BY <1>4, <2>1, <2>2, <2>3, <2>4
<1>5. ASSUME NEW r \in Requests, Fail(r) \/ DeadlockVictim(r)
      PROVE  pos' = pos
  BY <1>5 DEF Fail, DeadlockVictim, Rollback, Set, Keep
<1>6. ASSUME NEW r \in Requests, NEW p \in Places, NEW k \in ClientKeys \cup {NoKey},
             RequestAdd(r, p, k) \/ RequestMove(r, p, k)
      PROVE  pos' = pos
  BY <1>6 DEF RequestAdd, RequestMove, Arrive
<1>7. QED  BY <1>1, <1>2, <1>3, <1>4, <1>5, <1>6 DEF Next, Step

\* Of the requests whose step moves rows, only the one that commits ends.
LEMMA OneEnds ==
    ASSUME Inv, [Next]_vars, pos' # pos, NEW r \in Requests, Ends(r)
    PROVE  \E own : Commits(r, own)
<1>1. CASE \E p \in Places : RemoveRow(p)
  <2>1. PICK p \in Places : RemoveRow(p)
    BY <1>1
  <2>2. req' = [q \in Requests |-> Without(req[q], p)]
    BY <2>1 DEF RemoveRow, Without
  <2>3. req[r] \in RequestRecord /\ p \notin HeldRows(req[r])
    BY <2>1, HoldsIsHeldRows DEF RemoveRow, Inv, TypeOK
  <2>4. req'[r].pc = req[r].pc
    BY <2>2, <2>3, WithoutRow
  <2>5. QED  BY <2>4 DEF Ends
<1>2. CASE \E s \in Requests : \E own : Commits(s, own)
  <2>1. PICK s \in Requests : \E own : Commits(s, own)
    BY <1>2
  <2>2. req' = [req EXCEPT ![s] = Idle]
    BY <2>1 DEF Commits, Commit
  <2>3. s = r
    BY <2>2 DEF Inv, TypeOK, Ends
  <2>4. QED  BY <2>1, <2>3
<1>3. QED  BY <1>1, <1>2, OnlyCommitsMoveRows

LEMMA CommitKeepsOrder ==
    ASSUME Inv, NEW r \in Requests, NEW own, Commits(r, own)
    PROVE  KeepsOrder(since[r].moved \cup {req[r].place})
<1> DEFINE q == req[r]
<1>1. /\ Good(q, since[r], pos) /\ q.pc # "park"
      /\ pos' = [p \in Places |-> IF p \in own THEN q.key ELSE SeenBy(q, pos, p)]
      /\ \A p \in Places : pos[p] \in Bounds /\ q.mine[p] \in Bounds
  BY Committed
<1>2. \A p \in Places : q.mine[p] \in Strings /\ pos[p] \in Strings
  BY <1>1, KeysAreStrings
<1>3. own \subseteq {q.place}
  BY DEF Commits
<1>4. ASSUME NEW a \in Places \ (since[r].moved \cup {q.place}),
             NEW b \in Places \ (since[r].moved \cup {q.place}),
             pos[a] # NoKey, Before(pos[a], pos[b])
      PROVE  Before(pos'[a], pos'[b])
  <2>1. Before(SeenBy(q, pos, a), SeenBy(q, pos, b))
    BY <1>1, <1>2, <1>4, SeenKeepsOrder
  <2>2. pos'[a] = SeenBy(q, pos, a) /\ pos'[b] = SeenBy(q, pos, b)
    BY <1>1, <1>3
  <2>3. QED  BY <2>1, <2>2
<1>5. QED  BY <1>4 DEF KeepsOrder

LEMMA CommitLandsLast ==
    ASSUME Inv, NEW r \in Requests, NEW own, Commits(r, own), Appended(r), ~since[r].rekeyed
    PROVE  LandsLast(r)
<1> DEFINE q == req[r]
<1>1. /\ Good(q, since[r], pos)
      /\ pos' = [p \in Places |-> IF p \in own THEN q.key ELSE SeenBy(q, pos, p)]
  BY Committed
<1>2. own \subseteq {q.place} /\ q.pc \in {"claim", "settle"}
  BY DEF Commits
<1>3. ASSUME NEW a \in Places \ (since[r].moved \cup {q.place}), pos'[a] # NoKey
      PROVE  Before(pos'[a], pos'[q.place])
  <2>1. pos'[a] = SeenBy(q, pos, a) /\ pos'[q.place] = q.key
    BY <1>1, <1>2 DEF Appended
  <2>2. Before(SeenBy(q, pos, a), q.key)
    BY <1>1, <1>2, <1>3, <2>1 DEF Good, MintedLast, Appended
  <2>3. QED  BY <2>1, <2>2
<1>4. QED  BY <1>3 DEF LandsLast

\* A request reorders no rows but its own and those displaced since it read the list.
THEOREM QuietRowsKeepOrder == Spec => QuietOrderKept
<1>1. Inv /\ [Next]_vars =>
        [\A r \in Requests : Ends(r) => KeepsOrder(since[r].moved \cup {req[r].place})]_pos
  BY OneEnds, CommitKeepsOrder
<1>2. QED  BY <1>1, PlaceInvariance, PTL DEF Spec, QuietOrderKept

\* A key minted by the server puts the row behind every row that nobody has moved
\* meanwhile, unless another request has re-keyed the list.
THEOREM MintedRowsLandLast == Spec => AppendIsLast
<1>1. Inv /\ [Next]_vars =>
        [\A r \in Requests : Appended(r) /\ ~since[r].rekeyed => LandsLast(r)]_pos
  <2>1. ASSUME Inv, [Next]_vars, pos' # pos, NEW r \in Requests, Appended(r), ~since[r].rekeyed
        PROVE  LandsLast(r)
    <3>1. PICK own : Commits(r, own)
      BY <2>1, OneEnds DEF Appended
    <3>2. QED  BY <2>1, <3>1, CommitLandsLast
  <2>2. QED  BY <2>1
<1>2. QED  BY <1>1, PlaceInvariance, PTL DEF Spec, AppendIsLast
=============================================================================
