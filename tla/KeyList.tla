------------------------------ MODULE KeyList -------------------------------
(***************************************************************************)
(* One list of keys, changed by one request at a time: what the algorithms *)
(* of ordering/fractional.ts promise a caller of keyBetween, jitter and    *)
(* rebalanceKeys, and the length backstop of addPlaceHandler, before any   *)
(* concurrency.  The interleavings of requests are in PlaceOrdering.       *)
(***************************************************************************)
EXTENDS FractionalKeys, SequencesExt

CONSTANT MaxRows        \* bound on the list

\* A re-keyed list leaves room for one jittered append: below 62 ^ 36 rows, in the code.
ASSUME ListAssumption ==
    /\ MaxRows \in Nat
    /\ \A n \in 1 .. MaxRows : RebalanceWidth(n) + 3 <= Threshold

VARIABLE list           \* the keys, in the order the users mean

ListInit == list = <<>>

Rows == 1 .. Len(list)
Final == IF list = <<>> THEN <<>> ELSE Last(list)

\* Mutant of Backstop: the key is looked at before the list is re-keyed, not after.
BackstopStale(k) == /\ list' = Append(RebalanceKeys(Len(list)), k)

\* Dense slot: re-key the list, then append after its new last key.
Backstop(k) ==
    LET fresh == RebalanceKeys(Len(list)) IN
    \E j \in Jitter(KeyAfter(IF fresh = <<>> THEN <<>> ELSE Last(fresh))) :
        list' = Append(fresh, j)

\* addPlaceHandler with the key a client has computed for the slot after row i.
InsertAfter(i) ==
    LET k == CASE i = Len(list) -> KeyAfter(Final)
               [] i = 0 /\ list # <<>> -> KeyBefore(list[1])
               [] OTHER -> KeyBetween(list[i], list[i + 1])
    IN  /\ Len(list) < MaxRows
        /\ IF NeedsRebalance(k) THEN Backstop(k) ELSE list' = InsertAt(list, i + 1, k)

\* addPlaceHandler without a key.
AddLast ==
    /\ Len(list) < MaxRows
    /\ \E k \in Jitter(KeyAfter(Final)) :
          IF NeedsRebalance(k) THEN Backstop(k) ELSE list' = Append(list, k)

Drop(i) == list' = RemoveAt(list, i)

ListNext == \/ \E i \in Rows \cup {0} : InsertAfter(i)
            \/ AddLast
            \/ \E i \in Rows : Drop(i)

ListSpec == ListInit /\ [][ListNext]_list

\* The value of the first n digits of a key, in units of Base ^ -n.
Value(k) ==
    LET value[n \in Nat] == IF n = 0 THEN 0 ELSE Base * value[n - 1] + DigitAt(k, n)
    IN  value

\* Every minted key lands strictly between its neighbours, without renumbering them,
\* and the list read ORDER BY position COLLATE "C" is the list the users mean.
Ascending == \A i, j \in Rows : i < j => Before(list[i], list[j])

\* Codepoint order is the order of the fractions: what the ban on trailing minimum
\* digits is for, kept by every way of minting a key.
OrderIsNumeric ==
    /\ \A i \in Rows : IsValidKey(list[i])
    /\ \A i, j \in Rows :
          LET w == Len(list[i]) + Len(list[j])
          IN  Before(list[i], list[j]) <=> Value(list[i])[w] < Value(list[j])[w]

\* "Then re-append short": however long clients bisect one slot, no stored key
\* outgrows the threshold.
KeysStayShort == \A i \in Rows : ~NeedsRebalance(list[i])
=============================================================================
