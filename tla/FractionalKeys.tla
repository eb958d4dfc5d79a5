--------------------------- MODULE FractionalKeys ---------------------------
(***************************************************************************)
(* The ordering keys of backend/api/src/ordering/fractional.ts: base-62    *)
(* fractions as strings, the digits after an implicit "0.".  A string is a *)
(* sequence of digits here; the empty sequence stands for the null bound.  *)
(***************************************************************************)
EXTENDS Integers, Sequences, FiniteSets, Powers

CONSTANTS
    Base,           \* 62 in the code
    JitterDigits,   \* digits randomNonZeroDigit may draw: 1..61 in the code
    Threshold       \* REBALANCE_THRESHOLD, 40 in the code

ASSUME KeysAssumption ==
    /\ Base \in Nat /\ Base > 1
    /\ JitterDigits \subseteq 1 .. (Base - 1) /\ JitterDigits # {}
    /\ Threshold \in Nat

Digits == 0 .. (Base - 1)

\* No trailing minimum digit, so that one value has one spelling.
IsValidKey(k) == /\ k # <<>>
                 /\ \A i \in DOMAIN k : k[i] \in Digits
                 /\ k[Len(k)] # 0

\* Codepoint order (COLLATE "C"): the first difference decides, a prefix is smaller.
Before(a, b) ==
    \E i \in 1 .. Len(b) : /\ \A j \in 1 .. i - 1 : j <= Len(a) /\ a[j] = b[j]
                           /\ i <= Len(a) => a[i] < b[i]

\* Digit i of k, padded with the minimum digit.
DigitAt(k, i) == IF i <= Len(k) THEN k[i] ELSE 0

\* Math.round(0.5 * (d + e)).
MiddleDigit(d, e) == (d + e + 1) \div 2

Prefix(k, n) == SubSeq(k, 1, n)

\* midpoint(a, null): the leading maximum digits of a are kept, the next one is
\* moved half-way to the end.
KeyAfter(a) ==
    LET n == CHOOSE i \in 0 .. Len(a) : /\ \A j \in 1 .. i : a[j] = Base - 1
                                        /\ i < Len(a) => a[i + 1] # Base - 1
    IN  Append(Prefix(a, n), MiddleDigit(DigitAt(a, n + 1), Base))

\* Mutant of KeyBetween: a middle digit is taken where there is none.
KeyBetweenTight(a, b) ==
    LET n == CHOOSE i \in 0 .. Len(b) - 1 : /\ \A j \in 1 .. i : DigitAt(a, j) = b[j]
                                            /\ DigitAt(a, i + 1) # b[i + 1]
    IN  Append(Prefix(b, n), MiddleDigit(DigitAt(a, n + 1), b[n + 1]))

\* midpoint(a, b): strip the common prefix, take the middle digit if there is one,
\* else descend one level, below b if it is longer, above a otherwise.
KeyBetween(a, b) ==
    LET n == CHOOSE i \in 0 .. Len(b) - 1 : /\ \A j \in 1 .. i : DigitAt(a, j) = b[j]
                                            /\ DigitAt(a, i + 1) # b[i + 1]
        digitA == DigitAt(a, n + 1)
        digitB == b[n + 1]
    IN  Prefix(b, n) \o
          IF digitB - digitA > 1 THEN <<MiddleDigit(digitA, digitB)>>
          ELSE IF Len(b) > n + 1 THEN <<digitB>>
          ELSE <<digitA>> \o KeyAfter(SubSeq(a, n + 2, Len(a)))

KeyBefore(b) == KeyBetween(<<>>, b)

\* Every outcome of jitter: one or two random digits, none of them the minimum.
Lengthened(k) == {Append(k, d) : d \in JitterDigits}

Jitter(k) == Lengthened(k) \cup UNION {Lengthened(l) : l \in Lengthened(k)}

NeedsRebalance(k) == Len(k) > Threshold

\* Mutant of StripTrailingZeros: the zeros stay.
StripNothing(s) == s

\* The longest prefix of s that does not end in the minimum digit.
StripTrailingZeros(s) ==
    Prefix(s, CHOOSE n \in 0 .. Len(s) : /\ n > 0 => s[n] # 0
                                         /\ \A j \in n + 1 .. Len(s) : s[j] = 0)

\* The digits rebalanceKeys gives each key: enough for count + 1 values, plus one.
RebalanceWidth(count) ==
    1 + CHOOSE m \in 1 .. count : /\ Power(Base)[m] >= count + 1
                                  /\ \A j \in 1 .. m - 1 : Power(Base)[j] < count + 1

\* count evenly spaced keys: i / (count + 1), to that many digits.
RebalanceKeys(count) ==
    LET m == RebalanceWidth(count)
        value(i) == (i * Power(Base)[m]) \div (count + 1)
    IN  [i \in 1 .. count |->
            StripTrailingZeros([k \in 1 .. m |-> (value(i) \div Power(Base)[m - k]) % Base])]
=============================================================================
