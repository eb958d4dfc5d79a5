------------------------------- MODULE Powers -------------------------------
(***************************************************************************)
(* Powers of a natural number, multiplied out one factor at a time.        *)
(***************************************************************************)
EXTENDS Naturals

Power(base) ==
    LET power[n \in Nat] == IF n = 0 THEN 1 ELSE base * power[n - 1]
    IN  power
=============================================================================
