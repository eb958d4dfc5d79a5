-------------------------- MODULE MCTripMembership --------------------------
(* TripMembership on a small instance.  Users and request slots are         *)
(* interchangeable, so the safety runs use their permutations as symmetry.  *)
EXTENDS TripMembership, TLC

Symmetry == Permutations(Users) \cup Permutations(Requests)
=============================================================================
