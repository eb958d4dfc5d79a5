-------------------------- MODULE MCPlaceOrdering --------------------------
(* PlaceOrdering on a small instance.  Places and request slots are         *)
(* interchangeable, so the runs use their permutations as symmetry.         *)
EXTENDS PlaceOrdering, TLC

Symmetry == Permutations(Places) \cup Permutations(Requests)

\* Two of the keys a list of three is re-keyed to, and a key past the threshold, as a
\* client gets it by bisecting the front of the list again and again.
Keys == {<<1>>, <<3>>, <<0, 0, 0, 0, 0, 1>>}

\* A list of three rows gathered near the front.
Front == {<<0, 1>>, <<0, 2>>, <<0, 3>>}
=============================================================================
