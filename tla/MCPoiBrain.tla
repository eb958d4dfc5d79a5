----------------------------- MODULE MCPoiBrain -----------------------------
(* PoiBrain on a small instance.  Places and slots are interchangeable.     *)
EXTENDS PoiBrain, TLC

Symmetry == Permutations(Pois) \cup Permutations(Requests)

\* Two observations of one provider and one of another.
ProviderOf(o) == IF o <= 2 THEN "osm" ELSE "wikidata"
=============================================================================
