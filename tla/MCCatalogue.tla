----------------------------- MODULE MCCatalogue -----------------------------
(* Two Bookdarr servers; the configuration goes to the second, or another  *)
(* path, and back.                                                         *)
EXTENDS Catalogue, TLC

CONSTANTS s1, s2, p1, a1, a2

Inputs == a1 :> [site |-> s2, path |-> Blank] @@ a2 :> [site |-> s1, path |-> p1]

First == {Unset, [site |-> s1, path |-> p1]}

Alike == Permutations(Lists)
=============================================================================
