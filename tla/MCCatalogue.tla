---------------------------- MODULE MCCatalogue -----------------------------
(* Instances of Catalogue for TLC.                                         *)
EXTENDS Catalogue, TLC

CONSTANTS c1, c2, c3, s1, k1, u1, art, Art, law

\* Two spellings of one tag, and another tag.
NameOfTag == (art :> "art") @@ (Art :> "art") @@ (law :> "law")

Symmetry == Permutations(Calls)
=============================================================================
