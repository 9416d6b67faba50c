----------------------------- MODULE MCX2iRing -----------------------------
(* X2iRing on small rings.  Ids are interchangeable.                       *)
EXTENDS X2iRing, TLC

IdSymmetry == Permutations(Ids)
=============================================================================
