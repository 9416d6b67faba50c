----------------------------- MODULE MCI2xRing -----------------------------
(* I2xRing on small rings.  Ids are interchangeable.                       *)
EXTENDS I2xRing, TLC

IdSymmetry == Permutations(Ids)
=============================================================================
