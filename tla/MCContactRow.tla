--------------------------- MODULE MCContactRow ---------------------------
(***************************************************************************)
(* An instance of ContactRow for TLC: two instances of one phone, two      *)
(* metadata keys.                                                          *)
(***************************************************************************)
EXTENDS ContactRow, TLC

MCSymmetry == Permutations(Instances) \cup Permutations(Admins) \cup Permutations(Keys)
===========================================================================
