-------------------------- MODULE MCMessageLock --------------------------
(***************************************************************************)
(* Instances of MessageLock for TLC.  The third message belongs to another *)
(* conversation than the rest; the fifth is a photo without text.          *)
(***************************************************************************)
EXTENDS MessageLock, TLC

CONSTANTS w1, w2, s1, s2

MCSessionOf == [m \in Messages |-> IF m = 3 THEN s2 ELSE s1]
MCBlank == Messages \cap {5}

\* Replicas are interchangeable; the conversations are not, SessionOf tells
\* them apart.
MCSymmetry == Permutations(Workers)
==========================================================================
