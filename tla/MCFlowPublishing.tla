------------------------- MODULE MCFlowPublishing -------------------------
(***************************************************************************)
(* An instance of FlowPublishing for TLC: two conversations of one         *)
(* instance, one of another.                                               *)
(***************************************************************************)
EXTENDS FlowPublishing, TLC

CONSTANTS i1, i2, s1, s2, s3, f1

MCInstanceOf == [s \in Sessions |-> IF s = s3 THEN i2 ELSE i1]
MCFirstFlow == [i \in Instances |-> f1]

\* Replicas and publications are interchangeable, and so are s1 and s2.
MCSymmetry == Permutations(Replicas) \cup Permutations(Requests)
              \cup Permutations(Sessions \cap {s1, s2})
===========================================================================
