----------------------------- MODULE MCFlowTalk -----------------------------
(***************************************************************************)
(* The instance of the run engine_talk: its flows are of the kinds that    *)
(* the theorems assume.                                                    *)
(***************************************************************************)
EXTENDS MCFlowEngine, AuthoredFlows

Deep ==
  [id \in StepIds |-> CASE id \in {"left", "lost", "over"} -> 1
                       [] id \in {"ask", "home"} -> 2
                       [] OTHER -> 0]

ASSUME TalkReviews == ShownReviews /\ CorrectableReviews
ASSUME TalkBack ==
  \A f \in Flows : Deepening(f, Deep) /\ Passing(f, {"round", "again"} \cap DOMAIN f.steps)
ASSUME TalkIdentifications == GuidedIdentifications
=============================================================================
