--------------------------- MODULE AuthoredFlows ---------------------------
(***************************************************************************)
(* Kinds of flows.  FlowDefinition lets an author connect any step with    *)
(* any other, and nothing looks at a flow when it is published; what the   *)
(* texts promise the customer holds for flows that are drawn with care.    *)
(* Each operator here says which those are, and is the hypothesis of a     *)
(* theorem.                                                                *)
(***************************************************************************)
EXTENDS StepHandlers

\* Where a flow may begin (flow.service.ts, processMessage).
FirstSteps(f) == IF f.first # NoStep THEN {f.first} ELSE {"MENU_PRINCIPAL", "INITIAL"}

\* The steps a step may pass the conversation on to.  Options out of a
\* variable may lead to any.
WaysOn(s) ==
  CASE s.type \in {"TEXT", "MEDIA", "DELAY", "SET_VARIABLE", "INPUT", "CUSTOMER_IDENTIFICATION"} -> {s.next}
    [] s.type = "JUMP" -> {s.target}
    [] s.type = "CONDITION" -> {s.trueStep, s.falseStep}
    [] s.type = "SWITCH" -> {s.default} \cup {s.branches[i].target : i \in DOMAIN s.branches}
    [] s.type = "HTTP_REQUEST" -> {s.success, s.failure, s.next}
    [] s.type = "OPTIONS" ->
         IF s.dynamic = "" THEN {s.options[i].target : i \in DOMAIN s.options} ELSE StepIds
    [] s.type = "REVIEW" -> {s.next, s.correction}
    [] OTHER -> {}

LeadsTo(f, id) == WaysOn(f.steps[id]) \cap DOMAIN f.steps

IsListed(f, id) == f.steps[id].type \in ListedTypes
OffersBack(f, id) == f.steps[id].allowBack

-----------------------------------------------------------------------------
\* Reviews.

\* No review is skipped because its fields are filled.
ShownReviews ==
  \A f \in Flows : \A id \in DOMAIN f.steps :
    f.steps[id].type = "REVIEW" => ~f.steps[id].skip

\* Every variable a review shows has a field in the identification that
\* corrects it, and that identification is not skipped.
CorrectableReviews ==
  \A f \in Flows : \A id \in DOMAIN f.steps : f.steps[id].type = "REVIEW" =>
    LET c == f.steps[id].correction
    IN  /\ c \in DOMAIN f.steps
        /\ f.steps[c].type = "CUSTOMER_IDENTIFICATION" /\ ~f.steps[c].skip
        /\ \A i \in DOMAIN f.steps[id].fields : \E k \in DOMAIN f.steps[c].fields :
             f.steps[c].fields[k].variable = f.steps[id].fields[i]

-----------------------------------------------------------------------------
\* "Back".

\* Only questions offer "back", the first step does not, and the questions that
\* do lie ever deeper behind one that does not, so that the history still holds
\* that one when the customer has gone back all the way.
Deepening(f, depth) ==
  /\ depth \in [StepIds -> 0 .. HistoryCap - 1]
  /\ \A id \in FirstSteps(f) \cap DOMAIN f.steps : IsListed(f, id) /\ ~OffersBack(f, id)
  /\ \A id \in DOMAIN f.steps :
       /\ OffersBack(f, id) => f.steps[id].type \in PromptTypes
       /\ \A to \in LeadsTo(f, id) :
            /\ OffersBack(f, to) => depth[to] > depth[id]
            /\ ~IsListed(f, to) => depth[to] >= depth[id]

BackEnds == \A f \in Flows : \E depth : Deepening(f, depth)

\* A step that waits for the customer, whatever he has said before: an
\* identification does unless it is left with an index its fields do not have.
Waits(f, id) ==
  LET s == f.steps[id]
  IN  \/ s.type \in {"OPTIONS", "INPUT"}
      \/ s.type = "REVIEW" /\ ~s.skip
      \/ /\ s.type = "CUSTOMER_IDENTIFICATION" /\ ~s.skip /\ Len(s.fields) > 0
         /\ \A other \in DOMAIN f.steps : f.steps[other].type = "CUSTOMER_IDENTIFICATION"
              => Len(f.steps[other].fields) <= Len(s.fields)

\* The steps that come after one which is in the history and waits for nothing,
\* up to the next one that is; none of those offers "back".
Passing(f, after) ==
  /\ after \subseteq DOMAIN f.steps
  /\ \A id \in DOMAIN f.steps : IsListed(f, id) /\ ~Waits(f, id) => id \in after
  /\ \A id \in after : \A to \in LeadsTo(f, id) :
       IF IsListed(f, to) THEN ~OffersBack(f, to) ELSE to \in after

BackToQuestions == \A f \in Flows : \E after : Passing(f, after)

-----------------------------------------------------------------------------
\* Identifications.

\* Variables that an identification keeps under their own key of the metadata.
PlainKeys == MetaKeys \ {"name", "wpp_name", "phone", "wpp_phone"}

Writes(s) ==
  CASE s.type \in {"INPUT", "SET_VARIABLE"} -> {s.variable}
    [] s.type = "HTTP_REQUEST" -> {s.saveStatus, s.saveBody}
    [] OTHER -> {}

\* The flow has one identification, "who", which is neither skipped nor left by
\* "back"; nothing else writes its fields and no answer to it counts as empty.
\* Reviews send the customer there, and come behind it: the steps before it
\* lead to it only.
Guided(f, who, before) ==
  LET fields == f.steps[who].fields
      kept   == Vars(fields)
  IN  /\ \A id \in DOMAIN f.steps : f.steps[id].type = "CUSTOMER_IDENTIFICATION" => id = who
      /\ ~f.steps[who].skip /\ ~OffersBack(f, who)
      /\ kept \subseteq {"name"} \cup PlainKeys
      /\ \A i \in DOMAIN fields, m \in Inputs :
           FieldAccepts(fields[i].type, m) => m # "" /\ m \notin Placeholders
      /\ FirstSteps(f) \cap DOMAIN f.steps \subseteq before
      /\ \A id \in before \ {who} : LeadsTo(f, id) \subseteq before
      /\ \A id \in DOMAIN f.steps :
           /\ Writes(f.steps[id]) \cap kept = {}
           /\ f.steps[id].type = "REVIEW" =>
                /\ id \notin before
                /\ f.steps[id].correction = who
                /\ \A i \in DOMAIN f.steps[id].fields : f.steps[id].fields[i] \in kept

GuidedIdentifications ==
  \A f \in Flows : \A who \in DOMAIN f.steps :
    f.steps[who].type = "CUSTOMER_IDENTIFICATION" => \E before \in SUBSET DOMAIN f.steps : Guided(f, who, before)
=============================================================================
