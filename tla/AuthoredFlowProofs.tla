------------------------- MODULE AuthoredFlowProofs -------------------------
(***************************************************************************)
(* Proofs about FlowEngine that rest on how a flow is drawn: where "back"  *)
(* ends, that it moves on, and that an identification leaves no field      *)
(* open.  Each theorem names the kind of flow it is about (AuthoredFlows); *)
(* the flows of the run engine_talk are of those kinds.                    *)
(***************************************************************************)
EXTENDS FlowReviewProofs

-----------------------------------------------------------------------------
\* The inductive invariants: "back".

\* Nothing but steps of the flow that are listed is put into the history.
Remembered ==
  changes = 0 => \A i \in DOMAIN history :
                   history[i] \in DOMAIN def.steps /\ IsListed(def, history[i])

DepthOf(f) == CHOOSE depth : Deepening(f, depth)

\* The history holds a step that does not offer "back", no deeper in it than d
\* steps, and every step on top of that one is as deep as it has steps behind it.
Ended(f, past, d) ==
  \E j \in DOMAIN past :
    /\ ~OffersBack(f, past[j]) /\ j <= d + 1
    /\ \A i \in 1 .. j : DepthOf(f)[past[i]] >= j - i

\* The history of a conversation that is at the step.
Stands(id) ==
  /\ IsListed(def, id) => PeekHistory(history) = id
  /\ Ended(def, history, DepthOf(def)[id])

\* The history of a conversation that is about to enter the step.
Comes(id) ==
  /\ OffersBack(def, id) =>
       \/ PeekHistory(history) = id /\ Ended(def, history, DepthOf(def)[id])
       \/ Ended(def, history, DepthOf(def)[id] - 1)
  /\ ~IsListed(def, id) => Ended(def, history, DepthOf(def)[id])

Backed ==
  Undisturbed =>
    IF pc = "enter" THEN at \in DOMAIN def.steps => Comes(at)
    ELSE step \in DOMAIN def.steps => Stands(step)

AfterOf(f) == CHOOSE after : Passing(f, after)

\* Two steps in a row in the history differ, and the one behind a step that
\* offers "back" waits for the customer.
Linked(f, past) ==
  \A i \in DOMAIN past : i + 1 \in DOMAIN past =>
    past[i] # past[i + 1] /\ (OffersBack(f, past[i]) => Waits(f, past[i + 1]))

\* The step came from one that waits, or leads to none that offers "back".
Led(id) == Waits(def, PeekHistory(history)) \/ id \in AfterOf(def)

\* The step may be put on top of the history.
Follows(id) ==
  /\ OffersBack(def, id) => PeekHistory(history) = id \/ Waits(def, PeekHistory(history))
  /\ ~IsListed(def, id) => Led(id)

Laid ==
  Undisturbed =>
    /\ Linked(def, history)
    /\ IF pc = "enter" THEN at \in DOMAIN def.steps => Follows(at)
       ELSE step \in DOMAIN def.steps /\ ~IsListed(def, step) => Led(step)

\* The index of an identification is one of some identification's fields.
IndexFits ==
  changes = 0 => \/ meta.field_idx = 0
                 \/ \E id \in DOMAIN def.steps : /\ def.steps[id].type = "CUSTOMER_IDENTIFICATION"
                                                 /\ meta.field_idx < Len(def.steps[id].fields)

\* A customer who went back is on the way to a step that waits, which is not
\* the one he left.
GoneBack ==
  Undisturbed /\ Lower(msg) \in {"0", "voltar"} /\ from \in DOMAIN def.steps /\ OffersBack(def, from) =>
    /\ pc # "input"
    /\ pc = "enter" => count = 0 /\ at \in DOMAIN def.steps /\ at # from /\ Waits(def, at)
    /\ pc = "exec" => at # from /\ Waits(def, at)
    /\ pc = "release" => step # from

-----------------------------------------------------------------------------
\* The history as a list.

LEMMA HistorySpan ==
  ASSUME NEW past \in Seq(StepIds)
  PROVE  /\ Len(past) \in Nat /\ DOMAIN past = 1 .. Len(past)
         /\ \A i \in DOMAIN past : past[i] \in StepIds
         /\ PeekHistory(past) = IF Len(past) = 0 THEN NoStep ELSE past[1]
<1>1. Len(past) \in Nat /\ DOMAIN past = 1 .. Len(past) /\ \A i \in DOMAIN past : past[i] \in StepIds
  BY LenProperties, ElementOfSeq
<1>2. past = <<>> <=> Len(past) = 0
  BY EmptySeq
<1>3. past # <<>> => Head(past) = past[1]
  BY HeadTailProperties
<1> QED
  BY <1>1, <1>2, <1>3 DEF PeekHistory

\* What is pushed is the first element, the others move down by one, and those
\* beyond the cap are forgotten.
LEMMA PushedElements ==
  ASSUME NEW past \in Seq(StepIds), NEW id \in StepIds, NEW next, next = PushHistory(past, id)
  PROVE  /\ next \in Seq(StepIds)
         /\ Len(next) = IF Len(past) + 1 < HistoryCap THEN Len(past) + 1 ELSE HistoryCap
         /\ next[1] = id
         /\ \A i \in DOMAIN next : i > 1 => i - 1 \in DOMAIN past /\ next[i] = past[i - 1]
<1> DEFINE longer == <<id>> \o past
<1>1. Len(past) \in Nat /\ DOMAIN past = 1 .. Len(past)
  BY HistorySpan
<1>2. /\ longer \in Seq(StepIds) /\ Len(longer) = Len(past) + 1 /\ longer[1] = id
      /\ \A i \in 1 .. Len(longer) : i > 1 => longer[i] = past[i - 1]
  <2>1. <<id>> \in Seq(StepIds) /\ Len(<<id>>) = 1 /\ <<id>>[1] = id
    OBVIOUS
  <2>2. /\ longer \in Seq(StepIds) /\ Len(longer) = Len(<<id>>) + Len(past)
        /\ \A i \in 1 .. Len(<<id>>) + Len(past) :
             longer[i] = IF i <= Len(<<id>>) THEN <<id>>[i] ELSE past[i - Len(<<id>>)]
    BY <2>1, ConcatProperties
  <2> HIDE DEF longer
  <2> QED
    BY <1>1, <2>1, <2>2
<1>3. next = Trim(longer, HistoryCap)
  BY DEF PushHistory
<1> HIDE DEF longer
<1>4. /\ next \in Seq(StepIds)
      /\ Len(next) = IF Len(longer) < HistoryCap THEN Len(longer) ELSE HistoryCap
      /\ \A i \in 1 .. Len(next) : next[i] = longer[i]
  BY <1>2, <1>3, TrimFits, StoreAssumption
<1>5. Len(next) \in Nat \ {0} /\ Len(next) <= Len(longer)
  BY <1>1, <1>2, <1>4, StoreAssumption
<1>6. Len(next) = IF Len(past) + 1 < HistoryCap THEN Len(past) + 1 ELSE HistoryCap
  BY <1>1, <1>2, <1>4, StoreAssumption
<1>7. DOMAIN next = 1 .. Len(next)
  BY <1>4, HistorySpan
<1>8. next[1] = id
  BY <1>2, <1>4, <1>5
<1>9. ASSUME NEW i \in DOMAIN next, i > 1 PROVE i - 1 \in DOMAIN past /\ next[i] = past[i - 1]
  <2>1. i \in Nat /\ i <= Len(past) + 1
    BY <1>1, <1>2, <1>5, <1>7
  <2>2. i \in 1 .. Len(longer) /\ i \in 1 .. Len(next)
    BY <1>2, <1>5, <1>7
  <2> QED
    BY <1>1, <1>2, <1>4, <1>9, <2>1, <2>2
<1> QED
  BY <1>4, <1>6, <1>8, <1>9

LEMMA PoppedElements ==
  ASSUME NEW past \in Seq(StepIds), NEW left, left = PopHistory(past)
  PROVE  /\ left \in Seq(StepIds)
         /\ Len(left) = IF Len(past) = 0 THEN 0 ELSE Len(past) - 1
         /\ \A i \in DOMAIN left : i + 1 \in DOMAIN past /\ left[i] = past[i + 1]
<1>1. Len(past) \in Nat /\ DOMAIN past = 1 .. Len(past) /\ (past = <<>> <=> Len(past) = 0)
  BY HistorySpan, EmptySeq
<1>2. CASE past = <<>>
  BY <1>1, <1>2 DEF PopHistory
<1>3. CASE past # <<>>
  <2>1. /\ left \in Seq(StepIds) /\ Len(left) = Len(past) - 1
        /\ \A i \in 1 .. Len(left) : left[i] = past[i + 1]
    BY <1>3, HeadTailProperties DEF PopHistory
  <2>2. DOMAIN left = 1 .. Len(left)
    BY <2>1, HistorySpan
  <2> QED
    BY <1>1, <1>3, <2>1, <2>2
<1> QED
  BY <1>2, <1>3

\* "Back" takes two steps off the history.
LEMMA PoppedTwice ==
  ASSUME NEW past \in Seq(StepIds), NEW left, left = PopHistory(PopHistory(past))
  PROVE  /\ left \in Seq(StepIds)
         /\ Len(left) = IF Len(past) < 2 THEN 0 ELSE Len(past) - 2
         /\ \A i \in DOMAIN left : i + 2 \in DOMAIN past /\ left[i] = past[i + 2]
         /\ PeekHistory(PopHistory(past)) = IF Len(past) < 2 THEN NoStep ELSE past[2]
<1>1. PICK once : once = PopHistory(past)
  OBVIOUS
<1>2. PICK m, n, l : m = Len(past) /\ n = Len(once) /\ l = Len(left)
  OBVIOUS
<1>3. /\ once \in Seq(StepIds) /\ n = IF m = 0 THEN 0 ELSE m - 1
      /\ \A i \in DOMAIN once : i + 1 \in DOMAIN past /\ once[i] = past[i + 1]
  BY <1>1, <1>2, PoppedElements
<1>4. /\ left \in Seq(StepIds) /\ l = IF n = 0 THEN 0 ELSE n - 1
      /\ \A i \in DOMAIN left : i + 1 \in DOMAIN once /\ left[i] = once[i + 1]
  BY <1>1, <1>2, <1>3, PoppedElements
<1>5. m \in Nat /\ n \in Nat /\ DOMAIN past = 1 .. m /\ DOMAIN once = 1 .. n /\ DOMAIN left = 1 .. l
  BY <1>2, <1>3, <1>4, HistorySpan
<1>6. l = IF m < 2 THEN 0 ELSE m - 2
  BY <1>3, <1>4, <1>5
<1>7. ASSUME NEW i \in DOMAIN left PROVE i + 2 \in DOMAIN past /\ left[i] = past[i + 2]
  <2>1. i + 1 \in DOMAIN once /\ left[i] = once[i + 1]
    BY <1>4
  <2>2. i + 1 + 1 \in DOMAIN past /\ once[i + 1] = past[i + 1 + 1]
    BY <1>3, <2>1
  <2>3. i + 1 + 1 = i + 2
    BY <1>5, <1>6
  <2> QED
    BY <2>1, <2>2, <2>3
<1>8. PeekHistory(once) = IF m < 2 THEN NoStep ELSE past[2]
  <2>1. PeekHistory(once) = IF n = 0 THEN NoStep ELSE once[1]
    BY <1>2, <1>3, HistorySpan
  <2>2. m >= 2 => 1 \in DOMAIN once
    BY <1>3, <1>5
  <2>3. m >= 2 => once[1] = past[1 + 1]
    BY <1>3, <2>2
  <2> QED
    BY <1>3, <1>5, <2>1, <2>3
<1> QED
  BY <1>1, <1>2, <1>4, <1>6, <1>7, <1>8

-----------------------------------------------------------------------------
\* Where "back" ends.

LEMMA DepthFits ==
  ASSUME BackEnds, NEW f \in Flows
  PROVE  Deepening(f, DepthOf(f)) /\ \A id \in StepIds : DepthOf(f)[id] \in 0 .. HistoryCap - 1
<1>1. Deepening(f, DepthOf(f))
  BY DEF BackEnds, DepthOf
<1> QED
  BY <1>1, StoreAssumption DEF Deepening

LEMMA EndedDeeper ==
  ASSUME NEW f, NEW past \in Seq(StepIds), NEW d \in Int, NEW e \in Int, d <= e, Ended(f, past, d)
  PROVE  Ended(f, past, e)
<1>1. PICK j \in DOMAIN past :
        /\ ~OffersBack(f, past[j]) /\ j <= d + 1
        /\ \A i \in 1 .. j : DepthOf(f)[past[i]] >= j - i
  BY DEF Ended
<1>2. j \in Nat
  BY HistorySpan
<1>3. j <= e + 1
  BY <1>1, <1>2
<1> QED
  BY <1>1, <1>3 DEF Ended

\* A step that does not offer "back" ends it.
LEMMA EndedOnTop ==
  ASSUME BackEnds, NEW f \in Flows, NEW past \in Seq(StepIds), NEW id \in StepIds,
         ~OffersBack(f, id), 1 \in DOMAIN past, past[1] = id
  PROVE  Ended(f, past, DepthOf(f)[id])
<1>1. DepthOf(f)[id] \in Nat
  BY DepthFits, StoreAssumption
<1>2. \A i \in 1 .. 1 : DepthOf(f)[past[i]] >= 1 - i
  BY <1>1
<1> QED
  BY <1>1, <1>2 DEF Ended

\* A step that is deep enough is put on top of the others without making the
\* history forget where "back" ends.
LEMMA EndedPushed ==
  ASSUME BackEnds, NEW f \in Flows, NEW past \in Seq(StepIds), NEW id \in StepIds,
         Ended(f, past, DepthOf(f)[id] - 1)
  PROVE  Ended(f, PushHistory(past, id), DepthOf(f)[id])
<1>1. PICK next, d, m, n : /\ next = PushHistory(past, id) /\ d = DepthOf(f)[id]
                           /\ m = Len(past) /\ n = Len(next)
  OBVIOUS
<1>2. d \in 0 .. HistoryCap - 1 /\ HistoryCap \in Nat
  BY <1>1, DepthFits, StoreAssumption
<1>3. PICK j \in DOMAIN past :
        /\ ~OffersBack(f, past[j]) /\ j <= d - 1 + 1
        /\ \A i \in 1 .. j : DepthOf(f)[past[i]] >= j - i
  BY <1>1 DEF Ended
<1>4. /\ next \in Seq(StepIds) /\ next[1] = id
      /\ n = IF m + 1 < HistoryCap THEN m + 1 ELSE HistoryCap
      /\ \A i \in DOMAIN next : i > 1 => i - 1 \in DOMAIN past /\ next[i] = past[i - 1]
  <2>1. /\ next \in Seq(StepIds)
        /\ Len(next) = IF Len(past) + 1 < HistoryCap THEN Len(past) + 1 ELSE HistoryCap
        /\ next[1] = id
        /\ \A i \in DOMAIN next : i > 1 => i - 1 \in DOMAIN past /\ next[i] = past[i - 1]
    <3>1. next = PushHistory(past, id)
      BY <1>1
    <3>2. next \in Seq(StepIds)
      BY <3>1, PushedElements
    <3>3. Len(next) = IF Len(past) + 1 < HistoryCap THEN Len(past) + 1 ELSE HistoryCap
      BY <3>1, PushedElements
    <3>4. next[1] = id
      BY <3>1, PushedElements
    <3>5. \A i \in DOMAIN next : i > 1 => i - 1 \in DOMAIN past /\ next[i] = past[i - 1]
      BY <3>1, PushedElements
    <3> QED
      BY <3>2, <3>3, <3>4, <3>5
  <2> QED
    BY <1>1, <2>1
<1>5. m \in Nat /\ DOMAIN past = 1 .. m /\ DOMAIN next = 1 .. n
  BY <1>1, <1>4, HistorySpan
<1>6. j \in Nat \ {0} /\ j <= m /\ j <= d
  BY <1>2, <1>3, <1>5
<1>7. j + 1 \in DOMAIN next
  BY <1>2, <1>4, <1>5, <1>6
<1>8. next[j + 1] = past[j]
  BY <1>4, <1>6, <1>7
<1>9. ASSUME NEW i \in 1 .. j + 1 PROVE DepthOf(f)[next[i]] >= j + 1 - i
  <2>1. i \in DOMAIN next /\ i \in Nat \ {0}
    <3>1. n \in Nat /\ j + 1 <= n
      BY <1>2, <1>4, <1>5, <1>6
    <3>2. i \in Nat \ {0} /\ i <= n
      BY <1>6, <3>1
    <3> QED
      BY <1>5, <3>1, <3>2
  <2>2. CASE i = 1
    BY <1>1, <1>2, <1>4, <1>6, <2>2
  <2>3. CASE i > 1
    <3>1. next[i] = past[i - 1]
      BY <1>4, <2>1, <2>3
    <3>2. i - 1 \in 1 .. j
      BY <1>6, <2>1, <2>3
    <3>3. DepthOf(f)[past[i - 1]] >= j - (i - 1)
      BY <1>3, <3>2
    <3>4. j - (i - 1) = j + 1 - i
      BY <1>6, <2>1
    <3> QED
      BY <3>1, <3>3, <3>4
  <2> QED
    BY <2>1, <2>2, <2>3
<1>10. j + 1 <= d + 1
  BY <1>2, <1>6
<1>11. Ended(f, next, d)
  BY <1>3, <1>7, <1>8, <1>9, <1>10 DEF Ended
<1> QED
  BY <1>1, <1>11

\* Behind a step that offers "back" there is another one, and what is left when
\* both are taken off ends before that one's depth, if it offers "back" too.
LEMMA EndedPopped ==
  ASSUME BackEnds, NEW f \in Flows, NEW past \in Seq(StepIds), NEW d,
         Ended(f, past, d), OffersBack(f, past[1])
  PROVE  /\ Len(past) >= 2
         /\ OffersBack(f, past[2]) =>
              /\ Len(past) >= 3
              /\ Ended(f, PopHistory(PopHistory(past)), DepthOf(f)[past[2]] - 1)
<1>1. PICK left, m, n : left = PopHistory(PopHistory(past)) /\ m = Len(past) /\ n = Len(left)
  OBVIOUS
<1>2. PICK j \in DOMAIN past :
        /\ ~OffersBack(f, past[j])
        /\ \A i \in 1 .. j : DepthOf(f)[past[i]] >= j - i
  BY DEF Ended
<1>3. /\ left \in Seq(StepIds) /\ n = IF m < 2 THEN 0 ELSE m - 2
      /\ \A i \in DOMAIN left : left[i] = past[i + 2]
  BY <1>1, PoppedTwice
<1>4. m \in Nat /\ DOMAIN past = 1 .. m /\ DOMAIN left = 1 .. n
      /\ \A i \in DOMAIN past : past[i] \in StepIds
  BY <1>1, <1>3, HistorySpan
<1>5. j \in Nat \ {0} /\ j <= m /\ j # 1
  BY <1>2, <1>4
<1>6. m >= 2
  BY <1>4, <1>5
<1>7. ASSUME OffersBack(f, past[2])
      PROVE  m >= 3 /\ Ended(f, left, DepthOf(f)[past[2]] - 1)
  <2>1. j # 2
    BY <1>2, <1>7
  <2>2. j >= 3 /\ m >= 3
    BY <1>4, <1>5, <2>1
  <2>3. j - 2 \in DOMAIN left /\ left[j - 2] = past[j]
    <3>1. j - 2 \in DOMAIN left
      BY <1>3, <1>4, <1>5, <2>2
    <3>2. left[j - 2] = past[j - 2 + 2]
      BY <1>3, <3>1
    <3>3. j - 2 + 2 = j
      BY <1>5
    <3> QED
      BY <3>1, <3>2, <3>3
  <2>4. j - 2 <= DepthOf(f)[past[2]] - 1 + 1
    <3>1. DepthOf(f)[past[2]] >= j - 2
      BY <1>2, <1>5, <2>2
    <3>2. DepthOf(f)[past[2]] \in Nat
      BY <1>4, <1>6, DepthFits, StoreAssumption
    <3> QED
      BY <1>5, <3>1, <3>2
  <2>5. ASSUME NEW i \in 1 .. j - 2 PROVE DepthOf(f)[left[i]] >= j - 2 - i
    <3>1. i \in DOMAIN left /\ i + 2 \in 1 .. j
      BY <1>3, <1>4, <1>5, <2>2
    <3>2. DepthOf(f)[past[i + 2]] >= j - (i + 2)
      BY <1>2, <3>1
    <3>3. j - (i + 2) = j - 2 - i
      BY <1>5
    <3> QED
      BY <1>3, <3>1, <3>2, <3>3
  <2> QED
    BY <1>2, <2>2, <2>3, <2>4, <2>5 DEF Ended
<1> QED
  BY <1>1, <1>6, <1>7

-----------------------------------------------------------------------------
\* Where a handler leads.

LEMMA SwitchLeads ==
  ASSUME WellFormed(Here), Here.type = "SWITCH"
  PROVE  SwitchTarget \in {Here.default} \cup {Here.branches[i].target : i \in DOMAIN Here.branches}
<1> DEFINE value == Lower(Get(user, Here.variable))
           hits == {i \in DOMAIN Here.branches : Same(value, Lower(Here.branches[i].value))}
<1>1. hits \subseteq Nat /\ hits \subseteq DOMAIN Here.branches
  BY DEF WellFormed
<1>2. SwitchTarget = IF hits = {} THEN Here.default ELSE Here.branches[Least(hits)].target
  BY DEF SwitchTarget
<1> HIDE DEF hits
<1>3. hits # {} => Least(hits) \in DOMAIN Here.branches
  BY <1>1, LeastIn
<1> QED
  BY <1>2, <1>3

LEMMA ExecuteLeads ==
  ASSUME Shape, pc = "exec", Execute, pc' = "enter", at' \in DOMAIN def.steps
  PROVE  at' \in LeadsTo(def, at)
<1>1. SUFFICES at' \in WaysOn(Here)
  BY DEF LeadsTo, Here
<1>2. WellFormed(Here)
  BY HereIsStep DEF Shape
<1>3. CASE \/ Here.type = "TEXT" /\ TextExecute
           \/ Here.type = "MEDIA" /\ MediaExecute
           \/ Here.type = "DELAY" /\ DelayExecute
           \/ Here.type = "SET_VARIABLE" /\ SetVariableExecute
           \/ Here.type = "CUSTOMER_IDENTIFICATION" /\ IdentificationExecute
  BY <1>3 DEF TextExecute, MediaExecute, DelayExecute, SetVariableExecute, IdentificationExecute,
     Continue, Rest, WaysOn
<1>4. CASE \/ Here.type = "JUMP" /\ JumpExecute
           \/ Here.type = "CONDITION" /\ ConditionExecute
  BY <1>4 DEF JumpExecute, ConditionExecute, Continue, WaysOn
<1>5. CASE Here.type = "SWITCH" /\ SwitchExecute
  <2>1. at' \in {Here.default, SwitchTarget}
    BY <1>5 DEF SwitchExecute, Continue
  <2> QED
    BY <1>2, <1>5, <2>1, SwitchLeads DEF WaysOn
<1>6. CASE Here.type = "HTTP_REQUEST" /\ HttpExecute
  <2>1. at' \in {Here.success, Here.failure, Here.next}
    BY <1>6 DEF HttpExecute, Continue, Or
  <2> QED
    BY <1>6, <2>1 DEF WaysOn
<1>7. CASE Here.type = "REVIEW" /\ ReviewExecute
  <2>1. at' = Here.next
    BY <1>7 DEF ReviewExecute, Continue, Rest
  <2> QED
    BY <1>7, <2>1 DEF WaysOn
<1>8. ASSUME HandoverExecute \/ EndExecute \/ InputExecute \/ OptionsExecute PROVE FALSE
  BY <1>8 DEF HandoverExecute, EndExecute, InputExecute, OptionsExecute, Rest
<1> QED
  BY <1>3, <1>4, <1>5, <1>6, <1>7, <1>8, ExecuteByType

\* A message leads to a step that comes next, or round to the step that got it.
LEMMA InputLeads ==
  ASSUME Shape, pc = "input", ProcessInput, pc' = "enter", at' \in DOMAIN def.steps
  PROVE  at' = at \/ at' \in LeadsTo(def, at)
<1>1. SUFFICES at' = at \/ at' \in WaysOn(Here)
  BY DEF LeadsTo, Here
<1>2. CASE Here.type = "TEXT" /\ TextInput
  BY <1>2 DEF TextInput, Continue, WaysOn
<1>3. CASE Here.type = "INPUT" /\ InputInput
  <2>1. at' \in {Here.next, at}
    BY <1>3 DEF InputInput, InputRejected, InputAccepted, Continue
  <2> QED
    BY <1>3, <2>1 DEF WaysOn
<1>4. CASE Here.type = "OPTIONS" /\ OptionsInput
  <2>1. Chosen # 0 /\ at' = Options[Chosen].target
    BY <1>4 DEF OptionsInput, Rest, Continue
  <2>2. CASE Here.dynamic = ""
    <3>1. Options = Here.options /\ Chosen \in DOMAIN Here.options
      BY <1>4, <2>1, <2>2, ChosenIsListed
    <3> QED
      BY <1>4, <2>1, <2>2, <3>1 DEF WaysOn
  <2>3. CASE Here.dynamic # ""
    <3>1. at' \in StepIds
      BY EngineAssumption DEF Shape, TypeOK
    <3> QED
      BY <1>4, <2>3, <3>1 DEF WaysOn
  <2> QED
    BY <2>2, <2>3
<1>5. CASE Here.type = "CUSTOMER_IDENTIFICATION" /\ IdentificationInput
  <2>1. at' \in {Here.next, at}
    BY <1>5 DEF IdentificationInput, IdentificationLost, IdentificationRejected,
       IdentificationAccepted, Continue
  <2> QED
    BY <1>5, <2>1 DEF WaysOn
<1>6. CASE Here.type = "REVIEW" /\ ReviewInput
  <2>1. at' \in {Here.next, Here.correction, at}
    BY <1>6 DEF ReviewInput, ReviewConfirmed, ReviewEdit, ReviewOther, ReviewBackToSummary,
       ReviewBadField, ReviewCorrect, Continue, Rest, Or
  <2> QED
    BY <1>6, <2>1 DEF WaysOn
<1>7. ASSUME DeafInput PROVE FALSE
  BY <1>7 DEF DeafInput, Rest
<1> QED
  BY <1>2, <1>3, <1>4, <1>5, <1>6, <1>7, InputByType

-----------------------------------------------------------------------------
\* What is in the history.

LEMMA LeftRecalled ==
  ASSUME Shape, NEW i \in DOMAIN HistoryLeft
  PROVE  \E k \in DOMAIN history : HistoryLeft[i] = history[k]
<1>1. CASE BackAsked
  <2>1. PICK left : left = PopHistory(PopHistory(history))
    OBVIOUS
  <2>2. \A n \in DOMAIN left : n + 2 \in DOMAIN history /\ left[n] = history[n + 2]
    BY <2>1, PoppedTwice DEF Shape, TypeOK
  <2> QED
    BY <1>1, <2>1, <2>2 DEF HistoryLeft
<1>2. CASE ~BackAsked
  BY <1>2 DEF HistoryLeft
<1> QED
  BY <1>1, <1>2

LEMMA ListedRecalled ==
  ASSUME Shape, at \in DOMAIN def.steps, NEW i \in DOMAIN Listed
  PROVE  \/ Listed[i] = at /\ IsListed(def, at)
         \/ \E k \in DOMAIN history : Listed[i] = history[k]
<1>1. at \in StepIds /\ history \in Seq(StepIds)
  BY EngineAssumption DEF Shape, TypeOK
<1>2. CASE Here.type \in ListedTypes /\ PeekHistory(history) # at
  <2>1. PICK next : next = PushHistory(history, at)
    OBVIOUS
  <2>2. next \in Seq(StepIds)
    BY <1>1, <2>1, PushedElements
  <2>3. next[1] = at
    BY <1>1, <2>1, PushedElements
  <2>4. \A n \in DOMAIN next : n > 1 => n - 1 \in DOMAIN history /\ next[n] = history[n - 1]
    BY <1>1, <2>1, PushedElements
  <2>5. \A n \in DOMAIN next : n = 1 \/ n > 1
    BY <2>2, HistorySpan
  <2>6. Listed = next /\ IsListed(def, at)
    BY <1>2, <2>1 DEF Listed, IsListed, Here
  <2> QED
    BY <2>3, <2>4, <2>5, <2>6
<1>3. CASE ~(Here.type \in ListedTypes /\ PeekHistory(history) # at)
  BY <1>3 DEF Listed
<1> QED
  BY <1>2, <1>3

\* A step of the history was there before, or is the one that is being entered.
LEMMA NextHistory ==
  ASSUME Shape, [Next]_vars, NEW i \in DOMAIN history'
  PROVE  \/ \E k \in DOMAIN history : history'[i] = history[k]
         \/ /\ pc = "enter" /\ at \in DOMAIN def.steps /\ IsListed(def, at)
            /\ history'[i] = at
<1>1. CASE history' = history
  BY <1>1
<1>2. ASSUME history' = <<>> PROVE FALSE
  BY <1>2, EmptySeq
<1>3. ASSUME NEW m, Receive(m) PROVE history' = history
  BY <1>3 DEF Receive, session
<1>4. ASSUME Passive \/ Blocked \/ Start \/ StartOver PROVE history' = history
  BY <1>4 DEF Passive, Blocked, Start, StartOver, session
<1>5. CASE GoBack \/ Answer
  BY <1>5, LeftRecalled DEF GoBack, Answer
<1>6. CASE pc = "input" /\ ProcessInput
  BY <1>1, <1>6, InputEffect DEF Answered, Handled
<1>7. CASE pc = "exec" /\ Execute
  BY <1>1, <1>7, ExecuteEffect DEF Executed, Handled
<1>8. ASSUME StopLoop \/ EnterNowhere \/ Release PROVE history' = history
  BY <1>8 DEF StopLoop, EnterNowhere, Release, session
<1>9. CASE EnterStep \/ InterruptEntering
  BY <1>9, ListedRecalled DEF EnterStep, InterruptEntering
<1>10. ASSUME Interrupt \/ Unblock \/ ToggleActive \/ \E f \in Flows : Attach(f)
       PROVE  history' = history
  BY <1>10 DEF Interrupt, Unblock, ToggleActive, Attach, session
<1>11. ASSUME Expire \/ ResetFlow \/ \E f \in Flows : Publish(f)
       PROVE  history' \in {history, <<>>}
  BY <1>11 DEF Expire, ResetFlow, Publish, session
<1>12. CASE UNCHANGED vars
  BY <1>1, <1>12 DEF vars, session
<1> QED
  BY <1>1, <1>2, <1>3, <1>4, <1>5, <1>6, <1>7, <1>8, <1>9, <1>10, <1>11, <1>12 DEF Next, Work,
     Interfere, ProcessInput, Execute

LEMMA NextRemembered ==
  ASSUME Steady, Remembered, [Next]_vars
  PROVE  Remembered'
<1> SUFFICES ASSUME changes' = 0, NEW i \in DOMAIN history'
             PROVE  history'[i] \in DOMAIN def'.steps /\ IsListed(def', history'[i])
  BY DEF Remembered, IsListed
<1>1. changes = 0 /\ def' = def
  BY OneDefinition
<1> QED
  BY <1>1, NextHistory DEF Remembered, Steady

-----------------------------------------------------------------------------
\* How many steps "back" can go.

LEMMA StepSpan ==
  ASSUME BackEnds, Steady, NEW id \in DOMAIN def.steps
  PROVE  /\ def \in Flows /\ id \in StepIds /\ id # NoStep
         /\ DepthOf(def)[id] \in Nat
         /\ OffersBack(def, id) => IsListed(def, id)
<1>1. def \in Flows /\ id \in StepIds /\ id # NoStep
  BY EngineAssumption DEF Steady, Shape, TypeOK
<1>2. Deepening(def, DepthOf(def)) /\ DepthOf(def)[id] \in Nat
  BY <1>1, DepthFits, StoreAssumption
<1>3. OffersBack(def, id) => IsListed(def, id)
  BY <1>2 DEF Deepening, IsListed, ListedTypes
<1> QED
  BY <1>1, <1>2, <1>3

\* At a step that offers "back" there is a step to go back to; if it offers
\* "back" too, the history left still ends.
LEMMA BackLeads ==
  ASSUME BackEnds, Steady, Remembered, Backed, Undisturbed, pc = "dispatch", BackAsked
  PROVE  /\ step \in DOMAIN def.steps /\ Standing = step /\ OffersBack(def, step)
         /\ Len(history) >= 2 /\ history[1] = step
         /\ Previous = history[2] /\ Previous # NoStep
         /\ Previous \in DOMAIN def.steps /\ IsListed(def, Previous)
         /\ OffersBack(def, Previous) =>
              Len(history) >= 3 /\ Ended(def, HistoryLeft, DepthOf(def)[Previous] - 1)
<1>1. def = flow /\ changes = 0
  BY DEF Steady, Settled, Undisturbed
<1>2. NoStep \notin DOMAIN def.steps
  BY EngineAssumption DEF Steady, Shape, TypeOK
<1>3. step \in DOMAIN def.steps /\ Standing = step /\ OffersBack(def, step)
  BY <1>1, <1>2 DEF BackAsked, Standing, OffersBack
<1>4. Stands(step)
  BY <1>3 DEF Backed
<1>5. history \in Seq(StepIds) /\ def \in Flows /\ step # NoStep
  BY <1>2, <1>3 DEF Steady, Shape, TypeOK
<1>6. PeekHistory(history) = step
  BY <1>3, <1>4, StepSpan DEF Stands
<1>7. history[1] = step
  BY <1>5, <1>6, HistorySpan
<1>8. /\ Len(history) >= 2
      /\ OffersBack(def, history[2]) =>
           Len(history) >= 3 /\ Ended(def, PopHistory(PopHistory(history)), DepthOf(def)[history[2]] - 1)
  BY <1>3, <1>4, <1>5, <1>7, EndedPopped DEF Stands
<1>9. PICK left : left = PopHistory(PopHistory(history))
  OBVIOUS
<1>10. PeekHistory(PopHistory(history)) = IF Len(history) < 2 THEN NoStep ELSE history[2]
  BY <1>5, <1>9, PoppedTwice
<1>11. Len(history) \in Nat /\ DOMAIN history = 1 .. Len(history)
  BY <1>5, HistorySpan
<1>12. Previous = history[2]
  BY <1>8, <1>10, <1>11 DEF Previous
<1>13. 2 \in DOMAIN history
  BY <1>8, <1>11
<1>14. Previous \in DOMAIN def.steps /\ IsListed(def, Previous)
  BY <1>1, <1>12, <1>13 DEF Remembered
<1>15. HistoryLeft = PopHistory(PopHistory(history))
  BY DEF HistoryLeft
<1> QED
  BY <1>2, <1>3, <1>7, <1>8, <1>12, <1>14, <1>15

\* Whatever a step leads to, "back" ends from there.
LEMMA LeadsOn ==
  ASSUME BackEnds, Steady, at \in DOMAIN def.steps, Stands(at),
         NEW to \in DOMAIN def.steps, to = at \/ to \in LeadsTo(def, at)
  PROVE  Comes(to)
<1>1. /\ def \in Flows /\ history \in Seq(StepIds)
      /\ DepthOf(def)[at] \in Nat /\ DepthOf(def)[to] \in Nat
      /\ OffersBack(def, to) => IsListed(def, to)
  BY StepSpan DEF Steady, Shape, TypeOK
<1>2. Ended(def, history, DepthOf(def)[at])
  BY DEF Stands
<1>3. CASE to = at
  BY <1>1, <1>2, <1>3 DEF Stands, Comes
<1>4. CASE to \in LeadsTo(def, at)
  <2>1. /\ OffersBack(def, to) => DepthOf(def)[to] > DepthOf(def)[at]
        /\ ~IsListed(def, to) => DepthOf(def)[to] >= DepthOf(def)[at]
    BY <1>1, <1>4, DepthFits DEF Deepening
  <2>2. OffersBack(def, to) => Ended(def, history, DepthOf(def)[to] - 1)
    BY <1>1, <1>2, <2>1, EndedDeeper
  <2>3. ~IsListed(def, to) => Ended(def, history, DepthOf(def)[to])
    BY <1>1, <1>2, <2>1, EndedDeeper
  <2> QED
    BY <2>2, <2>3 DEF Comes
<1> QED
  BY <1>3, <1>4

LEMMA EnteredStands ==
  ASSUME BackEnds, Steady, EnterStep, Comes(at)
  PROVE  Stands(step)'
<1>1. at \in DOMAIN def.steps /\ def' = def /\ step' = at /\ history' = Listed
  BY DEF EnterStep
<1>2. /\ def \in Flows /\ history \in Seq(StepIds) /\ at \in StepIds /\ at # NoStep
      /\ DepthOf(def)[at] \in Nat
      /\ OffersBack(def, at) => IsListed(def, at)
  BY <1>1, StepSpan DEF Steady, Shape, TypeOK
<1>3. SUFFICES /\ IsListed(def, at) => PeekHistory(Listed) = at
               /\ Ended(def, Listed, DepthOf(def)[at])
  BY <1>1 DEF Stands, IsListed, Ended, DepthOf, OffersBack
<1>4. CASE ~IsListed(def, at)
  BY <1>2, <1>4 DEF Comes, Listed, IsListed, Here
<1>5. CASE IsListed(def, at) /\ PeekHistory(history) = at
  <2>1. Listed = history
    BY <1>5 DEF Listed
  <2>2. OffersBack(def, at) => Ended(def, history, DepthOf(def)[at])
    BY <1>2, EndedDeeper DEF Comes
  <2>3. 1 \in DOMAIN history /\ history[1] = at
    BY <1>2, <1>5, HistorySpan
  <2>4. ~OffersBack(def, at) => Ended(def, history, DepthOf(def)[at])
    BY <1>2, <2>3, EndedOnTop
  <2> QED
    BY <1>5, <2>1, <2>2, <2>4
<1>6. CASE IsListed(def, at) /\ PeekHistory(history) # at
  <2>1. PICK next : next = PushHistory(history, at)
    OBVIOUS
  <2>2. Listed = next
    BY <1>6, <2>1 DEF Listed, IsListed, Here
  <2>3. next \in Seq(StepIds) /\ next # <<>> /\ Head(next) = at
    BY <1>2, <2>1, PushHistoryFits, PushedOnTop
  <2>4. PeekHistory(next) = at
    BY <2>3 DEF PeekHistory
  <2>5. OffersBack(def, at) => Ended(def, next, DepthOf(def)[at])
    BY <1>2, <1>6, <2>1, EndedPushed DEF Comes
  <2>6. 1 \in DOMAIN next /\ next[1] = at
    BY <1>2, <2>3, <2>4, HistorySpan
  <2>7. ~OffersBack(def, at) => Ended(def, next, DepthOf(def)[at])
    BY <1>2, <2>3, <2>6, EndedOnTop
  <2> QED
    BY <2>2, <2>4, <2>5, <2>7
<1> QED
  BY <1>4, <1>5, <1>6

LEMMA InitBacked == Init => Remembered /\ Backed
<1> SUFFICES ASSUME Init PROVE Remembered /\ Backed
  OBVIOUS
<1>1. history = <<>> /\ pc # "enter" /\ step = NoStep
  BY DEF Init
<1>2. DOMAIN history = {}
  BY <1>1, EmptySeq
<1>3. step \notin DOMAIN def.steps
  BY <1>1, InitShape, EngineAssumption DEF Shape, TypeOK
<1> QED
  BY <1>1, <1>2, <1>3 DEF Remembered, Backed

\* A conversation starts with a step "back" ends at.
LEMMA StartComes ==
  ASSUME BackEnds, Steady, changes = 0, Start \/ StartOver, at' \in DOMAIN def.steps
  PROVE  at' \in FirstSteps(def) /\ IsListed(def, at') /\ ~OffersBack(def, at')
<1>1. def = flow /\ def \in Flows
  BY DEF Steady, Settled, Shape, TypeOK
<1>2. at' \in FirstSteps(def)
  BY <1>1 DEF Start, StartOver, StartChain, FirstStep, FirstSteps
<1> QED
  BY <1>1, <1>2, DepthFits DEF Deepening

LEMMA NextBacked ==
  ASSUME BackEnds, Steady, Remembered, Backed, [Next]_vars
  PROVE  Backed'
<1> SUFFICES ASSUME Undisturbed'
             PROVE  /\ pc' = "enter" => (at' \in DOMAIN def'.steps => Comes(at)')
                    /\ pc' # "enter" => (step' \in DOMAIN def'.steps => Stands(step)')
  BY DEF Backed
<1> DEFINE Goal == /\ pc' = "enter" => (at' \in DOMAIN def'.steps => Comes(at)')
                   /\ pc' # "enter" => (step' \in DOMAIN def'.steps => Stands(step)')
<1>1. changes = 0 /\ def' = def /\ flow' = flow /\ def = flow
  BY OneDefinition DEF Undisturbed, Steady, Settled
<1>2. interrupts \in Nat /\ expiries \in Nat /\ NoStep \notin DOMAIN def.steps
  BY EngineAssumption DEF Steady, Shape, TypeOK
<1>3. ASSUME UNCHANGED <<step, history, interrupts, expiries>>, pc # "enter", pc' # "enter"
      PROVE  Goal
  BY <1>1, <1>3 DEF Backed, Undisturbed, Stands, IsListed, Ended, DepthOf, OffersBack
<1>4. ASSUME NEW m, Receive(m) PROVE Goal
  BY <1>3, <1>4 DEF Receive, session, bounds
<1>5. ASSUME Passive \/ Blocked \/ Release PROVE Goal
  BY <1>3, <1>5 DEF Passive, Blocked, Release, Rest, session, bounds
<1>6. CASE GoBack
  <2>1. Undisturbed /\ pc = "dispatch" /\ BackAsked
    BY <1>1, <1>6 DEF GoBack, Dispatching, StartChain, bounds, Undisturbed
  <2>2. pc' = "enter" /\ at' = Previous /\ history' = HistoryLeft
    BY <1>6 DEF GoBack, StartChain
  <2>3. /\ Previous \in DOMAIN def.steps /\ IsListed(def, Previous)
        /\ OffersBack(def, Previous) => Ended(def, HistoryLeft, DepthOf(def)[Previous] - 1)
    BY <2>1, BackLeads
  <2> QED
    BY <1>1, <2>2, <2>3 DEF Comes, IsListed, Ended, DepthOf, OffersBack
<1>7. CASE Start \/ StartOver
  <2>1. pc' = "enter"
    BY <1>7 DEF Start, StartOver, StartChain
  <2>2. at' \in DOMAIN def.steps => IsListed(def, at') /\ ~OffersBack(def, at')
    BY <1>1, <1>7, StartComes
  <2> QED
    BY <1>1, <2>1, <2>2 DEF Comes, IsListed, OffersBack
<1>8. CASE Answer
  <2>1. Undisturbed /\ pc = "dispatch" /\ pc' = "input" /\ step' = step
    BY <1>1, <1>8 DEF Answer, GoingOn, Dispatching, bounds, Undisturbed
  <2>2. ~BackAsked
    BY <1>8, <2>1, BackLeads DEF Answer, GoingOn
  <2>3. history' = history
    BY <1>8, <2>2 DEF Answer, HistoryLeft
  <2> QED
    BY <1>3, <1>8, <2>1, <2>3 DEF Answer, bounds
<1>9. ASSUME UNCHANGED <<history, interrupts, expiries>>, pc \in {"input", "exec"},
             step' \in {step, NoStep},
             pc' = "enter" => (at' \in DOMAIN def.steps => at' = at \/ at' \in LeadsTo(def, at))
      PROVE  Goal
  <2>1. step = at /\ at \in DOMAIN def.steps /\ Stands(at)
    BY <1>1, <1>9 DEF Steady, Shape, TypeOK, AtWork, Backed, Undisturbed
  <2>2. CASE pc' # "enter"
    BY <1>1, <1>2, <1>9, <2>1, <2>2 DEF Stands, IsListed, Ended, DepthOf, OffersBack
  <2>3. ASSUME pc' = "enter", at' \in DOMAIN def.steps PROVE Comes(at)'
    <3>1. PICK to \in DOMAIN def.steps : to = at'
      BY <2>3
    <3>2. Comes(to)
      BY <1>9, <2>1, <2>3, <3>1, LeadsOn
    <3> QED
      BY <1>1, <1>9, <3>1, <3>2 DEF Comes, IsListed, Ended, DepthOf, OffersBack
  <2> QED
    BY <1>1, <2>2, <2>3
<1>10. CASE pc = "input" /\ ProcessInput
  <2>1. Answered
    BY <1>10, InputEffect DEF Steady
  <2>2. UNCHANGED <<history, interrupts, expiries, step>>
    BY <2>1 DEF Answered, Handled, bounds
  <2> QED
    BY <1>9, <1>10, <2>2, InputLeads DEF Steady
<1>11. CASE pc = "exec" /\ Execute
  <2>1. Executed
    BY <1>11, ExecuteEffect DEF Steady
  <2>2. UNCHANGED <<history, interrupts, expiries>> /\ step' \in {step, NoStep}
    BY <2>1 DEF Executed, Handled, bounds
  <2> QED
    BY <1>9, <1>11, <2>2, ExecuteLeads DEF Steady
<1>12. CASE StopLoop \/ EnterNowhere
  BY <1>1, <1>2, <1>12 DEF StopLoop, EnterNowhere, Rest
<1>13. CASE EnterStep
  <2>1. Undisturbed /\ pc = "enter" /\ pc' = "exec" /\ at \in DOMAIN def.steps
    BY <1>1, <1>13 DEF EnterStep, bounds, Undisturbed
  <2> QED
    BY <1>13, <2>1, EnteredStands DEF Backed
<1>14. ASSUME Interrupt \/ InterruptEntering \/ Expire PROVE FALSE
  <2>1. interrupts' = interrupts + 1 \/ expiries' = expiries + 1
    BY <1>14 DEF Interrupt, InterruptEntering, Stop, Expire
  <2> QED
    BY <1>2, <2>1 DEF Undisturbed
<1>15. ASSUME ResetFlow \/ ToggleActive \/ \E f \in Flows : Publish(f) \/ Attach(f) PROVE FALSE
  BY <1>1, <1>15 DEF ResetFlow, ToggleActive, Publish, Attach, Change, Undisturbed
<1>16. CASE Unblock \/ UNCHANGED vars
  <2>1. UNCHANGED <<pc, session, work, bounds>>
    BY <1>16 DEF Unblock, vars
  <2> QED
    BY <2>1 DEF session, work, bounds, Backed, Undisturbed, Comes, Stands, IsListed, Ended,
       DepthOf, OffersBack
<1> QED
  BY <1>4, <1>5, <1>6, <1>7, <1>8, <1>10, <1>11, <1>12, <1>13, <1>14, <1>15, <1>16 DEF Next, Work,
     Interfere, ProcessInput, Execute

\* Where only questions offer "back", the first step does not, and those that
\* do lie deeper behind one that does not - no deeper than the history
\* reaches - the question the customer is looking at is on top of the history,
\* however often he goes back (flow.service.ts:154-166, 259-268).  The run
\* engine_first_back shows what happens where the first step offers it.
THEOREM HistoryTopHolds ==
  ASSUME BackEnds
  PROVE  Spec => []HistoryTop
<1>1. Steady /\ Backed => HistoryTop
  BY DEF Backed, HistoryTop, RestingAt, Stands, IsListed, ListedTypes
<1>2. Steady /\ Remembered /\ Backed /\ [Next]_vars => Remembered' /\ Backed'
  BY NextRemembered, NextBacked
<1> QED
  BY <1>1, <1>2, InitBacked, InitSteady, NextSteady, PTL DEF Spec

-----------------------------------------------------------------------------
\* What "back" leads to.

LEMMA AfterFits ==
  ASSUME BackToQuestions, NEW f \in Flows
  PROVE  Passing(f, AfterOf(f))
BY DEF BackToQuestions, AfterOf

\* A step that offers "back" is led to by one that waits only.
LEMMA LeadsFromQuestion ==
  ASSUME BackEnds, BackToQuestions, Steady, at \in DOMAIN def.steps, Stands(at),
         ~IsListed(def, at) => Led(at),
         NEW to \in DOMAIN def.steps, to = at \/ to \in LeadsTo(def, at)
  PROVE  Follows(to)
<1>1. /\ def \in Flows
      /\ OffersBack(def, to) => IsListed(def, to)
  BY StepSpan DEF Steady, Shape, TypeOK
<1>2. CASE to = at
  BY <1>1, <1>2 DEF Stands, Follows
<1>3. CASE to \in LeadsTo(def, at)
  <2>1. CASE Waits(def, PeekHistory(history))
    BY <2>1 DEF Follows, Led
  <2>2. CASE at \in AfterOf(def)
    <3>1. IF IsListed(def, to) THEN ~OffersBack(def, to) ELSE to \in AfterOf(def)
      BY <1>1, <1>3, <2>2, AfterFits DEF Passing
    <3> QED
      BY <1>1, <3>1 DEF Follows, Led
  <2>3. Waits(def, PeekHistory(history)) \/ at \in AfterOf(def)
    <3>1. CASE IsListed(def, at)
      <4>1. PeekHistory(history) = at
        BY <3>1 DEF Stands
      <4>2. ~Waits(def, at) => at \in AfterOf(def)
        BY <1>1, <3>1, AfterFits DEF Passing
      <4> QED
        BY <4>1, <4>2
    <3>2. CASE ~IsListed(def, at)
      BY <3>2 DEF Led
    <3> QED
      BY <3>1, <3>2
  <2> QED
    BY <2>1, <2>2, <2>3
<1> QED
  BY <1>2, <1>3

LEMMA EnteredLinked ==
  ASSUME BackEnds, Steady, at \in DOMAIN def.steps, Linked(def, history), Follows(at)
  PROVE  Linked(def, Listed)
<1>1. at \in StepIds /\ at # NoStep /\ history \in Seq(StepIds)
  BY StepSpan DEF Steady, Shape, TypeOK
<1>2. CASE IsListed(def, at) /\ PeekHistory(history) # at
  <2>1. PICK next : next = PushHistory(history, at)
    OBVIOUS
  <2>2. Listed = next
    BY <1>2, <2>1 DEF Listed, IsListed, Here
  <2>3. next \in Seq(StepIds)
    BY <1>1, <2>1, PushedElements
  <2>4. next[1] = at
    BY <1>1, <2>1, PushedElements
  <2>5. \A n \in DOMAIN next : n > 1 => n - 1 \in DOMAIN history /\ next[n] = history[n - 1]
    BY <1>1, <2>1, PushedElements
  <2>6. DOMAIN next \subseteq Nat \ {0} /\ DOMAIN history \subseteq Nat \ {0}
    BY <1>1, <2>3, HistorySpan
  <2>7. ASSUME NEW i \in DOMAIN next, i + 1 \in DOMAIN next
        PROVE  next[i] # next[i + 1] /\ (OffersBack(def, next[i]) => Waits(def, next[i + 1]))
    <3>1. i \in Nat \ {0} /\ i + 1 > 1 /\ i + 1 - 1 = i
      BY <2>6
    <3>2. i \in DOMAIN history /\ next[i + 1] = history[i]
      BY <2>5, <2>7, <3>1
    <3>3. CASE i = 1
      <4>1. next[i + 1] = PeekHistory(history)
        BY <1>1, <3>2, <3>3, HistorySpan
      <4> QED
        BY <1>2, <2>4, <3>3, <4>1 DEF Follows
    <3>4. CASE i > 1
      <4>1. i - 1 \in DOMAIN history /\ next[i] = history[i - 1] /\ i - 1 + 1 = i
        BY <2>5, <3>1, <3>4
      <4>2. i - 1 + 1 \in DOMAIN history
        BY <3>2, <4>1
      <4>3. /\ history[i - 1] # history[i - 1 + 1]
            /\ OffersBack(def, history[i - 1]) => Waits(def, history[i - 1 + 1])
        BY <4>1, <4>2 DEF Linked
      <4> QED
        BY <3>2, <4>1, <4>3
    <3> QED
      BY <3>1, <3>3, <3>4
  <2> QED
    BY <2>2, <2>7 DEF Linked
<1>3. CASE ~(IsListed(def, at) /\ PeekHistory(history) # at)
  BY <1>3 DEF Listed, IsListed, Here
<1> QED
  BY <1>2, <1>3

\* After "back", what is left is still linked, and the step gone back to is a
\* question that may be put on top of it.
LEMMA BackFollows ==
  ASSUME BackEnds, Steady, Remembered, Backed, Laid, Undisturbed, pc = "dispatch", BackAsked
  PROVE  /\ Linked(def, HistoryLeft)
         /\ Previous \in DOMAIN def.steps /\ Previous # step /\ Waits(def, Previous)
         /\ IsListed(def, Previous)
         /\ OffersBack(def, Previous) => Waits(def, PeekHistory(HistoryLeft))
<1>1. /\ step \in DOMAIN def.steps /\ OffersBack(def, step)
      /\ Len(history) >= 2 /\ history[1] = step
      /\ Previous = history[2] /\ Previous \in DOMAIN def.steps /\ IsListed(def, Previous)
      /\ OffersBack(def, Previous) => Len(history) >= 3
  BY BackLeads
<1>2. history \in Seq(StepIds)
  BY DEF Steady, Shape, TypeOK
<1>3. Len(history) \in Nat /\ DOMAIN history = 1 .. Len(history)
  BY <1>2, HistorySpan
<1>4. Linked(def, history)
  BY DEF Laid
<1>5. history[1] # history[1 + 1] /\ (OffersBack(def, history[1]) => Waits(def, history[1 + 1]))
  <2>1. 1 \in DOMAIN history /\ 1 + 1 \in DOMAIN history
    BY <1>1, <1>3
  <2> QED
    BY <1>4, <2>1 DEF Linked
<1>6. Previous # step /\ Waits(def, Previous)
  BY <1>1, <1>5
<1>7. PICK left : left = PopHistory(PopHistory(history))
  OBVIOUS
<1>8. HistoryLeft = left
  BY <1>7 DEF HistoryLeft
<1>9. left \in Seq(StepIds)
  BY <1>2, <1>7, PoppedTwice
<1>10. Len(left) = IF Len(history) < 2 THEN 0 ELSE Len(history) - 2
  BY <1>2, <1>7, PoppedTwice
<1>11. \A i \in DOMAIN left : i + 2 \in DOMAIN history /\ left[i] = history[i + 2]
  BY <1>2, <1>7, PoppedTwice
<1>12. Linked(def, left)
  <2> SUFFICES ASSUME NEW i \in DOMAIN left, i + 1 \in DOMAIN left
               PROVE  left[i] # left[i + 1] /\ (OffersBack(def, left[i]) => Waits(def, left[i + 1]))
    BY DEF Linked
  <2>1. i \in Nat
    BY <1>9, HistorySpan
  <2>2. i + 2 \in DOMAIN history /\ i + 2 + 1 \in DOMAIN history /\ left[i + 1] = history[i + 2 + 1]
    <3>1. i + 1 + 2 \in DOMAIN history /\ left[i + 1] = history[i + 1 + 2]
      BY <1>11
    <3>2. i + 1 + 2 = i + 2 + 1
      BY <2>1
    <3> QED
      BY <1>11, <3>1, <3>2
  <2> QED
    BY <1>4, <1>11, <2>2 DEF Linked
<1>13. ASSUME OffersBack(def, Previous) PROVE Waits(def, PeekHistory(left))
  <2>1. 2 \in DOMAIN history /\ 2 + 1 \in DOMAIN history
    BY <1>1, <1>3, <1>13
  <2>2. Waits(def, history[2 + 1])
    BY <1>1, <1>4, <1>13, <2>1 DEF Linked
  <2>3. Len(left) # 0 /\ 1 \in DOMAIN left
    <3>1. PICK m, n : m = Len(history) /\ n = Len(left)
      OBVIOUS
    <3>2. m \in Nat /\ m >= 3 /\ n = IF m < 2 THEN 0 ELSE m - 2
      BY <1>1, <1>3, <1>10, <1>13, <3>1
    <3>3. DOMAIN left = 1 .. n
      BY <1>9, <3>1, HistorySpan
    <3>4. n \in Nat /\ n >= 1
      BY <3>2
    <3> QED
      BY <3>1, <3>3, <3>4
  <2>4. PeekHistory(left) = left[1] /\ left[1] = history[1 + 2]
    BY <1>9, <1>11, <2>3, HistorySpan
  <2> QED
    BY <2>2, <2>4
<1> QED
  BY <1>1, <1>6, <1>8, <1>12, <1>13

LEMMA InitLaid == Init => Laid
<1> SUFFICES ASSUME Init PROVE Laid
  OBVIOUS
<1>1. history = <<>> /\ pc # "enter" /\ step = NoStep
  BY DEF Init
<1>2. DOMAIN history = {}
  BY <1>1, EmptySeq
<1>3. step \notin DOMAIN def.steps
  BY <1>1, InitShape, EngineAssumption DEF Shape, TypeOK
<1> QED
  BY <1>1, <1>2, <1>3 DEF Laid, Linked

LEMMA NextLaid ==
  ASSUME BackEnds, BackToQuestions, Steady, Remembered, Backed, Laid, [Next]_vars
  PROVE  Laid'
<1> DEFINE Goal == /\ Linked(def', history')
                   /\ pc' = "enter" => (at' \in DOMAIN def'.steps => Follows(at)')
                   /\ pc' # "enter" => (step' \in DOMAIN def'.steps /\ ~IsListed(def', step') => Led(step)')
<1> SUFFICES ASSUME Undisturbed' PROVE Goal
  BY DEF Laid
<1>1. changes = 0 /\ def' = def /\ flow' = flow /\ def = flow
  BY OneDefinition DEF Undisturbed, Steady, Settled
<1>2. interrupts \in Nat /\ expiries \in Nat /\ NoStep \notin DOMAIN def.steps
  BY EngineAssumption DEF Steady, Shape, TypeOK
<1>3. ASSUME UNCHANGED <<step, history, interrupts, expiries>>, pc # "enter", pc' # "enter"
      PROVE  Goal
  BY <1>1, <1>3 DEF Laid, Undisturbed, Led
<1>4. ASSUME NEW m, Receive(m) PROVE Goal
  BY <1>3, <1>4 DEF Receive, session, bounds
<1>5. ASSUME Passive \/ Blocked \/ Release PROVE Goal
  BY <1>3, <1>5 DEF Passive, Blocked, Release, Rest, session, bounds
<1>6. CASE GoBack
  <2>1. Undisturbed /\ pc = "dispatch" /\ BackAsked
    BY <1>1, <1>6 DEF GoBack, Dispatching, StartChain, bounds, Undisturbed
  <2>2. pc' = "enter" /\ at' = Previous /\ history' = HistoryLeft
    BY <1>6 DEF GoBack, StartChain
  <2>3. /\ Linked(def, HistoryLeft) /\ IsListed(def, Previous)
        /\ OffersBack(def, Previous) => Waits(def, PeekHistory(HistoryLeft))
    BY <2>1, BackFollows
  <2> QED
    BY <1>1, <2>2, <2>3 DEF Follows
<1>7. CASE Start \/ StartOver
  <2>1. pc' = "enter" /\ UNCHANGED <<history, interrupts, expiries>>
    BY <1>7 DEF Start, StartOver, StartChain, bounds
  <2>2. at' \in DOMAIN def.steps => IsListed(def, at') /\ ~OffersBack(def, at')
    BY <1>1, <1>7, StartComes
  <2> QED
    BY <1>1, <2>1, <2>2 DEF Laid, Undisturbed, Follows
<1>8. CASE Answer
  <2>1. Undisturbed /\ pc = "dispatch" /\ pc' = "input" /\ step' = step
    BY <1>1, <1>8 DEF Answer, GoingOn, Dispatching, bounds, Undisturbed
  <2>2. ~BackAsked
    BY <1>8, <2>1, BackLeads DEF Answer, GoingOn
  <2>3. history' = history
    BY <1>8, <2>2 DEF Answer, HistoryLeft
  <2> QED
    BY <1>3, <1>8, <2>1, <2>3 DEF Answer, bounds
<1>9. ASSUME UNCHANGED <<history, interrupts, expiries>>, pc \in {"input", "exec"},
             step' \in {step, NoStep},
             pc' = "enter" => (at' \in DOMAIN def.steps => at' = at \/ at' \in LeadsTo(def, at))
      PROVE  Goal
  <2>1. /\ step = at /\ at \in DOMAIN def.steps /\ Stands(at) /\ Linked(def, history)
        /\ ~IsListed(def, at) => Led(at)
    BY <1>1, <1>9 DEF Steady, Shape, TypeOK, AtWork, Backed, Laid, Undisturbed
  <2>2. CASE pc' # "enter"
    BY <1>1, <1>2, <1>9, <2>1, <2>2 DEF Led
  <2>3. ASSUME pc' = "enter", at' \in DOMAIN def.steps PROVE Follows(at)'
    <3>1. PICK to \in DOMAIN def.steps : to = at'
      BY <2>3
    <3>2. Follows(to)
      BY <1>9, <2>1, <2>3, <3>1, LeadsFromQuestion
    <3> QED
      BY <1>1, <1>9, <3>1, <3>2 DEF Follows, Led
  <2> QED
    BY <1>1, <1>9, <2>1, <2>2, <2>3
<1>10. CASE pc = "input" /\ ProcessInput
  <2>1. Answered
    BY <1>10, InputEffect DEF Steady
  <2>2. UNCHANGED <<history, interrupts, expiries, step>>
    BY <2>1 DEF Answered, Handled, bounds
  <2> QED
    BY <1>9, <1>10, <2>2, InputLeads DEF Steady
<1>11. CASE pc = "exec" /\ Execute
  <2>1. Executed
    BY <1>11, ExecuteEffect DEF Steady
  <2>2. UNCHANGED <<history, interrupts, expiries>> /\ step' \in {step, NoStep}
    BY <2>1 DEF Executed, Handled, bounds
  <2> QED
    BY <1>9, <1>11, <2>2, ExecuteLeads DEF Steady
<1>12. CASE StopLoop \/ EnterNowhere
  <2>1. step' = NoStep /\ pc' = "release" /\ UNCHANGED <<history, interrupts, expiries>>
    BY <1>12 DEF StopLoop, EnterNowhere, Rest, bounds
  <2> QED
    BY <1>1, <1>2, <2>1 DEF Laid, Undisturbed
<1>13. CASE EnterStep
  <2>1. /\ Undisturbed /\ pc = "enter" /\ pc' = "exec" /\ at \in DOMAIN def.steps
        /\ step' = at /\ history' = Listed
    BY <1>1, <1>13 DEF EnterStep, bounds, Undisturbed
  <2>2. Follows(at) /\ Linked(def, history)
    BY <2>1 DEF Laid
  <2>3. Linked(def, Listed)
    BY <2>1, <2>2, EnteredLinked
  <2>4. ASSUME ~IsListed(def, at) PROVE Listed = history /\ Led(at)
    BY <2>2, <2>4 DEF Listed, IsListed, Here, Follows
  <2> QED
    BY <1>1, <2>1, <2>3, <2>4 DEF Led
<1>14. ASSUME Interrupt \/ InterruptEntering \/ Expire PROVE FALSE
  <2>1. interrupts' = interrupts + 1 \/ expiries' = expiries + 1
    BY <1>14 DEF Interrupt, InterruptEntering, Stop, Expire
  <2> QED
    BY <1>2, <2>1 DEF Undisturbed
<1>15. ASSUME ResetFlow \/ ToggleActive \/ \E f \in Flows : Publish(f) \/ Attach(f) PROVE FALSE
  BY <1>1, <1>15 DEF ResetFlow, ToggleActive, Publish, Attach, Change, Undisturbed
<1>16. CASE Unblock \/ UNCHANGED vars
  <2>1. UNCHANGED <<pc, session, work, bounds>>
    BY <1>16 DEF Unblock, vars
  <2> QED
    BY <2>1 DEF session, work, bounds, Laid, Undisturbed, Follows, Led
<1> QED
  BY <1>4, <1>5, <1>6, <1>7, <1>8, <1>10, <1>11, <1>12, <1>13, <1>14, <1>15, <1>16 DEF Next, Work,
     Interfere, ProcessInput, Execute

-----------------------------------------------------------------------------
\* The index of the field that is asked for.

\* A handler leaves the index alone, forgets it, or makes it one of a field.
LEMMA HandlerIndex ==
  ASSUME Shape, (pc = "exec" /\ Execute) \/ (pc = "input" /\ ProcessInput)
  PROVE  \/ meta'.field_idx \in {meta.field_idx, 0}
         \/ \E id \in DOMAIN def.steps : /\ def.steps[id].type = "CUSTOMER_IDENTIFICATION"
                                         /\ meta'.field_idx < Len(def.steps[id].fields)
<1>1. /\ meta \in Metadata(StepIds) /\ meta.field_idx \in Nat
      /\ def \in Flows /\ at \in DOMAIN def.steps
  BY DEF Shape, TypeOK, Metadata
<1>2. NoMetadata(StepIds).field_idx = 0 /\ ShownMeta.field_idx = meta.field_idx
  BY <1>1 DEF NoMetadata, ShownMeta, Metadata
<1>3. CASE pc = "exec" /\ Execute
  BY <1>2, <1>3, ExecuteByType DEF TextExecute, MediaExecute, DelayExecute, JumpExecute,
     SetVariableExecute, ConditionExecute, SwitchExecute, HttpExecute, HandoverExecute, EndExecute,
     InputExecute, OptionsExecute, IdentificationExecute, ReviewExecute, session
<1>4. CASE pc = "input" /\ ProcessInput
  <2>1. CASE TextInput \/ OptionsInput \/ DeafInput
    BY <2>1 DEF TextInput, OptionsInput, DeafInput, session
  <2>2. CASE InputInput
    BY <1>1, <2>2 DEF InputInput, InputRejected, InputAccepted, Metadata
  <2>3. CASE Here.type = "CUSTOMER_IDENTIFICATION" /\ IdentificationInput
    <3>1. CASE IdentificationLost \/ IdentificationRejected
      BY <1>2, <3>1 DEF IdentificationLost, IdentificationRejected, session
    <3>2. CASE IdentificationAccepted
      <4>1. Len(Here.fields) \in Nat
        BY <1>1, <2>3, EngineAssumption DEF Here, WellFormed
      <4>2. meta'.field_idx = 0 \/ (meta'.field_idx = meta.field_idx + 1 /\ ~(meta.field_idx + 1 >= Len(Here.fields)))
        BY <1>1, <3>2 DEF IdentificationAccepted, Metadata
      <4>3. meta'.field_idx = 0 \/ meta'.field_idx < Len(Here.fields)
        BY <1>1, <4>1, <4>2
      <4> QED
        BY <1>1, <2>3, <4>3 DEF Here
    <3> QED
      BY <2>3, <3>1, <3>2 DEF IdentificationInput
  <2>4. CASE Here.type = "REVIEW" /\ ReviewInput
    <3>1. CASE ReviewConfirmed \/ ReviewOther \/ ReviewBadField
      BY <3>1 DEF ReviewConfirmed, ReviewOther, ReviewBadField, session
    <3>2. CASE ReviewEdit \/ ReviewBackToSummary
      BY <1>1, <1>2, <3>2 DEF ReviewEdit, ReviewBackToSummary, Metadata
    <3>3. CASE ReviewCorrect
      <4> DEFINE idx == CorrectionIndexes(Here.fields[FieldNumber])
                 c == Here.correction
      <4>1. CASE idx = {}
        BY <1>1, <3>3, <4>1 DEF ReviewCorrect, Metadata
      <4>2. CASE idx # {}
        <5>1. c \in DOMAIN def.steps /\ def.steps[c].type = "CUSTOMER_IDENTIFICATION"
          BY <4>2 DEF CorrectionIndexes
        <5>2. Len(def.steps[c].fields) \in Nat /\ DOMAIN def.steps[c].fields = 1 .. Len(def.steps[c].fields)
          BY <1>1, <5>1, EngineAssumption DEF WellFormed
        <5>3. \A i \in idx : i \in Nat /\ i < Len(def.steps[c].fields)
          BY <5>1, <5>2 DEF CorrectionIndexes
        <5>4. Least(idx) \in idx
          BY <4>2, <5>3, LeastIn
        <5>5. meta'.field_idx = Least(idx)
          <6>1. meta' = [meta EXCEPT !.review_mode = FALSE, !.edit_one_mode = TRUE, !.field_idx = Least(idx)]
            BY <3>3, <4>2 DEF ReviewCorrect
          <6> HIDE DEF idx
          <6> QED
            BY <1>1, <6>1 DEF Metadata
        <5> HIDE DEF idx, c
        <5> QED
          BY <5>1, <5>3, <5>4, <5>5
      <4> QED
        BY <4>1, <4>2
    <3> QED
      BY <2>4, <3>1, <3>2, <3>3 DEF ReviewInput
  <2> QED
    BY <1>4, <2>1, <2>2, <2>3, <2>4, InputByType
<1> QED
  BY <1>3, <1>4

\* Whoever else writes the metadata forgets it.
LEMMA WhoMarks ==
  ASSUME [Next]_vars
  PROVE  \/ pc = "exec" /\ Execute
         \/ pc = "input" /\ ProcessInput
         \/ meta' \in {meta, NoMetadata(StepIds)}
<1>1. ASSUME NEW m, Receive(m) PROVE meta' = meta
  BY <1>1 DEF Receive, session
<1>2. ASSUME Passive \/ Blocked \/ GoBack \/ Start \/ StartOver \/ Answer PROVE meta' = meta
  BY <1>2 DEF Passive, Blocked, GoBack, Start, StartOver, Answer, session
<1>3. ASSUME StopLoop \/ EnterNowhere \/ EnterStep \/ Release PROVE meta' = meta
  BY <1>3 DEF StopLoop, EnterNowhere, EnterStep, Release, session
<1>4. ASSUME Interrupt \/ InterruptEntering \/ Unblock \/ ToggleActive \/ \E f \in Flows : Attach(f)
      PROVE  meta' = meta
  BY <1>4 DEF Interrupt, InterruptEntering, Unblock, ToggleActive, Attach, session
<1>5. ASSUME Expire \/ ResetFlow \/ \E f \in Flows : Publish(f)
      PROVE  meta' \in {meta, NoMetadata(StepIds)}
  BY <1>5 DEF Expire, ResetFlow, Publish, session
<1>6. ASSUME UNCHANGED vars PROVE meta' = meta
  BY <1>6 DEF vars, session
<1> QED
  BY <1>1, <1>2, <1>3, <1>4, <1>5, <1>6 DEF Next, Work, Interfere, ProcessInput, Execute

LEMMA NextIndexFits ==
  ASSUME Steady, IndexFits, [Next]_vars
  PROVE  IndexFits'
<1> SUFFICES ASSUME changes' = 0
             PROVE  \/ meta'.field_idx = 0
                    \/ \E id \in DOMAIN def'.steps : /\ def'.steps[id].type = "CUSTOMER_IDENTIFICATION"
                                                     /\ meta'.field_idx < Len(def'.steps[id].fields)
  BY DEF IndexFits
<1>1. changes = 0 /\ def' = def
  BY OneDefinition
<1>2. CASE (pc = "exec" /\ Execute) \/ (pc = "input" /\ ProcessInput)
  BY <1>1, <1>2, HandlerIndex DEF IndexFits, Steady
<1>3. CASE meta' \in {meta, NoMetadata(StepIds)}
  BY <1>1, <1>3 DEF IndexFits, NoMetadata
<1> QED
  BY <1>2, <1>3, WhoMarks

-----------------------------------------------------------------------------
\* Going back.

\* A step that waits ends the chain of steps.
LEMMA WaitsRests ==
  ASSUME Steady, IndexFits, changes = 0, pc = "exec", Execute, Waits(def, at)
  PROVE  pc' = "release"
<1>1. /\ meta.field_idx \in Nat /\ def \in Flows /\ at \in DOMAIN def.steps /\ def.steps[at] = Here
  BY DEF Steady, Shape, TypeOK, Metadata, Here
<1>2. CASE Here.type = "OPTIONS" \/ Here.type = "INPUT"
  BY <1>2, ExecuteByType DEF Steady, OptionsExecute, InputExecute, Rest
<1>3. CASE Here.type = "REVIEW" /\ ~Here.skip
  BY <1>3, ExecuteShows DEF Steady
<1>4. CASE /\ Here.type = "CUSTOMER_IDENTIFICATION" /\ ~Here.skip /\ Len(Here.fields) > 0
           /\ \A other \in DOMAIN def.steps : def.steps[other].type = "CUSTOMER_IDENTIFICATION"
                => Len(def.steps[other].fields) <= Len(Here.fields)
  <2>1. \A id \in DOMAIN def.steps : def.steps[id].type = "CUSTOMER_IDENTIFICATION"
          => Len(def.steps[id].fields) \in Nat
    BY <1>1, EngineAssumption DEF WellFormed
  <2>2. ~(meta.field_idx >= Len(Here.fields))
    BY <1>1, <1>4, <2>1 DEF IndexFits
  <2>3. IdentificationExecute
    BY <1>4, ExecuteByType DEF Steady
  <2>4. ~SmartSkip(Vars(Here.fields))
    BY <1>4 DEF SmartSkip
  <2> QED
    BY <2>2, <2>3, <2>4 DEF IdentificationExecute, Rest
<1> QED
  BY <1>1, <1>2, <1>3, <1>4 DEF Waits

LEMMA NextGoneBack ==
  ASSUME BackEnds, Steady, Found, Remembered, Backed, Laid, IndexFits, GoneBack, [Next]_vars
  PROVE  GoneBack'
<1> DEFINE Goal == /\ pc' # "input"
                   /\ pc' = "enter" => count' = 0 /\ at' \in DOMAIN def'.steps /\ at' # from' /\ Waits(def', at')
                   /\ pc' = "exec" => at' # from' /\ Waits(def', at')
                   /\ pc' = "release" => step' # from'
<1> SUFFICES ASSUME Undisturbed', Lower(msg') \in {"0", "voltar"},
                    from' \in DOMAIN def'.steps, OffersBack(def', from')
             PROVE  Goal
  BY DEF GoneBack
<1>1. changes = 0 /\ def' = def /\ flow' = flow /\ def = flow
  BY OneDefinition DEF Undisturbed, Steady, Settled
<1>2. /\ interrupts \in Nat /\ expiries \in Nat /\ NoStep \notin DOMAIN def.steps
      /\ from' # NoStep
  BY <1>1, EngineAssumption DEF Steady, Shape, TypeOK
<1>3. ASSUME UNCHANGED <<from, msg, interrupts, expiries>>
      PROVE  /\ pc # "input"
             /\ pc = "enter" => count = 0 /\ at \in DOMAIN def.steps /\ at # from /\ Waits(def, at)
             /\ pc = "exec" => at # from /\ Waits(def, at)
             /\ pc = "release" => step # from
  BY <1>1, <1>3 DEF GoneBack, Undisturbed
<1>4. ASSUME NEW m, Receive(m) PROVE FALSE
  BY <1>2, <1>4 DEF Receive, seen, Found
<1>5. ASSUME Passive \/ Blocked \/ Release PROVE FALSE
  BY <1>2, <1>5 DEF Passive, Blocked, Release, seen, Found
<1>6. CASE GoBack
  <2>1. Undisturbed /\ pc = "dispatch" /\ BackAsked
    BY <1>1, <1>6 DEF GoBack, Dispatching, StartChain, bounds, Undisturbed
  <2>2. pc' = "enter" /\ at' = Previous /\ count' = 0 /\ from' = Standing
    BY <1>6 DEF GoBack, StartChain
  <2>3. Standing = step
    BY <2>1, BackLeads
  <2>4. Previous \in DOMAIN def.steps /\ Previous # step /\ Waits(def, Previous)
    BY <2>1, BackFollows
  <2> QED
    BY <1>1, <2>2, <2>3, <2>4
<1>7. ASSUME Start \/ StartOver PROVE FALSE
  <2>1. from' = Standing /\ (Standing = NoStep \/ Standing \notin DOMAIN flow.steps)
    BY <1>7 DEF Start, StartOver, StartChain
  <2> QED
    BY <1>1, <1>2, <2>1
<1>8. ASSUME Answer PROVE FALSE
  <2>1. Undisturbed /\ pc = "dispatch" /\ from' = Standing /\ msg' = msg
    BY <1>1, <1>8 DEF Answer, GoingOn, Dispatching, bounds, Undisturbed
  <2>2. BackAsked
    BY <1>1, <2>1 DEF BackAsked, OffersBack
  <2> QED
    BY <1>8, <2>1, <2>2, BackLeads DEF Answer, GoingOn
<1>9. ASSUME pc = "input", ProcessInput PROVE FALSE
  <2>1. UNCHANGED <<from, msg, interrupts, expiries>>
    BY <1>9, InputEffect DEF Answered, Handled, bounds, Steady
  <2> QED
    BY <1>3, <1>9, <2>1
<1>10. CASE pc = "exec" /\ Execute
  <2>1. UNCHANGED <<from, msg, interrupts, expiries>> /\ step' \in {step, NoStep}
    BY <1>10, ExecuteEffect DEF Executed, Handled, bounds, Steady
  <2>2. at # from /\ Waits(def, at)
    BY <1>3, <1>10, <2>1
  <2>3. pc' = "release"
    BY <1>1, <1>10, <2>2, WaitsRests
  <2>4. step = at
    BY <1>1, <1>10 DEF Steady, AtWork
  <2> QED
    BY <1>2, <2>1, <2>2, <2>3, <2>4
<1>11. ASSUME StopLoop \/ EnterNowhere PROVE FALSE
  <2>1. pc = "enter" /\ UNCHANGED <<from, msg, interrupts, expiries>>
    BY <1>11 DEF StopLoop, EnterNowhere, Say, Silent, seen, Rest, work, bounds
  <2>2. count = 0 /\ at \in DOMAIN def.steps
    BY <1>3, <2>1
  <2> QED
    BY <1>11, <2>2, EngineAssumption DEF StopLoop, EnterNowhere
<1>12. CASE EnterStep
  <2>1. pc = "enter" /\ pc' = "exec" /\ at' = at /\ UNCHANGED <<from, msg, interrupts, expiries>>
    BY <1>12 DEF EnterStep, Silent, seen, bounds
  <2>2. at # from /\ Waits(def, at)
    BY <1>3, <2>1
  <2> QED
    BY <1>1, <2>1, <2>2
<1>13. ASSUME Interrupt \/ InterruptEntering \/ Expire PROVE FALSE
  <2>1. interrupts' = interrupts + 1 \/ expiries' = expiries + 1
    BY <1>13 DEF Interrupt, InterruptEntering, Stop, Expire
  <2> QED
    BY <1>2, <2>1 DEF Undisturbed
<1>14. ASSUME ResetFlow \/ ToggleActive \/ \E f \in Flows : Publish(f) \/ Attach(f) PROVE FALSE
  BY <1>1, <1>14 DEF ResetFlow, ToggleActive, Publish, Attach, Change, Undisturbed
<1>15. CASE Unblock \/ UNCHANGED vars
  <2>1. UNCHANGED <<pc, session, work, bounds, seen>>
    BY <1>15 DEF Unblock, vars
  <2>2. UNCHANGED <<pc, step, count, at, msg, from, interrupts, expiries>>
    BY <2>1 DEF session, work, bounds, seen
  <2> QED
    BY <1>1, <1>3, <2>2
<1> QED
  BY <1>4, <1>5, <1>6, <1>7, <1>8, <1>9, <1>10, <1>11, <1>12, <1>13, <1>14, <1>15 DEF Next, Work,
     Interfere, ProcessInput, Execute

\* Where "back" ends and, besides, what lies behind a question that offers it
\* waits for the customer, he comes to another step by it: neither the same one
\* nor, by way of steps that wait for nothing, the same one again
\* (flow.service.ts:154-166, 234-289).
THEOREM BackMovesOnHolds ==
  ASSUME BackEnds, BackToQuestions
  PROVE  Spec => []BackMovesOn
<1>1. Init => IndexFits /\ GoneBack
  <2> SUFFICES ASSUME Init PROVE IndexFits /\ GoneBack
    OBVIOUS
  <2>1. from = NoStep /\ meta = NoMetadata(StepIds)
    BY DEF Init
  <2>2. from \notin DOMAIN def.steps
    BY <2>1, InitShape, EngineAssumption DEF Shape, TypeOK
  <2> QED
    BY <2>1, <2>2 DEF IndexFits, GoneBack, NoMetadata
<1>2. GoneBack => BackMovesOn
  BY DEF GoneBack, BackMovesOn, OffersBack
<1>3. Steady /\ Found /\ Remembered /\ Backed /\ Laid /\ IndexFits /\ GoneBack /\ [Next]_vars
        => Remembered' /\ Backed' /\ Laid' /\ IndexFits' /\ GoneBack'
  BY NextRemembered, NextBacked, NextLaid, NextIndexFits, NextGoneBack
<1> QED
  BY <1>1, <1>2, <1>3, InitBacked, InitLaid, InitSteady, NextSteady, InitFound, NextFound,
     PTL DEF Spec

-----------------------------------------------------------------------------
\* The inductive invariants: the identification.

IsWho(f, id) == id \in DOMAIN f.steps /\ f.steps[id].type = "CUSTOMER_IDENTIFICATION"
HasWho(f) == \E id \in DOMAIN f.steps : IsWho(f, id)
WhoOf(f) == CHOOSE id \in DOMAIN f.steps : f.steps[id].type = "CUSTOMER_IDENTIFICATION"
BeforeOf(f) == CHOOSE before \in SUBSET DOMAIN f.steps : Guided(f, WhoOf(f), before)

Asked == def.steps[WhoOf(def)].fields

\* The row has a value of the variable that no reader takes for an empty one.
Stored(u, key) ==
  IF key = "name" THEN u.name \notin {""} \cup Placeholders ELSE u.metadata[key] # ""

Complete(u) == \A key \in Vars(Asked) : Stored(u, key)

Columns == DOMAIN user.metadata = MetaKeys

\* A message that is worked on is one that customers write, and none is given
\* to a step with a chain of steps behind it.
Given == (pc # "idle" => msg \in Inputs) /\ (pc = "input" => count = 0)

\* The step the conversation is at, or about to enter.
Current == IF pc = "enter" THEN at ELSE step

\* Only an identification that is complete leads there.
Behind(id) == id \in DOMAIN def.steps \ BeforeOf(def)

\* While a field is being corrected, the conversation is kept at the
\* identification, and every other field is filled.
Mending ==
  /\ Current = WhoOf(def)
  /\ pc = "enter" => count = 0
  /\ meta.field_idx + 1 \in DOMAIN Asked
  /\ \A key \in Vars(Asked) : key # Asked[meta.field_idx + 1].variable => Stored(user, key)

\* Otherwise the fields before the one that is asked for are filled, and all of
\* them are if the conversation is, or can go back to, behind the
\* identification.
Filling ==
  /\ \A i \in DOMAIN Asked : i <= meta.field_idx => Stored(user, Asked[i].variable)
  /\ Behind(Current) \/ (\E i \in DOMAIN history : Behind(history[i])) => Complete(user)

Guarded ==
  Undisturbed /\ HasWho(def) => IF meta.edit_one_mode THEN Mending ELSE Filling

-----------------------------------------------------------------------------
\* What is stored, and what is read.

LEMMA FirstIsFilled ==
  ASSUME NEW values, DOMAIN values \subseteq Nat, NEW n \in DOMAIN values
  PROVE  values[n] # "" /\ (\A k \in DOMAIN values : k < n => values[k] = "")
           => FirstFilled(values) = values[n]
<1>1. \A i \in DOMAIN values : n < i \/ i < n \/ i = n
  OBVIOUS
<1> SUFFICES ASSUME values[n] # "", \A k \in DOMAIN values : k < n => values[k] = ""
             PROVE  FirstFilled(values) = values[n]
  OBVIOUS
<1> DEFINE first(i) == values[i] # "" /\ \A k \in DOMAIN values : k < i => values[k] = ""
<1>2. FirstFilled(values) = values[CHOOSE i \in DOMAIN values : first(i)]
  BY DEF FirstFilled
<1>3. first(n)
  OBVIOUS
<1>4. ASSUME NEW i \in DOMAIN values, first(i) PROVE i = n
  BY <1>1, <1>4
<1> HIDE DEF first
<1>5. (CHOOSE i \in DOMAIN values : first(i)) = n
  BY <1>3, <1>4
<1> QED
  BY <1>2, <1>5

LEMMA FirstOfTwo ==
  ASSUME NEW x, NEW y
  PROVE  FirstFilled(<<x, y>>) = IF x # "" THEN x ELSE y
<1>1. PICK values : values = <<x, y>>
  OBVIOUS
<1>2. DOMAIN values = 1 .. 2 /\ values[1] = x /\ values[2] = y
  BY <1>1
<1>3. \A k \in 1 .. 2 : k < 2 => k = 1
  OBVIOUS
<1>4. \A k \in 1 .. 2 : ~(k < 1)
  OBVIOUS
<1>5. CASE x # ""
  <2>1. 1 \in DOMAIN values /\ DOMAIN values \subseteq Nat
    BY <1>2
  <2>2. FirstFilled(values) = values[1]
    BY <1>2, <1>4, <1>5, <2>1, FirstIsFilled
  <2> QED
    BY <1>1, <1>2, <1>5, <2>2
<1>6. CASE x = "" /\ y # ""
  <2>1. 2 \in DOMAIN values /\ DOMAIN values \subseteq Nat
    BY <1>2
  <2>2. FirstFilled(values) = values[2]
    BY <1>2, <1>3, <1>6, <2>1, FirstIsFilled
  <2> QED
    BY <1>1, <1>2, <1>6, <2>2
<1>7. CASE x = "" /\ y = ""
  <2>1. \A i \in 1 .. 2 : i = 1 \/ i = 2
    OBVIOUS
  <2>2. \A i \in DOMAIN values : values[i] = ""
    BY <1>2, <1>7, <2>1
  <2>3. FirstFilled(values) = ""
    BY <2>2 DEF FirstFilled
  <2> QED
    BY <1>1, <1>7, <2>3
<1> QED
  BY <1>5, <1>6, <1>7

LEMMA FirstOfFour ==
  ASSUME NEW x, NEW y, NEW z, NEW w
  PROVE  x # "" => FirstFilled(<<x, y, z, w>>) = x
<1>1. PICK values : values = <<x, y, z, w>>
  OBVIOUS
<1>2. values[1] = x
  BY <1>1
<1>3. DOMAIN values = 1 .. 4
  <2>1. <<x, y, z, w>> \in Seq({x, y, z, w}) /\ Len(<<x, y, z, w>>) = 4
    OBVIOUS
  <2> QED
    BY <1>1, <2>1, LenProperties
<1>4. 1 \in DOMAIN values /\ DOMAIN values \subseteq Nat /\ \A k \in DOMAIN values : ~(k < 1)
  BY <1>3
<1>5. values[1] # "" => FirstFilled(values) = values[1]
  BY <1>4, FirstIsFilled
<1> QED
  BY <1>1, <1>2, <1>5

\* A value that is stored is read: a name that is no placeholder, and any
\* variable with a key of its own, under whatever attribute it is read first.
LEMMA StoredIsRead ==
  ASSUME NEW u, NEW key \in {"name"} \cup PlainKeys, Stored(u, key)
  PROVE  Get(u, key) # ""
<1>1. CASE key = "name"
  <2>1. u.name # "" /\ u.name \notin Placeholders
    BY <1>1 DEF Stored
  <2>2. ContactName(u) = u.name
    BY <2>1, FirstOfFour DEF ContactName
  <2>3. ContactVariable(u, "name") = ContactName(u)
    BY DEF ContactVariable, NameKeys, PhoneKeys
  <2> QED
    BY <1>1, <2>1, <2>2, <2>3, FirstOfTwo DEF Get
<1>2. CASE key \in PlainKeys
  <2>1. key \in MetaKeys /\ key # "name"
    BY <1>2 DEF PlainKeys
  <2>2. MetaOf(u, key) = u.metadata[key] /\ u.metadata[key] # ""
    BY <2>1 DEF MetaOf, Stored
  <2> QED
    BY <2>2, FirstOfTwo DEF Get
<1> QED
  BY <1>1, <1>2

\* Writing one key of the metadata leaves the name and the other keys alone.
LEMMA SetMetaStores ==
  ASSUME NEW u, UserOK(u), DOMAIN u.metadata = MetaKeys, NEW key, NEW value
  PROVE  LET v == SetMeta(u, key, value)
         IN  /\ DOMAIN v.metadata = MetaKeys /\ v.name = u.name
             /\ \A other \in MetaKeys : v.metadata[other] = IF other = key THEN value ELSE u.metadata[other]
BY DEF SetMeta, UserOK

\* A row that is written keeps the variables, but for some.
Spares(u, v, keys) ==
  /\ DOMAIN v.metadata = MetaKeys
  /\ \A other \in ({"name"} \cup PlainKeys) \ keys : Stored(u, other) => Stored(v, other)

LEMMA SparesAlike ==
  ASSUME NEW u, NEW v, DOMAIN u.metadata = MetaKeys, v.metadata = u.metadata, v.name = u.name, NEW keys
  PROVE  Spares(u, v, keys)
BY DEF Spares, Stored

LEMMA SparesBoth ==
  ASSUME NEW u, NEW v, NEW w, NEW keys, NEW more, Spares(u, v, keys), Spares(v, w, more)
  PROVE  Spares(u, w, keys \cup more)
BY DEF Spares

LEMMA SetMetaSpares ==
  ASSUME NEW u, UserOK(u), DOMAIN u.metadata = MetaKeys, NEW key, NEW value
  PROVE  Spares(u, SetMeta(u, key, value), {key})
<1>1. PICK v : v = SetMeta(u, key, value)
  OBVIOUS
<1>2. /\ DOMAIN v.metadata = MetaKeys /\ v.name = u.name
      /\ \A other \in MetaKeys : v.metadata[other] = IF other = key THEN value ELSE u.metadata[other]
  BY <1>1, SetMetaStores
<1>3. \A other \in ({"name"} \cup PlainKeys) \ {key} :
        v.name = u.name /\ (other # "name" => v.metadata[other] = u.metadata[other])
  BY <1>2 DEF PlainKeys
<1> QED
  BY <1>1, <1>2, <1>3 DEF Spares, Stored

LEMMA SetNameSpares ==
  ASSUME NEW u, UserOK(u), DOMAIN u.metadata = MetaKeys, NEW value
  PROVE  LET v == [u EXCEPT !.name = value]
         IN  v.name = value /\ Spares(u, v, {"name"})
BY DEF UserOK, Spares, Stored

\* An answer is stored under its variable, whatever was stored under others.
LEMMA SaveFieldStores ==
  ASSUME NEW u, UserOK(u), DOMAIN u.metadata = MetaKeys,
         NEW key \in {"name"} \cup PlainKeys, NEW value
  PROVE  value # "" /\ value \notin Placeholders =>
           /\ Stored(SaveField(u, key, value), key)
           /\ Spares(u, SaveField(u, key, value), {})
<1>1. PICK v : v = SaveField(u, key, value)
  OBVIOUS
<1>2. CASE key = "name"
  <2>1. v = [u EXCEPT !.name = value]
    BY <1>1, <1>2 DEF SaveField
  <2>2. v.name = value /\ Spares(u, v, {"name"})
    BY <2>1, SetNameSpares
  <2>3. value # "" /\ value \notin Placeholders => Stored(v, "name")
    BY <2>2 DEF Stored
  <2> QED
    BY <1>1, <1>2, <2>2, <2>3 DEF Spares
<1>3. CASE key # "name"
  <2>1. key \in MetaKeys /\ key \notin {"wpp_name", "name"} /\ key \notin {"wpp_phone", "phone"}
    BY <1>3 DEF PlainKeys, NameKeys, PhoneKeys
  <2>2. v = SetMeta(u, key, value)
    BY <1>1, <2>1 DEF SaveField
  <2>3. v.metadata[key] = value
    BY <2>1, <2>2, SetMetaStores
  <2>4. Spares(u, v, {key})
    BY <2>2, SetMetaSpares
  <2>5. value # "" => Stored(v, key)
    BY <1>3, <2>3 DEF Stored
  <2> QED
    BY <1>1, <2>4, <2>5 DEF Spares
<1> QED
  BY <1>2, <1>3

LEMMA SaveAnswerSpares ==
  ASSUME NEW u, UserOK(u), DOMAIN u.metadata = MetaKeys, NEW key, NEW value
  PROVE  Spares(u, SaveAnswer(u, key, value), {key})
<1>1. CASE key = "name"
  BY <1>1, SetNameSpares DEF SaveAnswer
<1>2. CASE key \in {"", "phone"}
  <2>1. SaveAnswer(u, key, value) = u
    BY <1>2 DEF SaveAnswer
  <2> QED
    BY <2>1, SparesAlike
<1>3. CASE key \notin {"name", "", "phone"}
  BY <1>3, SetMetaSpares DEF SaveAnswer
<1> QED
  BY <1>1, <1>2, <1>3

LEMMA ClearVariableSpares ==
  ASSUME NEW u, UserOK(u), DOMAIN u.metadata = MetaKeys, NEW key
  PROVE  Spares(u, ClearVariable(u, key), {key})
<1>1. CASE key = "name"
  BY <1>1, SetNameSpares DEF ClearVariable
<1>2. CASE key # "name" /\ key \in MetaKeys
  BY <1>2, SetMetaSpares DEF ClearVariable
<1>3. CASE key # "name" /\ key \notin MetaKeys
  <2>1. ClearVariable(u, key) = u
    BY <1>3 DEF ClearVariable
  <2> QED
    BY <2>1, SparesAlike
<1> QED
  BY <1>1, <1>2, <1>3

LEMMA KeepSpares ==
  ASSUME NEW u, UserOK(u), DOMAIN u.metadata = MetaKeys, NEW key, NEW value
  PROVE  Spares(u, Keep(u, key, value), {key})
<1>1. CASE key = ""
  <2>1. Keep(u, key, value) = u
    BY <1>1 DEF Keep
  <2> QED
    BY <2>1, SparesAlike
<1>2. CASE key # ""
  BY <1>2, SetMetaSpares DEF Keep
<1> QED
  BY <1>1, <1>2

LEMMA WithProtocolAlike ==
  ASSUME NEW u, UserOK(u)
  PROVE  WithProtocol(u).metadata = u.metadata /\ WithProtocol(u).name = u.name
BY DEF WithProtocol, UserOK

\* Running a step spares every variable it does not name.
LEMMA ExecuteSpares ==
  ASSUME Shape, Columns, pc = "exec", Execute
  PROVE  Spares(user, user', Writes(Here))
<1>1. UserOK(user) /\ DOMAIN user.metadata = MetaKeys
  BY DEF Shape, Columns
<1>2. CASE user' = user
  BY <1>1, <1>2, SparesAlike
<1>3. CASE Here.type = "SET_VARIABLE" /\ SetVariableExecute
  <2>1. user' = SetMeta(user, Here.variable, NewValue)
    BY <1>3 DEF SetVariableExecute
  <2>2. Writes(Here) = {Here.variable}
    BY <1>3 DEF Writes
  <2> QED
    BY <1>1, <2>1, <2>2, SetMetaSpares
<1>4. CASE Here.type = "HTTP_REQUEST" /\ HttpExecute
  <2>1. PICK status, body :
          user' = WithProtocol(Keep(Keep(user, Here.saveStatus, status), Here.saveBody, body))
    BY <1>4 DEF HttpExecute
  <2>2. PICK once, twice : /\ once = Keep(user, Here.saveStatus, status)
                           /\ twice = Keep(once, Here.saveBody, body)
    OBVIOUS
  <2>3. Spares(user, once, {Here.saveStatus}) /\ UserOK(once)
    BY <1>1, <2>2, KeepSpares, KeepKeeps DEF Keeps
  <2>4. Spares(once, twice, {Here.saveBody}) /\ UserOK(twice)
    BY <2>2, <2>3, KeepSpares, KeepKeeps DEF Keeps, Spares
  <2>5. user'.metadata = twice.metadata /\ user'.name = twice.name
    BY <2>1, <2>2, <2>4, WithProtocolAlike
  <2>6. Spares(user, twice, {Here.saveStatus} \cup {Here.saveBody})
    BY <2>3, <2>4, SparesBoth
  <2>7. Writes(Here) = {Here.saveStatus} \cup {Here.saveBody}
    BY <1>4 DEF Writes
  <2> QED
    BY <2>5, <2>6, <2>7 DEF Spares, Stored
<1>5. CASE EndExecute
  <2>1. user' = [user EXCEPT !.blocked = TRUE] \/ user' = user
    BY <1>5 DEF EndExecute
  <2>2. user'.metadata = user.metadata /\ user'.name = user.name
    BY <1>1, <2>1 DEF UserOK
  <2> QED
    BY <1>1, <2>2, SparesAlike
<1>6. ASSUME TextExecute \/ MediaExecute \/ DelayExecute \/ JumpExecute \/ ConditionExecute
             \/ SwitchExecute \/ HandoverExecute \/ InputExecute \/ OptionsExecute
             \/ IdentificationExecute \/ ReviewExecute
      PROVE  user' = user
  BY <1>6 DEF TextExecute, MediaExecute, DelayExecute, JumpExecute, ConditionExecute, SwitchExecute,
     HandoverExecute, InputExecute, OptionsExecute, IdentificationExecute, ReviewExecute, world
<1> QED
  BY <1>2, <1>3, <1>4, <1>5, <1>6, ExecuteByType

LEMMA SaveFieldColumns ==
  ASSUME NEW u, UserOK(u), DOMAIN u.metadata = MetaKeys, NEW key, NEW value
  PROVE  DOMAIN SaveField(u, key, value).metadata = MetaKeys
<1>1. CASE key \in {"wpp_name", "name"}
  BY <1>1 DEF SaveField, UserOK
<1>2. CASE key \in {"wpp_phone", "phone"}
  BY <1>2, SetMetaStores DEF SaveField
<1>3. CASE key \notin {"wpp_name", "name", "wpp_phone", "phone"}
  BY <1>3, SetMetaStores DEF SaveField
<1> QED
  BY <1>1, <1>2, <1>3

\* Only an identification's field and a field to correct are written otherwise.
LEMMA InputSpares ==
  ASSUME Shape, Columns, pc = "input", ProcessInput
  PROVE  /\ DOMAIN user'.metadata = MetaKeys
         /\ Here.type \notin {"CUSTOMER_IDENTIFICATION", "REVIEW"} => Spares(user, user', Writes(Here))
<1>1. UserOK(user) /\ DOMAIN user.metadata = MetaKeys
  BY DEF Shape, Columns
<1>2. CASE user' = user
  BY <1>1, <1>2, SparesAlike
<1>3. CASE Here.type = "INPUT" /\ InputAccepted
  <2>1. user' = SaveAnswer(user, Here.variable, InputFormat(Here.expected, msg))
    BY <1>3 DEF InputAccepted
  <2>2. Writes(Here) = {Here.variable}
    BY <1>3 DEF Writes
  <2> QED
    BY <1>1, <2>1, <2>2, SaveAnswerSpares DEF Spares
<1>4. CASE Here.type = "CUSTOMER_IDENTIFICATION" /\ IdentificationAccepted
  BY <1>1, <1>4, SaveFieldColumns DEF IdentificationAccepted
<1>5. CASE Here.type = "REVIEW" /\ ReviewCorrect
  <2>1. user' = ClearVariable(user, Here.fields[FieldNumber])
    BY <1>5 DEF ReviewCorrect
  <2> QED
    BY <1>1, <1>5, <2>1, ClearVariableSpares DEF Spares
<1>6. ASSUME TextInput \/ InputRejected \/ OptionsInput \/ DeafInput \/ IdentificationLost
             \/ IdentificationRejected \/ ReviewConfirmed \/ ReviewEdit \/ ReviewOther
             \/ ReviewBackToSummary \/ ReviewBadField
      PROVE  user' = user
  BY <1>6 DEF TextInput, InputRejected, OptionsInput, DeafInput, IdentificationLost,
     IdentificationRejected, ReviewConfirmed, ReviewEdit, ReviewOther, ReviewBackToSummary,
     ReviewBadField, world
<1> QED
  BY <1>2, <1>3, <1>4, <1>5, <1>6, InputByType DEF InputInput, IdentificationInput, ReviewInput

LEMMA NextColumns ==
  ASSUME Shape, Columns, [Next]_vars
  PROVE  Columns'
<1>1. CASE pc = "exec" /\ Execute
  BY <1>1, ExecuteSpares DEF Spares, Columns
<1>2. CASE pc = "input" /\ ProcessInput
  BY <1>2, InputSpares DEF Columns
<1>3. CASE Unblock
  BY <1>3 DEF Unblock, Columns, Shape, UserOK
<1>4. CASE UNCHANGED <<user, ticket>>
  BY <1>4 DEF Columns
<1> QED
  BY <1>1, <1>2, <1>3, <1>4, WhoWrites

LEMMA NextGiven ==
  ASSUME Shape, Given, [Next]_vars
  PROVE  Given'
<1>1. ASSUME NEW m \in Inputs \cup ({redo} \ {NoInput}), Receive(m) PROVE Given'
  BY <1>1 DEF Receive, Given, Shape, TypeOK
<1>2. ASSUME Passive \/ Blocked PROVE Given'
  BY <1>2 DEF Passive, Blocked, Rest, work, Given
<1>3. ASSUME GoBack \/ Start \/ StartOver PROVE Given'
  BY <1>3 DEF GoBack, Start, StartOver, GoingOn, Dispatching, StartChain, Given
<1>4. ASSUME Answer PROVE Given'
  BY <1>4 DEF Answer, GoingOn, Dispatching, Given
<1>5. CASE pc = "input" /\ ProcessInput
  BY <1>5, InputEffect DEF Answered, Handled, Given
<1>6. CASE pc = "exec" /\ Execute
  BY <1>6, ExecuteEffect DEF Executed, Handled, Given
<1>7. ASSUME StopLoop \/ EnterNowhere \/ EnterStep \/ Release PROVE Given'
  BY <1>7 DEF StopLoop, EnterNowhere, EnterStep, Release, Rest, work, Given
<1>8. ASSUME Interrupt \/ InterruptEntering PROVE Given'
  BY <1>8 DEF Interrupt, InterruptEntering, Stop, work, Given
<1>9. ASSUME Expire \/ Unblock \/ ResetFlow \/ ToggleActive \/ \E f \in Flows : Publish(f) \/ Attach(f)
      PROVE  Given'
  <2>1. pc' = pc /\ UNCHANGED work
    BY <1>9 DEF Expire, Unblock, ResetFlow, ToggleActive, Publish, Attach, Change
  <2> QED
    BY <2>1 DEF work, Given
<1>10. CASE UNCHANGED vars
  BY <1>10 DEF vars, work, Given
<1> QED
  BY <1>1, <1>2, <1>3, <1>4, <1>5, <1>6, <1>7, <1>8, <1>9, <1>10 DEF Next, Work, Interfere,
     ProcessInput, Execute

-----------------------------------------------------------------------------
\* The identification of a guided flow.

\* The definition worked with has an identification, and is drawn as assumed.
Guiding ==
  /\ GuidedIdentifications /\ Steady /\ Columns /\ Given /\ changes = 0
  /\ HasWho(def)

LEMMA WhoIsGuided ==
  ASSUME Guiding
  PROVE  /\ IsWho(def, WhoOf(def)) /\ (\A id : IsWho(def, id) => id = WhoOf(def))
         /\ BeforeOf(def) \subseteq DOMAIN def.steps
         /\ Guided(def, WhoOf(def), BeforeOf(def))
<1>1. def \in Flows /\ IsWho(def, WhoOf(def))
  BY DEF Guiding, Steady, Shape, TypeOK, HasWho, IsWho, WhoOf
<1>2. BeforeOf(def) \in SUBSET DOMAIN def.steps /\ Guided(def, WhoOf(def), BeforeOf(def))
  BY <1>1 DEF Guiding, GuidedIdentifications, IsWho, BeforeOf
<1> QED
  BY <1>1, <1>2 DEF Guided, IsWho

LEMMA AskedSpan ==
  ASSUME Guiding
  PROVE  /\ Len(Asked) \in Nat /\ DOMAIN Asked = 1 .. Len(Asked)
         /\ Vars(Asked) \subseteq {"name"} \cup PlainKeys
         /\ \A i \in DOMAIN Asked : Asked[i].variable \in Vars(Asked)
         /\ \A id \in DOMAIN def.steps : Writes(def.steps[id]) \cap Vars(Asked) = {}
<1>1. def \in Flows /\ IsWho(def, WhoOf(def)) /\ Guided(def, WhoOf(def), BeforeOf(def))
  BY WhoIsGuided DEF Guiding, Steady, Shape, TypeOK
<1>2. Len(Asked) \in Nat /\ DOMAIN Asked = 1 .. Len(Asked)
  BY <1>1, EngineAssumption DEF Asked, IsWho, WellFormed
<1>3. Vars(Asked) \subseteq {"name"} \cup PlainKeys
  BY <1>1 DEF Guided, Asked
<1>4. \A id \in DOMAIN def.steps : Writes(def.steps[id]) \cap Vars(Asked) = {}
  BY <1>1 DEF Guided, Asked
<1> QED
  BY <1>2, <1>3, <1>4 DEF Vars

\* The identification waits for its field, unless it has none left.
LEMMA WhoAsks ==
  ASSUME Guiding, pc \in {"input", "exec"}, Here.type = "CUSTOMER_IDENTIFICATION"
  PROVE  at = WhoOf(def) /\ Here.fields = Asked /\ ~SmartSkip(Vars(Here.fields))
<1>1. IsWho(def, at)
  BY DEF Guiding, Steady, Shape, TypeOK, IsWho, Here
<1>2. at = WhoOf(def)
  BY <1>1, WhoIsGuided
<1>3. ~Here.skip
  BY <1>2, WhoIsGuided DEF Guided, Here
<1> QED
  BY <1>2, <1>3 DEF SmartSkip, Here, Asked

\* An answer that is accepted fills its field and leaves the others filled.
LEMMA AnswerStores ==
  ASSUME Guiding, pc = "input", Here.type = "CUSTOMER_IDENTIFICATION", IdentificationAccepted
  PROVE  /\ meta.field_idx + 1 \in DOMAIN Asked /\ Field = Asked[meta.field_idx + 1]
         /\ Stored(user', Asked[meta.field_idx + 1].variable)
         /\ \A key \in Vars(Asked) : Stored(user, key) => Stored(user', key)
<1>1. /\ msg \in Inputs /\ UserOK(user) /\ DOMAIN user.metadata = MetaKeys /\ meta.field_idx \in Nat
      /\ pc # "idle"
  BY DEF Guiding, Given, Columns, Steady, Shape, TypeOK, Metadata
<1>2. Here.fields = Asked
  BY WhoAsks
<1>3. Len(Asked) \in Nat /\ DOMAIN Asked = 1 .. Len(Asked) /\ meta.field_idx < Len(Asked)
  BY <1>2, AskedSpan DEF IdentificationAccepted
<1>4. meta.field_idx + 1 \in DOMAIN Asked /\ Field = Asked[meta.field_idx + 1]
  BY <1>1, <1>2, <1>3 DEF Field
<1>5. Field.variable \in Vars(Asked) /\ Vars(Asked) \subseteq {"name"} \cup PlainKeys
  BY <1>4, AskedSpan
<1>6. FieldAccepts(Field.type, msg) /\ user' = SaveField(user, Field.variable, msg)
  BY DEF IdentificationAccepted
<1>7. msg # "" /\ msg \notin Placeholders
  <2>1. \A i \in DOMAIN Asked, m \in Inputs :
          FieldAccepts(Asked[i].type, m) => m # "" /\ m \notin Placeholders
    BY WhoIsGuided DEF Guided, Asked
  <2> QED
    BY <1>1, <1>4, <1>6, <2>1
<1>8. Stored(user', Field.variable) /\ Spares(user, user', {})
  BY <1>1, <1>5, <1>6, <1>7, SaveFieldStores
<1> QED
  BY <1>4, <1>5, <1>8 DEF Spares

\* If all fields are behind the index, all are filled.
LEMMA NoneLeft ==
  ASSUME Guiding, Filling, meta.field_idx >= Len(Asked)
  PROVE  Complete(user)
<1>1. meta.field_idx \in Nat /\ Len(Asked) \in Nat /\ DOMAIN Asked = 1 .. Len(Asked)
  BY AskedSpan DEF Guiding, Steady, Shape, TypeOK, Metadata
<1>2. \A i \in DOMAIN Asked : i <= meta.field_idx
  BY <1>1
<1> QED
  BY <1>2 DEF Filling, Complete, Vars

-----------------------------------------------------------------------------
\* What a handler makes of the identification.

\* The invariant after a step that leaves the definition alone.
Following == IF pc' = "enter" THEN at' ELSE step'

MendingAfter ==
  /\ Following = WhoOf(def)
  /\ pc' = "enter" => count' = 0
  /\ meta'.field_idx + 1 \in DOMAIN Asked
  /\ \A key \in Vars(Asked) : key # Asked[meta'.field_idx + 1].variable => Stored(user', key)

FillingAfter ==
  /\ \A i \in DOMAIN Asked : i <= meta'.field_idx => Stored(user', Asked[i].variable)
  /\ Behind(Following) \/ (\E i \in DOMAIN history' : Behind(history'[i])) => Complete(user')

GuardedAfter == IF meta'.edit_one_mode THEN MendingAfter ELSE FillingAfter

\* The conversation goes on, or rests, without the row losing a field: it comes
\* behind the identification from there only.
LEMMA FillingKept ==
  ASSUME Guiding, Filling, pc \in {"input", "exec"}, history' = history,
         meta'.field_idx = meta.field_idx,
         \A key \in Vars(Asked) : Stored(user, key) => Stored(user', key),
         pc' = "enter" /\ at' \in DOMAIN def.steps =>
           at' = at \/ (at # WhoOf(def) /\ at' \in LeadsTo(def, at)),
         pc' # "enter" => step' \in {step, NoStep}
  PROVE  FillingAfter
<1>1. step = at /\ at \in DOMAIN def.steps /\ NoStep \notin DOMAIN def.steps
  BY EngineAssumption DEF Guiding, Steady, Shape, TypeOK, AtWork
<1>2. Current = at
  BY <1>1 DEF Current
<1>3. Behind(Following) => Behind(at)
  <2>1. CASE pc' = "enter"
    <3> SUFFICES ASSUME Behind(at') PROVE Behind(at)
      BY <2>1 DEF Following
    <3>1. at' \in DOMAIN def.steps /\ at' \notin BeforeOf(def)
      BY DEF Behind
    <3>2. at \in BeforeOf(def) \ {WhoOf(def)} => LeadsTo(def, at) \subseteq BeforeOf(def)
      BY WhoIsGuided DEF Guided
    <3> QED
      BY <1>1, <2>1, <3>1, <3>2 DEF Behind
  <2>2. CASE pc' # "enter"
    BY <1>1, <2>2 DEF Following, Behind
  <2> QED
    BY <2>1, <2>2
<1>4. Behind(Following) \/ (\E i \in DOMAIN history' : Behind(history'[i])) => Complete(user)
  BY <1>2, <1>3 DEF Filling
<1>5. Complete(user) => Complete(user')
  BY DEF Complete
<1>6. \A i \in DOMAIN Asked : i <= meta'.field_idx => Stored(user', Asked[i].variable)
  BY AskedSpan DEF Filling
<1> QED
  BY <1>4, <1>5, <1>6 DEF FillingAfter

\* An identification that ends with every field filled.
LEMMA FillingDone ==
  ASSUME Guiding, meta'.field_idx = 0, Complete(user')
  PROVE  FillingAfter
<1>1. \A i \in DOMAIN Asked : ~(i <= 0)
  BY AskedSpan
<1> QED
  BY <1>1 DEF FillingAfter

\* The answer to the field being corrected, or to the last one, completes it.
LEMMA AnswerCompletes ==
  ASSUME Guiding, pc = "input", Here.type = "CUSTOMER_IDENTIFICATION", IdentificationAccepted,
         IF meta.edit_one_mode THEN Mending ELSE Filling /\ meta.field_idx + 1 >= Len(Asked)
  PROVE  Complete(user')
<1> DEFINE next == meta.field_idx + 1
<1>1. /\ next \in DOMAIN Asked /\ Stored(user', Asked[next].variable)
      /\ \A key \in Vars(Asked) : Stored(user, key) => Stored(user', key)
  BY AnswerStores
<1>2. CASE meta.edit_one_mode
  BY <1>1, <1>2 DEF Mending, Complete
<1>3. CASE ~meta.edit_one_mode
  <2>1. /\ meta.field_idx \in Nat /\ Len(Asked) \in Nat /\ DOMAIN Asked = 1 .. Len(Asked)
        /\ \A i \in DOMAIN Asked : Asked[i].variable \in Vars(Asked)
    BY AskedSpan DEF Guiding, Steady, Shape, TypeOK, Metadata
  <2>2. \A i \in DOMAIN Asked : i <= meta.field_idx \/ i = next
    BY <1>3, <2>1
  <2>3. \A i \in DOMAIN Asked : Stored(user', Asked[i].variable)
    BY <1>1, <1>3, <2>1, <2>2 DEF Filling
  <2> QED
    BY <2>3 DEF Complete, Vars
<1> QED
  BY <1>2, <1>3

LEMMA MendingExecute ==
  ASSUME Guiding, Mending, pc = "exec", Execute
  PROVE  MendingAfter /\ meta' = meta
<1>1. step = at /\ at \in DOMAIN def.steps
  BY DEF Guiding, Steady, Shape, TypeOK, AtWork
<1>2. at = WhoOf(def)
  BY <1>1 DEF Mending, Current
<1>3. Here.type = "CUSTOMER_IDENTIFICATION"
  BY <1>2, WhoIsGuided DEF IsWho, Here
<1>4. Here.fields = Asked /\ ~SmartSkip(Vars(Here.fields))
  BY <1>3, WhoAsks
<1>5. ~(meta.field_idx >= Len(Here.fields))
  <2>1. /\ meta.field_idx \in Nat /\ Len(Asked) \in Nat
        /\ meta.field_idx + 1 \in 1 .. Len(Asked)
    BY AskedSpan DEF Mending, Guiding, Steady, Shape, TypeOK, Metadata
  <2> QED
    BY <1>4, <2>1
<1>6. IdentificationExecute
  BY <1>3, ExecuteByType DEF Guiding, Steady
<1>7. pc' = "release" /\ UNCHANGED <<meta, step, user>>
  BY <1>4, <1>5, <1>6 DEF IdentificationExecute, Rest, world
<1> QED
  BY <1>1, <1>2, <1>7 DEF Mending, MendingAfter, Following

LEMMA MendingInput ==
  ASSUME Guiding, Mending, meta.edit_one_mode, pc = "input", ProcessInput
  PROVE  GuardedAfter
<1>1. /\ step = at /\ at \in DOMAIN def.steps /\ at # NoStep /\ count = 0
      /\ meta \in Metadata(StepIds) /\ meta.field_idx \in Nat
  BY EngineAssumption DEF Guiding, Steady, Shape, TypeOK, AtWork, Given, Metadata
<1>2. at = WhoOf(def)
  BY <1>1 DEF Mending, Current
<1>3. Here.type = "CUSTOMER_IDENTIFICATION"
  BY <1>2, WhoIsGuided DEF IsWho, Here
<1>4. Here.fields = Asked
  BY <1>3, WhoAsks
<1>5. ~(meta.field_idx >= Len(Here.fields))
  <2>1. Len(Asked) \in Nat /\ meta.field_idx + 1 \in 1 .. Len(Asked)
    BY AskedSpan DEF Mending
  <2> QED
    BY <1>1, <1>4, <2>1
<1>6. IdentificationInput
  BY <1>3, InputByType DEF Guiding, Steady, DeafTypes
<1>7. CASE IdentificationRejected
  <2>1. pc' = "enter" /\ at' = at /\ count' = count /\ UNCHANGED <<meta, user>>
    BY <1>1, <1>7 DEF IdentificationRejected, Continue, session, world
  <2> QED
    BY <1>1, <1>2, <2>1 DEF Mending, MendingAfter, GuardedAfter, Following
<1>8. CASE IdentificationAccepted
  <2>1. meta'.edit_one_mode = FALSE /\ meta'.field_idx = 0
    BY <1>1, <1>8 DEF IdentificationAccepted, Metadata
  <2>2. Complete(user')
    BY <1>3, <1>8, AnswerCompletes
  <2> QED
    BY <2>1, <2>2, FillingDone DEF GuardedAfter
<1> QED
  BY <1>5, <1>6, <1>7, <1>8 DEF IdentificationInput, IdentificationLost

LEMMA FillingExecute ==
  ASSUME Guiding, Filling, ~meta.edit_one_mode, pc = "exec", Execute
  PROVE  ~meta'.edit_one_mode /\ FillingAfter
<1>1. /\ step = at /\ at \in DOMAIN def.steps /\ meta \in Metadata(StepIds)
      /\ Shape /\ Columns
  BY DEF Guiding, Steady, Shape, TypeOK, AtWork
<1>2. history' = history /\ step' \in {step, NoStep}
  BY <1>1, ExecuteEffect DEF Executed, Handled
<1>3. \A key \in Vars(Asked) : Stored(user, key) => Stored(user', key)
  <2>1. Spares(user, user', Writes(Here))
    BY <1>1, ExecuteSpares
  <2>2. Writes(Here) \cap Vars(Asked) = {} /\ Vars(Asked) \subseteq {"name"} \cup PlainKeys
    BY <1>1, AskedSpan DEF Here
  <2> QED
    BY <2>1, <2>2 DEF Spares
<1>4. ASSUME Here.type # "CUSTOMER_IDENTIFICATION"
      PROVE  ~meta'.edit_one_mode /\ FillingAfter
  <2>1. meta' \in {meta, ShownMeta}
    BY <1>1, <1>4, ExecuteByType DEF TextExecute, MediaExecute, DelayExecute, JumpExecute,
       SetVariableExecute, ConditionExecute, SwitchExecute, HttpExecute, HandoverExecute, EndExecute,
       InputExecute, OptionsExecute, ReviewExecute, session
  <2>2. meta'.edit_one_mode = meta.edit_one_mode /\ meta'.field_idx = meta.field_idx
    BY <1>1, <2>1 DEF ShownMeta, Metadata
  <2>3. at # WhoOf(def)
    BY <1>4, WhoIsGuided DEF IsWho, Here
  <2>4. pc' = "enter" /\ at' \in DOMAIN def.steps => at' \in LeadsTo(def, at)
    BY <1>1, ExecuteLeads
  <2>5. FillingAfter
    BY <1>2, <1>3, <2>2, <2>3, <2>4, FillingKept
  <2> QED
    BY <2>2, <2>5
<1>5. CASE Here.type = "CUSTOMER_IDENTIFICATION" /\ IdentificationExecute
  <2>1. Here.fields = Asked /\ ~SmartSkip(Vars(Here.fields))
    BY <1>5, WhoAsks
  <2>2. CASE meta.field_idx >= Len(Here.fields)
    <3>1. meta' = NoMetadata(StepIds)
      BY <1>5, <2>1, <2>2 DEF IdentificationExecute
    <3>2. Complete(user')
      BY <1>3, <2>1, <2>2, NoneLeft DEF Complete
    <3> QED
      BY <3>1, <3>2, FillingDone DEF NoMetadata
  <2>3. CASE ~(meta.field_idx >= Len(Here.fields))
    <3>1. pc' = "release" /\ meta' = meta
      BY <1>5, <2>1, <2>3 DEF IdentificationExecute, Rest
    <3> QED
      BY <1>2, <1>3, <3>1, FillingKept
  <2> QED
    BY <2>2, <2>3
<1> QED
  BY <1>1, <1>4, <1>5, ExecuteByType

\* A field that is chosen for correction is emptied, and the conversation sent
\* back to the identification for that field.
LEMMA CorrectionMends ==
  ASSUME Guiding, Filling, pc = "input", Here.type = "REVIEW", ReviewCorrect
  PROVE  meta'.edit_one_mode /\ MendingAfter
<1> DEFINE key == Here.fields[FieldNumber]
           idx == CorrectionIndexes(key)
           who == WhoOf(def)
<1>1. /\ step = at /\ at \in DOMAIN def.steps /\ NoStep \notin DOMAIN def.steps
      /\ meta \in Metadata(StepIds) /\ TypeOK /\ count = 0
      /\ UserOK(user) /\ DOMAIN user.metadata = MetaKeys
  BY EngineAssumption DEF Guiding, Steady, Shape, TypeOK, AtWork, Given, Columns
<1>2. /\ at \notin BeforeOf(def) /\ Here.correction = who
      /\ FieldNumber \in DOMAIN Here.fields /\ key \in Vars(Asked)
  BY <1>1, WhoIsGuided DEF Guided, Here, Asked, ReviewCorrect
<1>3. IsWho(def, who)
  BY WhoIsGuided
<1>4. Complete(user)
  BY <1>1, <1>2 DEF Filling, Current, Behind
<1>5. idx = {i - 1 : i \in {k \in DOMAIN Asked : Asked[k].variable = key}}
  BY <1>2, <1>3 DEF CorrectionIndexes, IsWho, Asked
<1>6. idx # {} /\ idx \subseteq Nat
  BY <1>1, <1>2, <1>5, CorrectionIndexesFit DEF Vars
<1>7. Least(idx) \in idx
  BY <1>6, LeastIn
<1>8. PICK k \in DOMAIN Asked : Asked[k].variable = key /\ Least(idx) = k - 1
  BY <1>5, <1>7
<1>9. Least(idx) + 1 = k
  BY <1>8, AskedSpan
<1>10. meta'.field_idx = Least(idx) /\ meta'.edit_one_mode = TRUE
  <2>1. meta' = [meta EXCEPT !.review_mode = FALSE, !.edit_one_mode = TRUE, !.field_idx = Least(idx)]
    BY <1>6 DEF ReviewCorrect
  <2> HIDE DEF idx
  <2> QED
    BY <1>1, <2>1 DEF Metadata
<1>11. user' = ClearVariable(user, key)
  BY DEF ReviewCorrect
<1>12. pc' = "enter" /\ at' = who /\ count' = 0
  <2>1. who # NoStep
    BY <1>1, <1>3 DEF IsWho
  <2>2. Or(Here.correction, at) = who
    BY <1>2, <2>1 DEF Or
  <2> QED
    BY <1>1, <2>1, <2>2 DEF ReviewCorrect, Continue
<1> HIDE DEF idx, key, who
<1>13. Spares(user, user', {key})
  BY <1>1, <1>11, ClearVariableSpares
<1>14. \A other \in Vars(Asked) : other # key => Stored(user', other)
  BY <1>4, <1>13, AskedSpan DEF Complete, Spares
<1> QED
  BY <1>8, <1>9, <1>10, <1>12, <1>14 DEF MendingAfter, Following, who

LEMMA FillingInput ==
  ASSUME Guiding, Filling, ~meta.edit_one_mode, pc = "input", ProcessInput
  PROVE  GuardedAfter
<1>1. /\ step = at /\ at \in DOMAIN def.steps
      /\ meta \in Metadata(StepIds) /\ meta.field_idx \in Nat /\ Shape /\ Columns
  BY DEF Guiding, Steady, Shape, TypeOK, AtWork, Metadata
<1>2. history' = history /\ step' = step
  BY <1>1, InputEffect DEF Answered, Handled
<1>3. pc' = "enter" /\ at' \in DOMAIN def.steps => at' = at \/ at' \in LeadsTo(def, at)
  BY <1>1, InputLeads
<1>4. ASSUME Here.type # "CUSTOMER_IDENTIFICATION",
             meta'.edit_one_mode = meta.edit_one_mode, meta'.field_idx = meta.field_idx,
             \A key \in Vars(Asked) : Stored(user, key) => Stored(user', key)
      PROVE  GuardedAfter
  <2>1. at # WhoOf(def)
    BY <1>4, WhoIsGuided DEF IsWho, Here
  <2>2. FillingAfter
    BY <1>2, <1>3, <1>4, <2>1, FillingKept
  <2> QED
    BY <1>4, <2>2 DEF GuardedAfter
<1>5. CASE Here.type \notin {"CUSTOMER_IDENTIFICATION", "REVIEW"}
  <2>1. Spares(user, user', Writes(Here))
    BY <1>1, <1>5, InputSpares
  <2>2. Writes(Here) \cap Vars(Asked) = {} /\ Vars(Asked) \subseteq {"name"} \cup PlainKeys
    BY <1>1, AskedSpan DEF Here
  <2>3. \A key \in Vars(Asked) : Stored(user, key) => Stored(user', key)
    BY <2>1, <2>2 DEF Spares
  <2>4. TextInput \/ InputInput \/ OptionsInput \/ DeafInput
    BY <1>1, <1>5, InputByType
  <2>5. meta'.edit_one_mode = meta.edit_one_mode /\ meta'.field_idx = meta.field_idx
    <3>1. CASE TextInput \/ OptionsInput \/ DeafInput
      BY <3>1 DEF TextInput, OptionsInput, DeafInput, session
    <3>2. CASE InputInput
      BY <1>1, <3>2 DEF InputInput, InputRejected, InputAccepted, Metadata
    <3> QED
      BY <2>4, <3>1, <3>2
  <2> QED
    BY <1>4, <1>5, <2>3, <2>5
<1>6. CASE Here.type = "REVIEW" /\ ReviewInput
  <2>1. CASE ReviewCorrect
    BY <1>6, <2>1, CorrectionMends DEF GuardedAfter
  <2>2. CASE ReviewConfirmed \/ ReviewOther \/ ReviewBadField
    <3>1. meta' = meta /\ user' = user
      BY <2>2 DEF ReviewConfirmed, ReviewOther, ReviewBadField, session, world
    <3> QED
      BY <1>4, <1>6, <3>1
  <2>3. CASE ReviewEdit \/ ReviewBackToSummary
    <3>1. /\ meta'.edit_one_mode = meta.edit_one_mode /\ meta'.field_idx = meta.field_idx
          /\ user' = user
      BY <1>1, <2>3 DEF ReviewEdit, ReviewBackToSummary, ShownMeta, Metadata, world
    <3> QED
      BY <1>4, <1>6, <3>1
  <2> QED
    BY <1>6, <2>1, <2>2, <2>3 DEF ReviewInput
<1>7. CASE Here.type = "CUSTOMER_IDENTIFICATION" /\ IdentificationInput
  <2>1. Here.fields = Asked
    BY <1>7, WhoAsks
  <2>2. CASE IdentificationLost
    <3>1. meta' = NoMetadata(StepIds) /\ user' = user /\ meta.field_idx >= Len(Asked)
      BY <2>1, <2>2 DEF IdentificationLost, world
    <3> QED
      BY <3>1, NoneLeft, FillingDone DEF NoMetadata, GuardedAfter, Complete
  <2>3. CASE IdentificationRejected
    <3>1. meta' = meta /\ user' = user /\ at' = at
      BY <2>3 DEF IdentificationRejected, Continue, session, world
    <3>2. FillingAfter
      BY <1>2, <3>1, FillingKept
    <3> QED
      BY <3>1, <3>2 DEF GuardedAfter
  <2>4. CASE IdentificationAccepted
    <3> DEFINE next == meta.field_idx + 1
    <3>1. /\ next \in DOMAIN Asked /\ Stored(user', Asked[next].variable)
          /\ \A key \in Vars(Asked) : Stored(user, key) => Stored(user', key)
      BY <1>7, <2>4, AnswerStores
    <3>2. \A i \in DOMAIN Asked : i <= next => Stored(user', Asked[i].variable)
      <4>1. \A i \in DOMAIN Asked : i <= next => i <= meta.field_idx \/ i = next
        BY <1>1, AskedSpan
      <4>2. \A i \in DOMAIN Asked : Asked[i].variable \in Vars(Asked)
        BY AskedSpan
      <4> QED
        BY <3>1, <4>1, <4>2 DEF Filling
    <3>3. CASE next >= Len(Asked)
      <4>1. meta'.edit_one_mode = FALSE /\ meta'.field_idx = 0
        BY <1>1, <2>1, <2>4, <3>3 DEF IdentificationAccepted, Metadata
      <4>2. Complete(user')
        BY <1>7, <2>4, <3>3, AnswerCompletes
      <4> QED
        BY <4>1, <4>2, FillingDone DEF GuardedAfter
    <3>4. CASE ~(next >= Len(Asked))
      <4>1. at' = at /\ meta'.edit_one_mode = meta.edit_one_mode /\ meta'.field_idx = next
        BY <1>1, <2>1, <2>4, <3>4 DEF IdentificationAccepted, Continue, Metadata
      <4>2. pc' = "enter"
        BY <1>1, <2>1, <2>4, <3>4, HereIsStep DEF IdentificationAccepted, Continue, Shape
      <4>3. Following = Current
        BY <1>1, <4>1, <4>2 DEF Following, Current
      <4>4. Complete(user) => Complete(user')
        BY <3>1 DEF Complete
      <4> QED
        BY <1>2, <3>2, <4>1, <4>3, <4>4 DEF Filling, FillingAfter, GuardedAfter
    <3> QED
      BY <3>3, <3>4
  <2> QED
    BY <1>7, <2>2, <2>3, <2>4 DEF IdentificationInput
<1> QED
  BY <1>1, <1>5, <1>6, <1>7, InputByType DEF DeafTypes

LEMMA GuardedNext ==
  ASSUME def' = def, GuardedAfter
  PROVE  Guarded'
<1>1. Asked' = Asked /\ WhoOf(def)' = WhoOf(def) /\ Current' = Following
      /\ \A id : Behind(id)' <=> Behind(id)
  BY DEF Asked, WhoOf, BeforeOf, Current, Following, Behind
<1>2. CASE meta'.edit_one_mode
  <2>1. MendingAfter
    BY <1>2 DEF GuardedAfter
  <2>2. Mending'
    BY <1>1, <2>1 DEF MendingAfter, Mending
  <2> QED
    BY <1>2, <2>2 DEF Guarded
<1>3. CASE ~meta'.edit_one_mode
  <2>1. FillingAfter
    BY <1>3 DEF GuardedAfter
  <2>2. Complete(user)' <=> Complete(user')
    BY <1>1 DEF Complete
  <2>3. Filling'
    BY <1>1, <2>1, <2>2 DEF FillingAfter, Filling
  <2> QED
    BY <1>3, <2>3 DEF Guarded
<1> QED
  BY <1>2, <1>3

\* Whoever else moves the conversation, leaving the row and the metadata alone,
\* moves it to where it was or can go back to.
LEMMA GuardedStays ==
  ASSUME Guiding, Undisturbed, Guarded, def' = def, meta' = meta,
         \A key : Stored(user, key) => Stored(user', key),
         \A i \in DOMAIN history' :
           history'[i] = Current \/ \E k \in DOMAIN history : history'[i] = history[k],
         meta.edit_one_mode => Following = Current /\ (pc' = "enter" => count' = 0),
         ~meta.edit_one_mode /\ Behind(Following) =>
           Behind(Current) \/ \E k \in DOMAIN history : Behind(history[k])
  PROVE  Guarded'
<1>1. IF meta.edit_one_mode THEN Mending ELSE Filling
  BY DEF Guarded, Guiding
<1>2. CASE meta.edit_one_mode
  <2>1. MendingAfter
    BY <1>1, <1>2 DEF Mending, MendingAfter
  <2> QED
    BY <1>2, <2>1, GuardedNext DEF GuardedAfter
<1>3. CASE ~meta.edit_one_mode
  <2>1. Behind(Following) \/ (\E i \in DOMAIN history' : Behind(history'[i])) => Complete(user)
    BY <1>1, <1>3 DEF Filling
  <2>2. Complete(user) => Complete(user')
    BY DEF Complete
  <2>3. FillingAfter
    BY <1>1, <1>3, <2>1, <2>2 DEF Filling, FillingAfter
  <2> QED
    BY <1>3, <2>3, GuardedNext DEF GuardedAfter
<1> QED
  BY <1>2, <1>3

LEMMA WhoOffersNoBack ==
  ASSUME NEW f, NEW who, NEW before
  PROVE  Guided(f, who, before) => ~OffersBack(f, who)
BY Zenon DEF Guided

LEMMA BeforeIsFirst ==
  ASSUME NEW f, NEW who, NEW before
  PROVE  Guided(f, who, before) => FirstSteps(f) \cap DOMAIN f.steps \subseteq before
BY Zenon DEF Guided

\* A message that finds the conversation at the identification does not go back
\* and does not start again.
LEMMA MendingAnswers ==
  ASSUME Guiding, Mending, pc = "dispatch"
  PROVE  Standing = step /\ step \in DOMAIN flow.steps /\ Standing # NoStep /\ ~BackAsked
<1>1. def = flow /\ NoStep \notin DOMAIN def.steps /\ step = WhoOf(def)
  BY EngineAssumption DEF Guiding, Steady, Settled, Shape, TypeOK, Mending, Current
<1>2. IsWho(def, step) /\ ~OffersBack(def, step)
  <2>1. IsWho(def, WhoOf(def)) /\ Guided(def, WhoOf(def), BeforeOf(def))
    BY WhoIsGuided
  <2>2. ~OffersBack(def, WhoOf(def))
    BY <2>1, WhoOffersNoBack
  <2> QED
    BY <1>1, <2>1, <2>2
<1>3. Standing = step
  BY <1>1, <1>2 DEF Standing, AtEnd, IsWho
<1> QED
  BY <1>1, <1>2, <1>3 DEF IsWho, BackAsked, OffersBack

\* "Back" leads to a step of the history.
LEMMA PreviousRecalled ==
  ASSUME Shape, Previous # NoStep
  PROVE  \E k \in DOMAIN history : Previous = history[k]
<1>1. PICK left : left = PopHistory(PopHistory(history))
  OBVIOUS
<1>2. history \in Seq(StepIds)
  BY DEF Shape, TypeOK
<1>3. Previous = IF Len(history) < 2 THEN NoStep ELSE history[2]
  BY <1>1, <1>2, PoppedTwice DEF Previous
<1>4. Len(history) \in Nat /\ DOMAIN history = 1 .. Len(history)
  BY <1>2, HistorySpan
<1>5. 2 \in DOMAIN history
  BY <1>3, <1>4
<1> QED
  BY <1>3, <1>4, <1>5

LEMMA NextGuarded ==
  ASSUME GuidedIdentifications, Steady, Columns, Given, Guarded, [Next]_vars
  PROVE  Guarded'
<1> SUFFICES ASSUME Undisturbed', HasWho(def')
             PROVE  Guarded'
  BY DEF Guarded
<1>1. changes = 0 /\ def' = def /\ flow' = flow /\ def = flow
  BY OneDefinition DEF Undisturbed, Steady, Settled
<1>2. /\ interrupts \in Nat /\ expiries \in Nat /\ Shape
      /\ def \in Flows /\ NoStep \notin DOMAIN def.steps
  BY EngineAssumption DEF Steady, Shape, TypeOK
<1>3. ASSUME Interrupt \/ InterruptEntering \/ Expire PROVE FALSE
  <2>1. interrupts' = interrupts + 1 \/ expiries' = expiries + 1
    BY <1>3 DEF Interrupt, InterruptEntering, Stop, Expire
  <2> QED
    BY <1>2, <2>1 DEF Undisturbed
<1>4. ASSUME ResetFlow \/ ToggleActive \/ \E f \in Flows : Publish(f) \/ Attach(f) PROVE FALSE
  BY <1>1, <1>4 DEF ResetFlow, ToggleActive, Publish, Attach, Change, Undisturbed
<1>5. Guiding
  BY <1>1 DEF Guiding
<1>6. ASSUME UNCHANGED bounds
      PROVE  Undisturbed /\ IF meta.edit_one_mode THEN Mending ELSE Filling
  <2>1. Undisturbed
    BY <1>6 DEF bounds, Undisturbed
  <2> QED
    BY <1>5, <2>1 DEF Guarded, Guiding
<1>7. ASSUME NEW m, Receive(m) PROVE Guarded'
  <2>1. /\ UNCHANGED <<bounds, user, meta, history, step>>
        /\ pc = "idle" /\ pc' = "dispatch"
    BY <1>7 DEF Receive, session, world
  <2>2. Following = Current
    BY <2>1 DEF Following, Current
  <2> QED
    BY <1>1, <1>5, <1>6, <2>1, <2>2, GuardedStays
<1>8. ASSUME Passive \/ Blocked \/ Release PROVE Guarded'
  <2>1. /\ UNCHANGED <<bounds, user, meta, history, step>>
        /\ pc # "enter" /\ pc' # "enter"
    <3>1. CASE Passive \/ Blocked
      BY <3>1 DEF Passive, Blocked, Rest, session, world
    <3>2. CASE Release
      BY <3>2 DEF Release, session, world
    <3> QED
      BY <1>8, <3>1, <3>2
  <2>2. Following = Current
    BY <2>1 DEF Following, Current
  <2> QED
    BY <1>1, <1>5, <1>6, <2>1, <2>2, GuardedStays
<1>9. CASE GoBack
  <2>1. /\ UNCHANGED <<bounds, user, meta>> /\ pc = "dispatch" /\ BackAsked
        /\ pc' = "enter" /\ at' = Previous /\ Previous # NoStep /\ history' = HistoryLeft
    BY <1>9 DEF GoBack, Dispatching, StartChain, world
  <2>2. ~meta.edit_one_mode
    BY <1>5, <1>6, <2>1, MendingAnswers
  <2>3. \E k \in DOMAIN history : Following = history[k]
    BY <1>2, <2>1, PreviousRecalled DEF Following
  <2>4. \A i \in DOMAIN history' : \E k \in DOMAIN history : history'[i] = history[k]
    BY <1>2, <2>1, LeftRecalled
  <2> QED
    BY <1>1, <1>5, <1>6, <2>1, <2>2, <2>3, <2>4, GuardedStays
<1>10. CASE Start \/ StartOver
  <2>1. /\ UNCHANGED <<bounds, user, meta, history>> /\ pc = "dispatch"
        /\ pc' = "enter" /\ at' = FirstStep
        /\ Standing = NoStep \/ Standing \notin DOMAIN flow.steps
    BY <1>10 DEF Start, StartOver, GoingOn, Dispatching, StartChain, world
  <2>2. ~meta.edit_one_mode
    BY <1>5, <1>6, <2>1, MendingAnswers
  <2>3. FirstStep \in FirstSteps(def)
    <3>1. FirstStep \in FirstSteps(flow)
      BY DEF FirstStep, FirstSteps
    <3> QED
      BY <1>1, <3>1
  <2>4. FirstSteps(def) \cap DOMAIN def.steps \subseteq BeforeOf(def)
    BY <1>5, WhoIsGuided, BeforeIsFirst
  <2>5. ~Behind(Following)
    BY <2>1, <2>3, <2>4 DEF Behind, Following
  <2> QED
    BY <1>1, <1>5, <1>6, <2>1, <2>2, <2>5, GuardedStays
<1>11. CASE Answer
  <2>1. /\ UNCHANGED <<bounds, user, meta, step>> /\ pc = "dispatch"
        /\ pc' = "input" /\ history' = HistoryLeft
    BY <1>11 DEF Answer, GoingOn, Dispatching, world
  <2>2. Following = Current
    BY <2>1 DEF Following, Current
  <2>3. \A i \in DOMAIN history' : \E k \in DOMAIN history : history'[i] = history[k]
    BY <1>2, <2>1, LeftRecalled
  <2> QED
    BY <1>1, <1>5, <1>6, <2>1, <2>2, <2>3, GuardedStays
<1>12. CASE pc = "input" /\ ProcessInput
  <2>1. UNCHANGED bounds
    BY <1>12 DEF ProcessInput
  <2>2. GuardedAfter
    BY <1>5, <1>6, <1>12, <2>1, MendingInput, FillingInput
  <2> QED
    BY <1>1, <2>2, GuardedNext
<1>13. CASE pc = "exec" /\ Execute
  <2>1. UNCHANGED bounds
    BY <1>13 DEF Execute
  <2>2. GuardedAfter
    BY <1>5, <1>6, <1>13, <2>1, MendingExecute, FillingExecute DEF GuardedAfter
  <2> QED
    BY <1>1, <2>2, GuardedNext
<1>14. CASE StopLoop \/ EnterNowhere
  <2>1. /\ UNCHANGED <<bounds, user, meta, history>> /\ pc = "enter"
        /\ pc' = "release" /\ step' = NoStep
        /\ count >= MaxSteps \/ at \notin DOMAIN def.steps
    BY <1>14 DEF StopLoop, EnterNowhere, Rest, world
  <2>2. ~meta.edit_one_mode
    <3>1. IsWho(def, WhoOf(def)) /\ MaxSteps \in Nat \ {0}
      BY <1>5, WhoIsGuided, EngineAssumption
    <3>2. Mending => at = WhoOf(def) /\ count = 0
      BY <2>1 DEF Mending, Current
    <3> QED
      BY <1>6, <2>1, <3>1, <3>2 DEF IsWho
  <2>3. ~Behind(Following)
    BY <1>2, <2>1 DEF Behind, Following
  <2> QED
    BY <1>1, <1>5, <1>6, <2>1, <2>2, <2>3, GuardedStays
<1>15. CASE EnterStep
  <2>1. /\ UNCHANGED <<bounds, user, meta>> /\ pc = "enter" /\ at \in DOMAIN def.steps
        /\ pc' = "exec" /\ step' = at /\ history' = Listed
    BY <1>15 DEF EnterStep, world
  <2>2. Following = Current /\ Current = at
    BY <2>1 DEF Following, Current
  <2>3. \A i \in DOMAIN history' :
          history'[i] = Current \/ \E k \in DOMAIN history : history'[i] = history[k]
    BY <1>2, <2>1, <2>2, ListedRecalled
  <2> QED
    BY <1>1, <1>5, <1>6, <2>1, <2>2, <2>3, GuardedStays
<1>16. CASE Unblock \/ UNCHANGED vars
  <2>1. UNCHANGED <<bounds, pc, at, count, meta, history, step>>
    BY <1>16 DEF Unblock, vars, session, work
  <2>2. user'.name = user.name /\ user'.metadata = user.metadata
    BY <1>2, <1>16 DEF Unblock, vars, world, Shape, UserOK
  <2>3. Following = Current
    BY <2>1 DEF Following, Current
  <2>4. ASSUME NEW key, Stored(user, key) PROVE Stored(user', key)
    BY <2>2, <2>4 DEF Stored
  <2>5. meta.edit_one_mode => (pc' = "enter" => count' = 0)
    BY <1>6, <2>1 DEF Mending
  <2> QED
    BY <1>1, <1>5, <1>6, <2>1, <2>3, <2>4, <2>5, GuardedStays
<1> QED
  BY <1>3, <1>4, <1>7, <1>8, <1>9, <1>10, <1>11, <1>12, <1>13, <1>14, <1>15, <1>16 DEF Next, Work,
     Interfere, ProcessInput, Execute

LEMMA CompleteIsFilled ==
  ASSUME Guiding, NEW u, Complete(u)
  PROVE  Filled(u, Vars(Asked))
<1> SUFFICES ASSUME NEW key \in Vars(Asked) PROVE Get(u, key) # ""
  BY DEF Filled
<1>1. key \in {"name"} \cup PlainKeys /\ Stored(u, key)
  BY AskedSpan DEF Complete
<1> QED
  BY <1>1, StoredIsRead

LEMMA InitGuarded ==
  ASSUME GuidedIdentifications, Init
  PROVE  Columns /\ Given /\ Guarded
<1>1. /\ pc = "idle" /\ step = NoStep /\ history = <<>> /\ changes = 0
      /\ meta = NoMetadata(StepIds) /\ user = NewContact(HomeContact)
  BY DEF Init
<1>2. meta.edit_one_mode = FALSE /\ meta.field_idx = 0
  BY <1>1 DEF NoMetadata
<1>3. Columns
  BY <1>1 DEF Columns, NewContact
<1>4. Given
  BY <1>1 DEF Given
<1>5. ASSUME HasWho(def) PROVE Filling
  <2>1. Guiding
    BY <1>1, <1>3, <1>4, <1>5, InitSteady DEF Guiding
  <2>2. \A i \in DOMAIN Asked : ~(i <= 0)
    BY <2>1, AskedSpan
  <2>3. DOMAIN history = {}
    BY <1>1, EmptySeq
  <2>4. ~Behind(Current)
    BY <1>1, <2>1, EngineAssumption DEF Guiding, Steady, Shape, TypeOK, Current, Behind
  <2> QED
    BY <1>2, <2>2, <2>3, <2>4 DEF Filling
<1> QED
  BY <1>2, <1>3, <1>4, <1>5 DEF Guarded

\* An identification that leads on has got a value for every field.
LEMMA EndsComplete ==
  ASSUME Guiding, Undisturbed, Guarded, pc = "input", Here.type = "CUSTOMER_IDENTIFICATION",
         ProcessInput, at' # at
  PROVE  Filled(user', Vars(Here.fields))
<1>1. /\ IF meta.edit_one_mode THEN Mending ELSE Filling
      /\ Shape /\ count = 0
  BY DEF Guarded, Guiding, Steady, Given
<1>2. Here.fields = Asked /\ IdentificationInput
  BY <1>1, WhoAsks, InputByType DEF DeafTypes
<1>3. CASE IdentificationLost
  <2>1. user' = user /\ meta.field_idx >= Len(Asked)
    BY <1>2, <1>3 DEF IdentificationLost, world
  <2>2. ~(meta.field_idx + 1 \in DOMAIN Asked)
    BY <2>1, AskedSpan DEF Guiding, Steady, Shape, TypeOK, Metadata
  <2>3. Complete(user)
    BY <1>1, <2>1, <2>2, NoneLeft DEF Mending
  <2> QED
    BY <2>1, <2>3, CompleteIsFilled, <1>2
<1>4. CASE IdentificationRejected
  BY <1>4 DEF IdentificationRejected, Continue
<1>5. CASE IdentificationAccepted
  <2>1. meta.edit_one_mode \/ meta.field_idx + 1 >= Len(Asked)
    BY <1>2, <1>5 DEF IdentificationAccepted, Continue
  <2>2. Complete(user')
    BY <1>1, <1>5, <2>1, AnswerCompletes
  <2> QED
    BY <1>2, <2>2, CompleteIsFilled
<1> QED
  BY <1>2, <1>3, <1>4, <1>5 DEF IdentificationInput

\* Only an answer leads on from there.
LEMMA NextCompletes ==
  ASSUME GuidedIdentifications, Steady, Columns, Given, Guarded, [Next]_vars,
         pc = "input", Here.type = "CUSTOMER_IDENTIFICATION", pc' = "enter", at' # at, Undisturbed
  PROVE  Filled(user', Vars(Here.fields))
<1>1. IsWho(def, at)
  BY HereIsStep DEF Steady, Shape, TypeOK, IsWho, Here
<1>2. Guiding
  <2>1. HasWho(def)
    BY <1>1 DEF HasWho, IsWho
  <2> QED
    BY <2>1 DEF Guiding, Undisturbed
<1>3. CASE ProcessInput
  BY <1>2, <1>3, EndsComplete
<1>4. ASSUME NEW m, Receive(m) PROVE FALSE
  BY <1>4 DEF Receive
<1>5. ASSUME Passive \/ Blocked \/ GoBack \/ Start \/ StartOver \/ Answer \/ Release PROVE FALSE
  BY <1>5 DEF Passive, Blocked, GoBack, Start, StartOver, Answer, GoingOn, Dispatching, Release
<1>6. ASSUME StopLoop \/ EnterNowhere \/ EnterStep \/ Execute PROVE FALSE
  BY <1>6 DEF StopLoop, EnterNowhere, EnterStep, Execute
<1>7. ASSUME Interrupt \/ InterruptEntering \/ Expire PROVE FALSE
  BY <1>7 DEF Interrupt, InterruptEntering, Stop, Expire
<1>8. ASSUME Unblock \/ ResetFlow \/ ToggleActive \/ \E f \in Flows : Publish(f) \/ Attach(f)
      PROVE  FALSE
  BY <1>8 DEF Unblock, ResetFlow, ToggleActive, Publish, Attach, Change
<1>9. CASE UNCHANGED vars
  BY <1>9 DEF vars
<1> QED
  BY <1>3, <1>4, <1>5, <1>6, <1>7, <1>8, <1>9 DEF Next, Work, Interfere

\* When an identification ends, every field of it has a value, also after a
\* correction, if the flow leads past it in one way only: "back" does not leave
\* it, reviews send the customer nowhere else, and nothing else writes or
\* empties its fields (customer-identification.handler.ts:23-72, 74-132,
\* review.handler.ts:136-171).
THEOREM IdentificationCompleteHolds ==
  ASSUME GuidedIdentifications
  PROVE  Spec => IdentificationComplete
<1> DEFINE Completes ==
      pc = "input" /\ Here.type = "CUSTOMER_IDENTIFICATION" /\ pc' = "enter" /\ at' # at
        /\ Undisturbed
        => Filled(user', Vars(Here.fields))
<1>1. Steady /\ Columns /\ Given /\ Guarded /\ [Next]_vars => Columns' /\ Given' /\ Guarded'
  BY NextColumns, NextGiven, NextGuarded DEF Steady
<1>2. Steady /\ Columns /\ Given /\ Guarded /\ [Next]_vars => [Completes]_vars
  BY NextCompletes
<1>3. Init => Columns /\ Given /\ Guarded
  BY InitGuarded
<1> QED
  BY <1>1, <1>2, <1>3, InitSteady, NextSteady, PTL DEF Spec, IdentificationComplete
=============================================================================
