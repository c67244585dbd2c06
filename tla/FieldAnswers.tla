---------------------------- MODULE FieldAnswers ----------------------------
(***************************************************************************)
(* The field of an INPUT step and the answers it gets: the customer types  *)
(* something, FieldValidatorService judges it, and InputHandler stores     *)
(* what the service made of it or asks again.  After maxRetries answers,   *)
(* and after a stored one, another question follows.                       *)
(***************************************************************************)
EXTENDS FieldValidation

CONSTANTS Documents,  \* eleven digits each
          Typed       \* other texts customers type

ASSUME DocumentsAssumption == Documents \subseteq [1 .. 11 -> Digit]
ASSUME TypedAssumption == \A t \in Typed : Readable(t)

VARIABLES expected,  \* expectedType of the step
          phase,     \* "asked", "typed" or "stored"
          typed,     \* what the customer typed
          stored     \* the value of the field: one, or none yet

vars == <<expected, phase, typed, stored>>

NoText == [Plain EXCEPT !.blank = TRUE]
Numbers == {DigitText(d) : d \in Documents}
Answers == Typed \cup Numbers

Init == expected \in ExpectedTypes /\ phase = "asked" /\ typed = NoText /\ stored = {}

\* The question is asked, the same again or another one.
Ask == expected' \in ExpectedTypes /\ phase' = "asked" /\ typed' = NoText /\ stored' = {}

Answer ==
  /\ phase = "asked"
  /\ phase' = "typed" /\ typed' \in Answers
  /\ UNCHANGED <<expected, stored>>

Accept ==
  /\ phase = "typed" /\ ValidateAndFormat(expected, typed) # {}
  /\ phase' = "stored" /\ stored' = ValidateAndFormat(expected, typed)
  /\ UNCHANGED <<expected, typed>>

Reject == phase = "typed" /\ ValidateAndFormat(expected, typed) = {} /\ Ask

GoOn == phase = "stored" /\ Ask

Next == Answer \/ Accept \/ Reject \/ GoOn

Spec == Init /\ [][Next]_vars

-----------------------------------------------------------------------------
\* An answer of eleven digits gets into a CPF_CNPJ field if and only if the
\* CPF field of an identification would take it: the two implementations of
\* the check digits (field-validator.service.ts:86-98 and
\* customer-identification.handler.ts) agree.
CpfChecksAgree ==
  expected = "CPF_CNPJ" /\ typed \in Numbers =>
    (ValidateAndFormat(expected, typed) # {} <=> ValidateField("CPF", typed))

\* What is stored would be accepted as it is, if it were typed: a correction,
\* or a second step that asks for it, takes it unchanged.
StoredIsNormal == \A v \in stored : ValidateAndFormat(expected, v) = {v}

\* Day, month and year of a day of the calendar.
OfCalendar(date) == date[2] \in 1 .. 12 /\ date[1] \in 1 .. DaysIn(date[3], date[2])

\* JavaScript's Date accepts every day and month and carries it over; a date
\* is stored only if the calendar has it ("não existe no calendário").
AcceptedDatesExist == phase = "stored" /\ expected = "DATE" => OfCalendar(typed.date)
=============================================================================
