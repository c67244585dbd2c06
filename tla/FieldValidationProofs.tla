----------------------- MODULE FieldValidationProofs -----------------------
(***************************************************************************)
(* The two CPF checks of FieldValidation are the same function, for every  *)
(* eleven digits; the dates that are accepted are those of the calendar,   *)
(* for every day, month and year; and what is stored is in a normal form,  *)
(* for every text.                                                         *)
(***************************************************************************)
EXTENDS FieldAnswers, TLAPS

\* A text being judged, or stored, is an answer; what is stored is what the
\* service made of it.
Judged ==
  /\ expected \in ExpectedTypes
  /\ typed \in Answers \cup {NoText}
  /\ phase = "asked" => typed = NoText /\ stored = {}
  /\ phase = "stored" => stored = ValidateAndFormat(expected, typed) /\ stored # {}
  /\ phase # "stored" => stored = {}

LEMMA JudgedHolds == Spec => []Judged
<1>1. Init => Judged
  BY DEF Init, Judged
<1>2. Judged /\ [Next]_vars => Judged'
  <2> SUFFICES ASSUME Judged, [Next]_vars PROVE Judged'
    OBVIOUS
  <2>1. ASSUME Ask PROVE Judged'
    BY <2>1 DEF Ask, Judged
  <2>2. CASE Answer
    BY <2>2 DEF Answer, Judged
  <2>3. CASE Accept
    BY <2>3 DEF Accept, Judged
  <2>4. CASE UNCHANGED vars
    BY <2>4 DEF vars, Judged
  <2> QED
    BY <2>1, <2>2, <2>3, <2>4 DEF Next, Reject, GoOn
<1> QED
  BY <1>1, <1>2, PTL DEF Spec

\* A text of digits, and no text, can be read.
LEMMA AnswersReadable == \A t \in Answers \cup {NoText} : Readable(t)
<1>1. ASSUME NEW digits PROVE Readable(DigitText(digits))
  <2>1. /\ DOMAIN DigitText(digits) = DOMAIN Plain
        /\ DigitText(digits).date = <<>> /\ DigitText(digits).number = {}
    BY DEF DigitText, Plain
  <2> QED
    BY <2>1 DEF Readable
<1>2. Readable(NoText)
  <2>1. DOMAIN NoText = DOMAIN Plain /\ NoText.date = <<>> /\ NoText.number = {}
    BY DEF NoText, Plain
  <2> QED
    BY <2>1 DEF Readable
<1> QED
  BY <1>1, <1>2, TypedAssumption DEF Answers, Numbers

-----------------------------------------------------------------------------
\* Documents.

\* Ten times a sum and minus the sum leave the same remainder by 11, up to
\* the values 10 and 11 that both sides make 0.
LEMMA SameCheckDigit ==
  ASSUME NEW sum \in Nat
  PROVE  Remainder(sum) = Rev(sum)
<1> DEFINE q == sum \div 11
           m == sum % 11
<1>1. sum = 11 * q + m /\ m \in 0 .. 10 /\ q \in Nat
  OBVIOUS
<1>2. (sum * 10) % 11 = (m * 10) % 11
  <2>1. sum * 10 = 11 * (q * 10) + m * 10
    BY <1>1
  <2> QED
    BY <1>1, <2>1
<1> HIDE DEF q, m
<1>3. (m * 10) % 11 = IF m = 0 THEN 0 ELSE 11 - m
  BY <1>1
<1> QED
  BY <1>1, <1>2, <1>3 DEF Remainder, Rev, m

LEMMA SumsAreNaturals ==
  ASSUME NEW d \in [1 .. 11 -> Digit]
  PROVE  NineSum(d) \in Nat /\ TenSum(d) \in Nat
<1>1. \A i \in 1 .. 11 : d[i] \in Nat
  BY DEF Digit
<1> QED
  BY <1>1 DEF NineSum, TenSum

LEMMA SameCpfs ==
  ASSUME NEW d \in Documents
  PROVE  ValidateAndFormat("CPF_CNPJ", DigitText(d)) # {} <=> ValidateField("CPF", DigitText(d))
<1>1. d \in [1 .. 11 -> Digit]
  BY DocumentsAssumption
<1>2. Remainder(NineSum(d)) = Rev(NineSum(d)) /\ Remainder(TenSum(d)) = Rev(TenSum(d))
  BY <1>1, SumsAreNaturals, SameCheckDigit
<1>3. IsValidCpf(d) <=> IsValidCpfOfField(d)
  BY <1>2 DEF IsValidCpf, IsValidCpfOfField
<1>4. ~IsValidCnpj(d)
  <2>1. Len(d) = 11
    BY <1>1
  <2> QED
    BY <2>1 DEF IsValidCnpj
<1>5. DigitText(d).digits = d /\ DigitText(d).blank = FALSE
  BY DEF DigitText, Plain
<1>6. ValidateAndFormat("CPF_CNPJ", DigitText(d)) # {} <=> IsValidCpf(d)
  <2>1. ValidateAndFormat("CPF_CNPJ", DigitText(d)) = ValidateCpfCnpj(DigitText(d))
    BY <1>5 DEF ValidateAndFormat
  <2> QED
    BY <1>4, <1>5, <2>1 DEF ValidateCpfCnpj
<1>7. ValidateField("CPF", DigitText(d)) <=> IsValidCpfOfField(d)
  BY <1>5 DEF ValidateField
<1> QED
  BY <1>3, <1>6, <1>7

\* INPUT and CUSTOMER_IDENTIFICATION accept the same CPFs, whatever the
\* documents.
THEOREM CpfChecksAgreeHolds == Spec => []CpfChecksAgree
<1>1. Judged => CpfChecksAgree
  BY SameCpfs DEF CpfChecksAgree, Numbers
<1> QED
  BY <1>1, JudgedHolds, PTL

-----------------------------------------------------------------------------
\* Dates.

Month == 1 .. 12
TwoDigitNumber == 0 .. 99
Year == 1900 .. 2100

LEMMA DaysInFits ==
  ASSUME NEW y, NEW m
  PROVE  DaysIn(y, m) \in 28 .. 31
BY DEF DaysIn

LEMMA CarriedMonthFits ==
  ASSUME NEW y \in Nat, NEW m \in TwoDigitNumber
  PROVE  /\ CarriedMonth(y, m)[2] \in Month
         /\ m \in Month => CarriedMonth(y, m) = <<y, m>>
<1> USE DEF Month, TwoDigitNumber
<1>1. CASE m = 0
  BY <1>1 DEF CarriedMonth
<1>2. CASE m # 0
  <2>1. (m - 1) % 12 \in 0 .. 11
    BY <1>2
  <2>2. m \in 1 .. 12 => (m - 1) \div 12 = 0 /\ (m - 1) % 12 = m - 1
    OBVIOUS
  <2> QED
    BY <1>2, <2>1, <2>2 DEF CarriedMonth
<1> QED
  BY <1>1, <1>2

\* A day that is not carried over is a day of its month.
LEMMA DayKept ==
  ASSUME NEW y \in Nat, NEW m \in Month, NEW d \in TwoDigitNumber,
         CarriedDay(y, m, d)[3] = d
  PROVE  d \in 1 .. DaysIn(y, m) /\ CarriedDay(y, m, d) = <<y, m, d>>
<1> DEFINE month(n) == CarriedMonth(y, m + n)
           days(n) == DaysIn(month(n)[1], month(n)[2])
           before == <<0, days(0), days(0) + days(1), days(0) + days(1) + days(2),
                       days(0) + days(1) + days(2) + days(3)>>
           k == CHOOSE n \in 0 .. 3 : before[n + 1] < d /\ d <= before[n + 2]
<1>1. CarriedDay(y, m, d) = IF d = 0 THEN <<month(-1)[1], month(-1)[2], days(-1)>>
                            ELSE <<month(k)[1], month(k)[2], d - before[k + 1]>>
  BY DEF CarriedDay
<1>2. month(0) = <<y, m>>
  <2>1. m + 0 = m /\ m \in TwoDigitNumber
    BY DEF Month, TwoDigitNumber
  <2> QED
    BY <2>1, CarriedMonthFits
<1>3. /\ days(-1) \in 28 .. 31 /\ days(0) \in 28 .. 31 /\ days(1) \in 28 .. 31
      /\ days(2) \in 28 .. 31 /\ days(3) \in 28 .. 31
  BY DaysInFits
<1>4. days(0) = DaysIn(y, m)
  BY <1>2
<1> HIDE DEF month, days
<1>5. d # 0
  BY <1>1, <1>3
<1>6. /\ before[1] = 0 /\ before[2] = days(0) /\ before[3] = days(0) + days(1)
      /\ before[4] = days(0) + days(1) + days(2)
      /\ before[5] = days(0) + days(1) + days(2) + days(3)
  OBVIOUS
<1> HIDE DEF before
<1>7. \E n \in 0 .. 3 : before[n + 1] < d /\ d <= before[n + 2]
  <2> USE DEF TwoDigitNumber
  <2>1. CASE d <= before[2]
    BY <1>3, <1>5, <1>6, <2>1
  <2>2. CASE before[2] < d /\ d <= before[3]
    BY <2>2
  <2>3. CASE before[3] < d /\ d <= before[4]
    BY <2>3
  <2>4. CASE before[4] < d
    BY <1>3, <1>6, <2>4
  <2> QED
    BY <1>3, <1>6, <2>1, <2>2, <2>3, <2>4
<1>8. k \in 0 .. 3 /\ before[k + 1] < d /\ d <= before[k + 2]
  BY <1>7
<1> HIDE DEF k
<1>9. d - before[k + 1] = d
  BY <1>1, <1>5
<1>10. k = 0
  BY <1>3, <1>6, <1>8, <1>9 DEF TwoDigitNumber
<1>11. d <= days(0) /\ CarriedDay(y, m, d) = <<y, m, d>>
  BY <1>1, <1>2, <1>5, <1>6, <1>8, <1>10
<1>12. d \in 1 .. days(0)
  BY <1>3, <1>5, <1>11 DEF TwoDigitNumber
<1> QED
  BY <1>4, <1>11, <1>12

\* A date is taken over unchanged by JavaScript's Date only if the calendar
\* has it.
LEMMA KeptDatesExist ==
  ASSUME NEW y \in Year, NEW m \in TwoDigitNumber, NEW d \in TwoDigitNumber,
         JsDate(y, m, d) = <<y, m, d>>
  PROVE  m \in Month /\ d \in 1 .. DaysIn(y, m)
<1>1. PICK a, b : a = CarriedMonth(y, m)[1] /\ b = CarriedMonth(y, m)[2]
  OBVIOUS
<1>2. JsDate(y, m, d) = CarriedDay(a, b, d)
  BY <1>1 DEF JsDate, Year
<1>3. a \in Nat /\ b \in Month
  <2>1. CASE m = 0
    BY <1>1, <2>1 DEF CarriedMonth, Month, Year
  <2>2. CASE m # 0
    <3>1. (m - 1) \div 12 \in Nat /\ (m - 1) % 12 \in 0 .. 11
      BY <2>2 DEF TwoDigitNumber
    <3> QED
      BY <1>1, <2>2, <3>1 DEF CarriedMonth, Month, Year
  <2> QED
    BY <2>1, <2>2
<1>4. CarriedDay(a, b, d)[3] = d
  BY <1>2
<1>5. d \in 1 .. DaysIn(a, b) /\ CarriedDay(a, b, d) = <<a, b, d>>
  BY <1>3, <1>4, DayKept
<1>6. a = y /\ b = m
  BY <1>2, <1>5
<1> QED
  BY <1>3, <1>5, <1>6

LEMMA AcceptedIsOfCalendar ==
  ASSUME NEW t, Readable(t), ValidateAndFormat("DATE", t) # {}
  PROVE  OfCalendar(t.date)
<1>1. t.date # <<>>
  BY DEF ValidateAndFormat, ValidateDate
<1>2. PICK d, m, y : d = t.date[1] /\ m = t.date[2] /\ y = t.date[3]
  OBVIOUS
<1>3. JsDate(y, m, d) = <<y, m, d>> /\ y \in Year
  BY <1>2 DEF ValidateAndFormat, ValidateDate, Year
<1>4. m \in TwoDigitNumber /\ d \in TwoDigitNumber
  BY <1>1, <1>2 DEF Readable, TwoDigitNumber
<1>5. m \in Month /\ d \in 1 .. DaysIn(y, m)
  BY <1>3, <1>4, KeptDatesExist
<1> QED
  BY <1>2, <1>5 DEF Month, OfCalendar

\* No date is accepted that the calendar does not have, whatever day, month
\* and year are written (field-validator.service.ts, validateDate).
THEOREM AcceptedDatesExistHolds == Spec => []AcceptedDatesExist
<1>1. Judged => AcceptedDatesExist
  BY AcceptedIsOfCalendar, AnswersReadable DEF Judged, AcceptedDatesExist
<1> QED
  BY <1>1, JudgedHolds, PTL

-----------------------------------------------------------------------------
\* Normal forms.

LEMMA OnlyDigitsSeen ==
  ASSUME NEW digits
  PROVE  /\ OnlyDigits(digits).digits = digits /\ OnlyDigits(digits).blank = FALSE
         /\ OnlyDigits(digits).number = {Significant(digits)}
BY DEF OnlyDigits, DigitText, Plain

LEMMA DateSeen ==
  ASSUME NEW d, NEW m, NEW y
  PROVE  DateText(d, m, y).date = <<d, m, y>> /\ DateText(d, m, y).blank = FALSE
BY DEF DateText, DigitText, Plain

LEMMA ValidatedTwice ==
  ASSUME NEW type \in ExpectedTypes, NEW t, Readable(t), NEW v \in ValidateAndFormat(type, t)
  PROVE  ValidateAndFormat(type, v) = {v}
<1>1. t.blank # TRUE /\ Readable(t)
  BY DEF ValidateAndFormat
<1>2. CASE type = "EMAIL"
  <2>1. t.email /\ v = [t EXCEPT !.lower = TRUE]
    BY <1>1, <1>2 DEF ValidateAndFormat, ValidateEmail
  <2>2. DOMAIN t = {"blank", "lower", "digits", "chars", "email", "number", "date", "time"}
    BY <1>1 DEF Readable, Plain
  <2>3. v.email = t.email /\ v.blank = t.blank
    BY <2>1, <2>2
  <2>4. [v EXCEPT !.lower = TRUE] = v
    BY <2>1, <2>2
  <2> QED
    BY <1>1, <1>2, <2>1, <2>3, <2>4 DEF ValidateAndFormat, ValidateEmail
<1>3. CASE type = "PHONE"
  <2>1. Len(t.digits) \in 10 .. 15 /\ v = OnlyDigits(t.digits)
    BY <1>1, <1>3 DEF ValidateAndFormat, ValidatePhone
  <2> QED
    BY <1>3, <2>1, OnlyDigitsSeen DEF ValidateAndFormat, ValidatePhone
<1>4. CASE type = "CPF_CNPJ"
  <2>1. (IsValidCpf(t.digits) \/ IsValidCnpj(t.digits)) /\ v = OnlyDigits(t.digits)
    BY <1>1, <1>4 DEF ValidateAndFormat, ValidateCpfCnpj
  <2> QED
    BY <1>4, <2>1, OnlyDigitsSeen DEF ValidateAndFormat, ValidateCpfCnpj
<1>5. CASE type = "NUMBER"
  <2>1. PICK n \in t.number : v = OnlyDigits(n)
    BY <1>1, <1>5 DEF ValidateAndFormat, ValidateNumber
  <2>2. Significant(n) = n
    BY <1>1, <2>1 DEF Readable
  <2>3. v.number = {n} /\ v.blank = FALSE
    BY <2>1, <2>2, OnlyDigitsSeen
  <2> QED
    BY <1>5, <2>1, <2>3 DEF ValidateAndFormat, ValidateNumber
<1>6. CASE type = "CEP"
  <2>1. Len(t.digits) = 8 /\ v = OnlyDigits(t.digits)
    BY <1>1, <1>6 DEF ValidateAndFormat, ValidateCep
  <2> QED
    BY <1>6, <2>1, OnlyDigitsSeen DEF ValidateAndFormat, ValidateCep
<1>7. CASE type = "LICENSE_PLATE"
  <2> DEFINE plate(u) == [Plain EXCEPT !.lower = FALSE, !.digits = u.digits, !.chars = u.chars]
             fits(u) == /\ Len(u.chars) = 7
                        /\ \A i \in 1 .. 3 : u.chars[i] = "letter"
                        /\ \A i \in {4, 6, 7} : u.chars[i] = "digit"
  <2>1. fits(t) /\ v = plate(t)
    BY <1>1, <1>7 DEF ValidateAndFormat, ValidateLicensePlate
  <2>2. v.chars = t.chars /\ v.digits = t.digits /\ v.blank = FALSE
    BY <2>1 DEF Plain
  <2>3. fits(v) /\ plate(v) = v
    BY <2>1, <2>2
  <2> QED
    BY <1>7, <2>2, <2>3 DEF ValidateAndFormat, ValidateLicensePlate
<1>8. CASE type = "DATE"
  <2> DEFINE d == t.date[1]
             m == t.date[2]
             y == t.date[3]
  <2>1. JsDate(y, m, d) = <<y, m, d>> /\ y \in 1900 .. 2100 /\ v = DateText(d, m, y)
    BY <1>1, <1>8 DEF ValidateAndFormat, ValidateDate
  <2> HIDE DEF d, m, y
  <2> DEFINE text == DateText(d, m, y)
  <2>2. text.date = <<d, m, y>> /\ text.blank = FALSE
    BY DateSeen
  <2>3. v.date = <<d, m, y>> /\ v.blank = FALSE
    BY <2>1, <2>2
  <2>4. v.date # <<>> /\ v.date[1] = d /\ v.date[2] = m /\ v.date[3] = y
    BY <2>3
  <2> QED
    BY <1>8, <2>1, <2>3, <2>4 DEF ValidateAndFormat, ValidateDate
<1>9. CASE type = "TIME"
  <2> DEFINE h == t.time[1]
             m == t.time[2]
             text == [DigitText(TwoDigits(h) \o TwoDigits(m)) EXCEPT !.time = <<h, m>>]
  <2>1. h \in 0 .. 23 /\ m \in 0 .. 59 /\ v = text
    BY <1>1, <1>9 DEF ValidateAndFormat, ValidateTime
  <2>2. v.time = <<h, m>> /\ v.blank = FALSE
    BY <2>1 DEF DigitText, Plain
  <2> HIDE DEF h, m
  <2>3. v.time # <<>> /\ v.time[1] = h /\ v.time[2] = m
    BY <2>2
  <2> QED
    BY <1>9, <2>1, <2>2, <2>3 DEF ValidateAndFormat, ValidateTime
<1>10. CASE type = "TEXT"
  BY <1>1, <1>10 DEF ValidateAndFormat
<1> QED
  BY <1>2, <1>3, <1>4, <1>5, <1>6, <1>7, <1>8, <1>9, <1>10 DEF ExpectedTypes

\* What a step stores would be accepted as it is, for every expected type and
\* every text: validating is idempotent (field-validator.service.ts).
THEOREM StoredIsNormalHolds == Spec => []StoredIsNormal
<1>1. Judged => StoredIsNormal
  BY ValidatedTwice, AnswersReadable DEF Judged, StoredIsNormal
<1> QED
  BY <1>1, JudgedHolds, PTL
=============================================================================
