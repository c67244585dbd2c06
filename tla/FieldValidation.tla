-------------------------- MODULE FieldValidation --------------------------
(***************************************************************************)
(* The two places that judge what a customer typed: FieldValidatorService, *)
(* for INPUT steps, and the checks of CustomerIdentificationHandler.       *)
(*                                                                         *)
(* A text is what their expressions see of it: its digits, its letters and *)
(* digits, the number (in decimal digits; only naturals here), the date    *)
(* and the time it reads as.  A validation is the set of values it accepts *)
(* the text as: one, or none.                                              *)
(***************************************************************************)
EXTENDS Integers, Sequences, FiniteSets

Digit == 0 .. 9

\* The decimal digits of a number.
Decimal[n \in Nat] == IF n < 10 THEN <<n>> ELSE Append(Decimal[n \div 10], n % 10)

\* A text that is nothing special.
Plain == [blank |-> FALSE, lower |-> TRUE, digits |-> <<>>, chars |-> <<>>,
          email |-> FALSE, number |-> {}, date |-> <<>>, time |-> <<>>]

\* A text of digits and of characters that are neither digit nor letter.
DigitText(digits) == [Plain EXCEPT !.digits = digits, !.chars = [i \in DOMAIN digits |-> "digit"]]

\* A number written in decimal: no zeros before it.
Significant(digits) ==
  LET kept == {i \in DOMAIN digits : \E j \in 1 .. i : digits[j] # 0}
  IN  IF kept = {} THEN <<0>> ELSE [k \in 1 .. Cardinality(kept) |-> digits[Len(digits) - Cardinality(kept) + k]]

\* A text of digits only, which reads as a number.
OnlyDigits(digits) == [DigitText(digits) EXCEPT !.number = {Significant(digits)}]

\* What the expressions can see: a date has two digits for its day and its
\* month, and a number prints without zeros before it.
Readable(t) ==
  /\ DOMAIN t = DOMAIN Plain
  /\ t.date # <<>> => /\ t.date \in [1 .. 3 -> Nat]
                       /\ t.date[1] \in 0 .. 99 /\ t.date[2] \in 0 .. 99
  /\ \A n \in t.number : Significant(n) = n

AllTheSame(d) == \A i, j \in DOMAIN d : d[i] = d[j]

-----------------------------------------------------------------------------
(* FieldValidatorService *)

NineSum(d) ==
  d[1] * 10 + d[2] * 9 + d[3] * 8 + d[4] * 7 + d[5] * 6 + d[6] * 5 + d[7] * 4 + d[8] * 3 + d[9] * 2

TenSum(d) ==
  d[1] * 11 + d[2] * 10 + d[3] * 9 + d[4] * 8 + d[5] * 7 + d[6] * 6 + d[7] * 5 + d[8] * 4 + d[9] * 3
  + d[10] * 2

\* Mutant: the remainder 10 is not made 0.
RemainderRaw(sum) == (sum * 10) % 11

Remainder(sum) == LET r == (sum * 10) % 11 IN IF r \in {10, 11} THEN 0 ELSE r

IsValidCpf(d) ==
  /\ Len(d) = 11 /\ ~AllTheSame(d)
  /\ Remainder(NineSum(d)) = d[10]
  /\ Remainder(TenSum(d)) = d[11]

\* The weights go down to 2 and start again at 9.
CnpjWeight(size, i) == LET w == size - 7 - (i - 1) IN IF w < 2 THEN w + 8 ELSE w

CnpjSum(d, size) ==
  LET upTo[i \in 0 .. size] == IF i = 0 THEN 0 ELSE upTo[i - 1] + d[i] * CnpjWeight(size, i)
  IN  upTo[size]

CnpjCheck(sum) == IF sum % 11 < 2 THEN 0 ELSE 11 - (sum % 11)

IsValidCnpj(d) ==
  /\ Len(d) = 14 /\ ~AllTheSame(d)
  /\ CnpjCheck(CnpjSum(d, 12)) = d[13]
  /\ CnpjCheck(CnpjSum(d, 13)) = d[14]

ValidateEmail(t) == IF t.email THEN {[t EXCEPT !.lower = TRUE]} ELSE {}

ValidatePhone(t) == IF Len(t.digits) \in 10 .. 15 THEN {OnlyDigits(t.digits)} ELSE {}

ValidateCpfCnpj(t) ==
  IF IsValidCpf(t.digits) \/ IsValidCnpj(t.digits) THEN {OnlyDigits(t.digits)} ELSE {}

ValidateNumber(t) == {OnlyDigits(n) : n \in t.number}

ValidateCep(t) == IF Len(t.digits) = 8 THEN {OnlyDigits(t.digits)} ELSE {}

\* ABC1234 or ABC1D23.
ValidateLicensePlate(t) ==
  IF /\ Len(t.chars) = 7
     /\ \A i \in 1 .. 3 : t.chars[i] = "letter"
     /\ \A i \in {4, 6, 7} : t.chars[i] = "digit"
  THEN {[Plain EXCEPT !.lower = FALSE, !.digits = t.digits, !.chars = t.chars]}
  ELSE {}

DaysIn(y, m) ==
  CASE m \in {4, 6, 9, 11} -> 30
    [] m = 2 -> IF y % 4 = 0 /\ (y % 100 # 0 \/ y % 400 = 0) THEN 29 ELSE 28
    [] OTHER -> 31

\* new Date(y, m - 1, d): what is too large or too small is carried over, and
\* years below 100 are of the twentieth century.  Days of two digits are those
\* of four months at most.
CarriedMonth(y, m) == IF m = 0 THEN <<y - 1, 12>> ELSE <<y + (m - 1) \div 12, ((m - 1) % 12) + 1>>
CarriedDay(y, m, d) ==
  LET month(n) == CarriedMonth(y, m + n)
      days(n)  == DaysIn(month(n)[1], month(n)[2])
      before   == <<0, days(0), days(0) + days(1), days(0) + days(1) + days(2),
                    days(0) + days(1) + days(2) + days(3)>>
      k == CHOOSE n \in 0 .. 3 : before[n + 1] < d /\ d <= before[n + 2]
  IN  IF d = 0 THEN <<month(-1)[1], month(-1)[2], days(-1)>>
      ELSE <<month(k)[1], month(k)[2], d - before[k + 1]>>
JsDate(y, m, d) ==
  LET c == CarriedMonth(IF y < 100 THEN 1900 + y ELSE y, m) IN CarriedDay(c[1], c[2], d)

TwoDigits(n) == <<n \div 10, n % 10>>
DateText(d, m, y) == [DigitText(TwoDigits(d) \o TwoDigits(m) \o Decimal[y]) EXCEPT !.date = <<d, m, y>>]

\* Mutant: a date is accepted if there is a Date for it.
ValidateDateByDate(t) ==
  IF t.date # <<>>
  THEN LET d == t.date[1]  m == t.date[2]  y == t.date[3] IN
       IF JsDate(y, m, d)[1] = y /\ y \in 1900 .. 2100 THEN {DateText(d, m, y)} ELSE {}
  ELSE {}

\* Mutant: the month is written first.
ValidateDateMonthFirst(t) ==
  IF t.date # <<>>
  THEN LET d == t.date[1]  m == t.date[2]  y == t.date[3] IN
       IF JsDate(y, m, d) = <<y, m, d>> /\ y \in 1900 .. 2100 THEN {DateText(m, d, y)} ELSE {}
  ELSE {}

ValidateDate(t) ==
  IF t.date # <<>>
  THEN LET d == t.date[1]  m == t.date[2]  y == t.date[3] IN
       IF JsDate(y, m, d) = <<y, m, d>> /\ y \in 1900 .. 2100 THEN {DateText(d, m, y)} ELSE {}
  ELSE {}

ValidateTime(t) ==
  IF t.time # <<>>
  THEN LET h == t.time[1]  m == t.time[2] IN
       IF h \in 0 .. 23 /\ m \in 0 .. 59
       THEN {[DigitText(TwoDigits(h) \o TwoDigits(m)) EXCEPT !.time = <<h, m>>]}
       ELSE {}
  ELSE {}

ValidateAndFormat(type, t) ==
  IF t.blank THEN {}
  ELSE CASE type = "EMAIL" -> ValidateEmail(t)
         [] type = "PHONE" -> ValidatePhone(t)
         [] type = "CPF_CNPJ" -> ValidateCpfCnpj(t)
         [] type = "NUMBER" -> ValidateNumber(t)
         [] type = "CEP" -> ValidateCep(t)
         [] type = "LICENSE_PLATE" -> ValidateLicensePlate(t)
         [] type = "DATE" -> ValidateDate(t)
         [] type = "TIME" -> ValidateTime(t)
         [] OTHER -> {t}

-----------------------------------------------------------------------------
(* CustomerIdentificationHandler *)

Rev(sum) == LET r == 11 - (sum % 11) IN IF r \in {10, 11} THEN 0 ELSE r

IsValidCpfOfField(d) ==
  /\ Len(d) = 11 /\ ~AllTheSame(d)
  /\ Rev(NineSum(d)) = d[10]
  /\ Rev(TenSum(d)) = d[11]

ValidateField(type, t) ==
  /\ ~t.blank
  /\ type = "EMAIL" => t.email
  /\ type = "CPF" => IsValidCpfOfField(t.digits)
  /\ type = "PHONE" => Len(t.digits) >= 10
  /\ type = "NUMBER" => t.number # {}

-----------------------------------------------------------------------------
ExpectedTypes == {"EMAIL", "PHONE", "CPF_CNPJ", "NUMBER", "CEP", "LICENSE_PLATE", "DATE", "TIME", "TEXT"}
=============================================================================
