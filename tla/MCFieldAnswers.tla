--------------------------- MODULE MCFieldAnswers ---------------------------
(***************************************************************************)
(* The instance of FieldAnswers for TLC: documents with every pair of      *)
(* check digits, and texts on both sides of every bound the validations    *)
(* draw.                                                                   *)
(***************************************************************************)
EXTENDS FieldAnswers

\* A pattern with every pair of check digits.
MCDocuments == {<<a, 5, a, 3, b, 7, a, b, a, v, w>> : a, v, w \in Digit, b \in {3, 8}}

DateTyped(d, m, y) == [DigitText(<<>>) EXCEPT !.date = <<d, m, y>>]
TimeTyped(h, m) == [DigitText(<<>>) EXCEPT !.time = <<h, m>>]
PlateTyped(fifth) ==
  [DigitText(<<1, 2, 3>>) EXCEPT !.chars =
     <<"letter", "letter", "letter", "digit", fifth, "digit", "digit">>]
MCTyped ==
  {DateTyped(d, m, y) : d \in {0, 1, 29, 30, 31, 99}, m \in {0, 1, 2, 4, 12, 13},
                      y \in {50, 1899, 1900, 2024, 2100, 2101}}
  \cup {TimeTyped(h, m) : h \in {0, 9, 23, 24}, m \in {0, 5, 59, 60}}
  \cup {PlateTyped("letter"), PlateTyped("digit")}
  \cup {OnlyDigits([i \in 1 .. n |-> (i * i) % 10]) : n \in 7 .. 16}
  \cup {OnlyDigits(<<5, 2, 9, 9, 8, 2, 2, 4, 7, 2, 5>>),
         OnlyDigits(<<1, 1, 4, 4, 4, 7, 7, 7, 0, 0, 0, 1, 6, 1>>),
         OnlyDigits(<<0, 0, 7>>), OnlyDigits(<<0>>),
         [Plain EXCEPT !.email = TRUE, !.lower = FALSE], [Plain EXCEPT !.blank = TRUE]}
=============================================================================
