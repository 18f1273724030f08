------------------------------ MODULE Decimal ------------------------------
(***************************************************************************)
(* Decimal numbers in a header: HttpParser's parseContentLengthValue and    *)
(* StaticFileHandler's parseUnsignedInteger, which do the same in integers  *)
(* of a fixed width.                                                       *)
(***************************************************************************)
EXTENDS Integers, SequencesExt

CONSTANTS
  Base,        \* 10 in the code
  MaxUnsigned  \* the largest std::size_t, std::uintmax_t

ASSUME DecimalAssumption ==
  Base \in Nat /\ Base > 1 /\ MaxUnsigned \in Nat /\ MaxUnsigned >= Base

\* A character of a number: a digit, or Base for any other character.
Character == 0 .. Base

Invalid == -1

\* Mutant: the digit is forgotten in the test for overflow.
AddDigitLate(parsed, digit) ==
  IF parsed = Invalid \/ digit = Base \/ parsed > MaxUnsigned \div Base
    THEN Invalid ELSE (parsed * Base + digit) % (MaxUnsigned + 1)

AddDigit(parsed, digit) ==
  IF parsed = Invalid \/ digit = Base \/ parsed > (MaxUnsigned - digit) \div Base
    THEN Invalid ELSE (parsed * Base + digit) % (MaxUnsigned + 1)

ParseUnsigned(text) == IF text = <<>> THEN Invalid ELSE FoldLeft(AddDigit, 0, text)

----------------------------------------------------------------------------
(* The number a text stands for, in exact arithmetic.                      *)

Value(text) ==
  LET v[i \in 0 .. Len(text)] == IF i = 0 THEN 0 ELSE v[i - 1] * Base + text[i]
  IN  v[Len(text)]

Numeric(text) == \A i \in DOMAIN text : text[i] < Base
============================================================================
