------------------------------ MODULE ByteRange ------------------------------
(***************************************************************************)
(* Single byte ranges: StaticFileHandler::parseRangeHeader over a header   *)
(* value that is already cut at its commas and dashes.                     *)
(***************************************************************************)
EXTENDS Decimal

\* One comma-separated element: does it begin with "bytes=", and what the
\* dashes leave of the rest.
RangeElement == [bytes : BOOLEAN, parts : Seq(Seq(Character))]

----------------------------------------------------------------------------
(* parseRangeHeader *)

\* The result FALSE.
Unsatisfiable == [start |-> 1, end |-> 0]

\* "-n": the last n bytes.
Suffix(n, size) ==
  IF n \in {Invalid, 0} THEN Unsatisfiable
  ELSE [start |-> IF n >= size THEN 0 ELSE size - n, end |-> size - 1]

\* Mutant: the end is not cut to the file.
IntervalUncut(start, end, size) ==
  IF start = Invalid \/ end = Invalid \/ start >= size \/ start > end THEN Unsatisfiable
  ELSE [start |-> start, end |-> end]

\* "start-end", or "start-" with the file's last byte as the end.
Interval(start, end, size) ==
  IF start = Invalid \/ end = Invalid \/ start >= size \/ start > end THEN Unsatisfiable
  ELSE [start |-> start, end |-> IF end < size THEN end ELSE size - 1]

WellFormed(elements) ==
  /\ Len(elements) = 1
  /\ elements[1].bytes /\ Len(elements[1].parts) = 2
  /\ elements[1].parts # << <<>>, <<>> >>

ParseRange(elements, size) ==
  LET first == elements[1].parts[1]
      last  == elements[1].parts[2]
  IN  IF ~WellFormed(elements) \/ size = 0 THEN Unsatisfiable
      ELSE IF first = <<>> THEN Suffix(ParseUnsigned(last), size)
      ELSE Interval(ParseUnsigned(first),
                    IF last = <<>> THEN size - 1 ELSE ParseUnsigned(last), size)

----------------------------------------------------------------------------
(* What such a header asks for, in exact arithmetic.                       *)

Legal(elements) == WellFormed(elements) /\ \A i \in 1 .. 2 : Numeric(elements[1].parts[i])

Representable(elements) == \A i \in 1 .. 2 : Value(elements[1].parts[i]) <= MaxUnsigned

Wanted(elements, size) ==
  LET first == elements[1].parts[1]
      last  == elements[1].parts[2]
  IN  {i \in 0 .. size - 1 :
         IF first = <<>> THEN i >= size - Value(last)
         ELSE Value(first) <= i /\ (last = <<>> \/ i <= Value(last))}
============================================================================
