------------------------------- MODULE Decimals -------------------------------
(***************************************************************************)
(* Numbers of type double as std::to_string prints them and std::stod      *)
(* reads them: with six decimals, so that numbers that differ by less may  *)
(* print alike.  A number is an integer, in units of which One make 1 and  *)
(* Digit make the last decimal that is printed.  A text is a sequence of   *)
(* signs, of which the digits and the point of a number are one.  A zero   *)
(* has no sign of its own; numbers too large to be exact, infinities and   *)
(* NaN are left out.                                                       *)
(***************************************************************************)
EXTENDS Integers, Sequences, TLC

CONSTANTS
  One, Digit,
  Magnitudes  \* the numbers of last decimals that texts spell out

\* Different numbers of decimals are spelled differently, in digits.
ASSUME DecimalsAssumption ==
  /\ One \in Nat \ {0} /\ Digit \in Nat \ {0} /\ One % Digit = 0
  /\ Magnitudes \subseteq Nat
  /\ \A j, k \in Magnitudes : ToString(j) = ToString(k) => j = k
  /\ \A k \in Magnitudes : ToString(k) \notin {"(", "-", ":"}

Magnitude(v) == IF v < 0 THEN -v ELSE v

\* The nearest number of last decimals; of two, the even one.
Rounded(m) ==
  LET q == m \div Digit
      r == m % Digit IN
  IF 2 * r > Digit \/ (2 * r = Digit /\ q % 2 = 1) THEN q + 1 ELSE q

\* The number that is printed in the place of v.
AsPrinted(v) ==
  IF v < 0 THEN -(Rounded(Magnitude(v)) * Digit) ELSE Rounded(Magnitude(v)) * Digit

\* The numbers that can be printed.
Printable == {v \in Int : Rounded(Magnitude(v)) \in Magnitudes}

\* std::to_string
PrintNumber(v) ==
  (IF v < 0 THEN <<"-">> ELSE <<>>) \o <<ToString(Rounded(Magnitude(v)))>>

Numerals == {ToString(k) : k \in Magnitudes}

Unsigned(text) == IF text # <<>> /\ text[1] = "-" THEN Tail(text) ELSE text

\* std::stod reads the number that a text begins with, or throws.
Readable(text) == Unsigned(text) # <<>> /\ Unsigned(text)[1] \in Numerals

Spelled(sign) == CHOOSE k \in Magnitudes : ToString(k) = sign

ReadNumber(text) ==
  LET k == Spelled(Unsigned(text)[1]) IN
  IF text[1] = "-" THEN -(k * Digit) ELSE k * Digit
=============================================================================
