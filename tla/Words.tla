-------------------------------- MODULE Words --------------------------------
(***************************************************************************)
(* Machine words of WordBits bits (64), immediates of ImmBits bits (32),   *)
(* characters of CharBits bits (8), and doubles.                           *)
(*                                                                         *)
(* A word holds a double in a toy format: its last bit is the sign, the    *)
(* others an integer, and negative zero stands for NaN.  Results that the  *)
(* format cannot hold are NaN.  It is enough to tell the order of operands *)
(* and the format of a value, which is what generated code can get wrong.  *)
(***************************************************************************)
EXTENDS Integers, Sequences

CONSTANTS WordBits, ImmBits, CharBits

ASSUME WordsAssumption ==
  /\ WordBits \in Nat \ {0, 1} /\ ImmBits \in 1 .. WordBits /\ CharBits \in 1 .. WordBits

\* What is used of powers of two, of which the provers know nothing.
ASSUME PowersAssumption ==
  /\ 2 ^ WordBits \in Nat /\ 2 ^ WordBits >= 4
  /\ 2 ^ ImmBits \in 1 .. 2 ^ WordBits /\ 2 ^ CharBits \in 1 .. 2 ^ WordBits

Modulus == 2 ^ WordBits
Half    == Modulus \div 2
Word    == 0 .. Modulus - 1
AllOnes == Modulus - 1

Wrap(n)   == n % Modulus
Signed(w) == IF w < Half THEN w ELSE w - Modulus

\* The low n bits of a word, extended by their first bit.
SignExtend(w, n) ==
  LET low == w % 2 ^ n
  IN Wrap(IF low < 2 ^ (n - 1) THEN low ELSE low - 2 ^ n)

CharOf(w) == w % 2 ^ CharBits

-----------------------------------------------------------------------------
NaN        == 1
Real(w)    == IF w % 2 = 0 THEN w \div 2 ELSE -(w \div 2)   \* of a word other than NaN
DoubleOf(n) == CASE n \in 0 .. Half - 1    -> 2 * n
                 [] n \in 1 - Half .. -1   -> 1 - 2 * n
                 [] OTHER                  -> NaN

Magnitude(n) == IF n < 0 THEN -n ELSE n

\* Division of integers towards zero, b # 0.
Quotient(a, b) == LET q == Magnitude(a) \div Magnitude(b)
                  IN IF (a < 0) = (b < 0) THEN q ELSE -q

DoubleOp(op, a, b) ==
  IF a = NaN \/ b = NaN \/ (op \in {"/", "%"} /\ b = 0) THEN NaN
  ELSE LET x == Real(a)
           y == Real(b)
       IN DoubleOf(CASE op = "+" -> x + y
                     [] op = "-" -> x - y
                     [] op = "*" -> x * y
                     [] op = "/" -> Quotient(x, y)
                     [] op = "%" -> x - y * Quotient(x, y))

-----------------------------------------------------------------------------
\* What called functions return: the order of the arguments matters.
Result(function, args) ==
  IF function = "fmod" THEN DoubleOp("%", args[1], args[2])
  ELSE IF Len(args) = 2 THEN Wrap(args[1] - args[2]) ELSE 1
=============================================================================
