-------------------------------- MODULE Draws --------------------------------
(***************************************************************************)
(* What the emulator makes of a random draw: p_emu_loss_check compares one *)
(* with the loss percentage of the stream, and uniform turns one into a    *)
(* delay.  The code computes the first in the type float and the second in *)
(* double: every operation rounds its result.  The other distributions     *)
(* need transcendental functions.                                          *)
(*                                                                         *)
(* The floating-point numbers are multiples of 1/FloatUnit, and stand here *)
(* as the multiple: FloatUnit is the number one.                           *)
(***************************************************************************)
EXTENDS Integers

CONSTANTS
  LossAccuracy,    \* LOSS_ACCURACY: 100000, a whole number of draws to the percent
  RandMax,         \* RAND_MAX: rand() returns a member of 0..RandMax
  FloatUnit,
  Floats,          \* the non-negative numbers of type float
  FloatPrecision,  \* 2^24: rounding to float errs by one part in so many
  Doubles,         \* the non-negative numbers of type double
  DoubleExact,     \* 2^53: every integer up to it is a double
  Percentages      \* the whole percentages of loss a stream may have

Distance(a, b) == IF a < b THEN b - a ELSE a - b

\* The floating-point number nearest to a/b.  (Of two it is one; the processor
\* takes the even one.)
Round(F, a, b) == CHOOSE f \in F : \A g \in F : Distance(b * f, a) <= Distance(b * g, a)

\* The quotient of the percentage by 100, and LOSS_ACCURACY times as much.
LossQuotient(percentage) == Round(Floats, percentage * FloatUnit, 100)

LossThreshold == [p \in Percentages |-> Round(Floats, LossQuotient(p) * LossAccuracy, 1)]

ASSUME DrawAssumption ==
  /\ LossAccuracy \in Nat \ {0} /\ LossAccuracy % 100 = 0
  /\ RandMax \in Nat \ {0} /\ FloatUnit \in Nat \ {0}
  /\ Percentages \subseteq 0..100 /\ 0 \in Percentages
  /\ Floats \subseteq Nat /\ Doubles \subseteq Nat
  /\ \A i \in 0..LossAccuracy : i * FloatUnit \in Floats
  /\ DoubleExact \in Nat /\ \A i \in 0..DoubleExact : i * FloatUnit \in Doubles
  /\ FloatPrecision \in Nat /\ FloatPrecision > 3 * LossAccuracy
  /\ \A p \in Percentages :
       LET exact    == p * FloatUnit
           quotient == LossQuotient(p)
           product  == quotient * LossAccuracy
       IN  /\ FloatPrecision * Distance(100 * quotient, exact) <= exact
           /\ FloatPrecision * Distance(Round(Floats, product, 1), product) <= product

\* rand() % (LOSS_ACCURACY + 1): one value more than the accuracy.
LossDraws == 0..LossAccuracy

\* "<=" for "<".
p_emu_loss_check_AtMost(percentage, draw) == draw * FloatUnit <= LossThreshold[percentage]

\* Whether p_emu_loss_check discards a packet of a stream with this percentage.
p_emu_loss_check(percentage, draw) == draw * FloatUnit < LossThreshold[percentage]

\* The width taken to be max.
uniform_FromZero(p, draw) ==
    LET scaled == Round(Doubles, draw * FloatUnit, RandMax)
        share  == Round(Doubles, (p.max + 1) * scaled, 1)
    IN  Round(Doubles, share + p.min * FloatUnit, 1) \div FloatUnit

\* The delay for a draw, of a stream with 0 <= min <= max.  The quotient lies in
\* the closed interval from 0 to 1.
uniform(p, draw) ==
    LET scaled == Round(Doubles, draw * FloatUnit, RandMax)
        share  == Round(Doubles, (p.max - p.min + 1) * scaled, 1)
    IN  Round(Doubles, share + p.min * FloatUnit, 1) \div FloatUnit

=============================================================================
