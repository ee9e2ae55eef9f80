------------------------------- MODULE Values -------------------------------
(***************************************************************************)
(* Numbers and what the processor does with them: integers, in steps of    *)
(* the smallest number that is told from 0.0, and one NaN.  Rounding is to *)
(* a step; infinities and signed zeros are left out.                       *)
(***************************************************************************)
EXTENDS Integers, Sequences, Tree

NaN == 1000000

(* A quotient by zero stands for NaN.                                        *)
Compute(op, a, b) ==
  CASE NaN \in {a, b} -> NaN
    [] op = "addsd" -> a + b
    [] op = "subsd" -> a - b
    [] op = "mulsd" -> (a * b) \div Unit
    [] op = "divsd" -> IF b = 0 THEN NaN
                       ELSE IF b > 0 THEN (a * Unit) \div b ELSE (-a * Unit) \div (-b)

Root(a) ==
  IF a = NaN \/ a < 0 THEN NaN
  ELSE CHOOSE r \in 0 .. a * Unit : r * r <= a * Unit /\ a * Unit < (r + 1) * (r + 1)

(* The number that is typed after `count` others; zeros follow the last one. *)
TypedNumber(numbers, count) == IF count < Len(numbers) THEN numbers[count + 1] ELSE 0
=============================================================================
