------------------------------ MODULE MCStdlib ------------------------------
(***************************************************************************)
(* Lines for the standard library: all short ones over some bytes, after   *)
(* and before others.  Two digits are printed after the dot, ten steps are *)
(* one in the last of them, and the register holds eight bits.             *)
(***************************************************************************)
EXTENDS Stdlib

Space == 32
SomeBytes == {Minus, Dot, Zero, Zero + 1, Zero + 9}
Strings(S, n) == UNION {[1 .. k -> S] : k \in 0 .. n}

(* One line, well-formed or not, and a second one that must not depend on it;*)
(* the last line may have no end.                                            *)
SomeInputs ==
  {line \o <<LF>> \o next :
     line \in Strings(SomeBytes, 4) \cup {<<Space, Zero + 3>>, <<Zero + 1, Zero + 2, Zero + 7>>,
                                          <<Zero + 1, Zero + 2, Zero + 8>>, <<Zero + 2, Dot, Zero + 3, Zero, Zero + 7>>},
     next \in {<<>>, <<LF>>, <<Zero + 2, LF>>, <<Zero + 7, Dot, Zero + 5, LF>>, <<Minus, Zero + 3>>}}

SomeOthers ==
  {NaN, 0, 4, -4, 999, 1000, -12345, Indefinite * One - 1, Indefinite * One,
   -Indefinite * One + 1, -Indefinite * One, 200001}
=============================================================================
