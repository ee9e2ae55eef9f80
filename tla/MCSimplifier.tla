---------------------------- MODULE MCSimplifier ----------------------------
(***************************************************************************)
(* Programs for the middle end.  An expression is put at every place of a  *)
(* program where there may be one, the places that simplify_node reaches   *)
(* and those it does not.  1.0 is four steps and what is less than two     *)
(* steps is close to zero, so that there are numbers close to 0.0 and 1.0. *)
(***************************************************************************)
EXTENDS Simplifier

Names == [i \in 0 .. 4 |->
            CASE i = 0 -> "teorema" [] i = 1 -> "f" [] i = 2 -> "dano"
              [] i = 3 -> "naydyotsya" [] i = 4 -> "g"]

x == Var(8)
Zero == Num(0)
Tiny == Num(1)
One == Num(Unit)
AboutOne == Num(Unit + 1)
Two == Num(2 * Unit)
In == CallNode(2, <<>>)
Out(e) == CallNode(3, <<e>>)
F(e) == CallNode(1, <<e>>)
SetX == Op("ASSIGN", x, Two)
Body(statements) == Statement("BODY", statements)
IfElse(c, s, t) == Statement("IF", <<c, Body(s), Body(t)>>)
While(c, s) == Statement("WHILE", <<c, Body(s)>>)
Return(e) == Statement("RET", <<e>>)
Function(id, params, statements) ==
  [id |-> id, params |-> params, frame_size |-> 16, body |-> Body(statements)]

(* f(a) prints its argument and returns it.                                  *)
Echo == Function(1, 1, <<Out(Var(8)), Return(Var(8))>>)
Main(statements) == Function(0, 0, <<VarDecl(8, <<In>>)>> \o statements)
Program(statements) == <<Main(statements), Echo>>

-----------------------------------------------------------------------------
Binary == Arithmetic \cup Comparisons \cup Logic
Literals == {Zero, Tiny, One, AboutOne, Two}
Atoms == Literals \cup {x, In, SetX, F(x)}
Pairs == {Op(p, a, b) : p \in Binary, a \in Atoms, b \in Atoms}

(* Two operators, so that the second rule applies to what the first has left.*)
Mixed == {"ADD", "SUB", "MUL", "DIV", "GREATER_EQUAL", "LOGIC_AND"}
Operands == {Zero, One, Two, x, F(x)}
Nested == UNION {{Op(p, a, Op(q, b, c)), Op(p, Op(q, a, b), c)} :
                   p \in Mixed, q \in Mixed, a \in Operands, b \in Operands, c \in Operands}

Printing == {Program(<<Out(e)>>) : e \in Pairs \cup Nested}

(* The same expressions at other places: reached or not.                     *)
Folded == {Op("SUB", Two, One), Op("MUL", Zero, x), Op("LESS", Op("DIV", Two, Two), Two),
           Op("DIV", Zero, Op("SUB", x, Two)), Op("ADD", x, Op("SUB", One, One))}
Placed(e) ==
  {Program(<<Out(x), Out(e)>>),
   Program(<<IfElse(e, <<Out(One)>>, <<Out(Zero)>>)>>),
   Program(<<IfElse(x, <<Out(e)>>, <<Out(e), Out(Two)>>)>>),
   Program(<<While(Op("LESS", x, e), <<Op("ASSIGN", x, Op("ADD", x, One)), Out(e)>>)>>),
   Program(<<VarDecl(16, <<e>>), Out(Var(16))>>),
   Program(<<Out(CallNode(4, <<e, x, e>>))>>)
     \o <<Function(4, 3, <<Return(Op("SUB", Var(8), Var(24)))>>)>>,
   <<Main(<<Out(CallNode(4, <<Two>>))>>), Echo, Function(4, 1, <<Return(e)>>)>>,
   <<Function(4, 1, <<Return(e)>>), Main(<<Out(CallNode(4, <<Two>>))>>), Echo>>}
Places ==
  UNION {Placed(e) : e \in Folded}
  \cup UNION {Placed(e) : e \in {Op("LOGIC_AND", a, b) : a \in Folded, b \in Folded}}

SomeSources == Printing \cup Places
SomeNumbers == {<<>>, <<Unit>>, <<2 * Unit, Unit>>}
=============================================================================
