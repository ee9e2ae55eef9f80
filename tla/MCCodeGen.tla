------------------------------ MODULE MCCodeGen ------------------------------
(***************************************************************************)
(* Small programs for the code generator.  main has two variables, x and   *)
(* y; f takes one number and g takes two.  The statements and expressions  *)
(* are combined so that every construct occurs inside every other one that *)
(* can hold it and that shares a resource with it: temporaries on the      *)
(* stack, arguments, labels, the stack of loops.                           *)
(***************************************************************************)
EXTENDS CodeGen

Names == [i \in 0 .. 5 |->
            CASE i = 0 -> "teorema" [] i = 1 -> "f" [] i = 2 -> "g"
              [] i = 3 -> "dano" [] i = 4 -> "naydyotsya" [] i = 5 -> "koren"]

x == Var(8)
y == Var(16)
Zero == Num(0)
One == Num(1)
Two == Num(2)
In == CallNode(3, <<>>)
Out(e) == CallNode(4, <<e>>)
Sqrt(e) == CallNode(5, <<e>>)
F(e) == CallNode(1, <<e>>)
G(e1, e2) == CallNode(2, <<e1, e2>>)
Nan == Op("DIV", Zero, Zero)
Assign(v, e) == Op("ASSIGN", v, e)
Body(statements) == Statement("BODY", statements)
IfThen(c, s) == Statement("IF", <<c, Body(s)>>)
IfElse(c, s, t) == Statement("IF", <<c, Body(s), Body(t)>>)
While(c, s) == Statement("WHILE", <<c, Body(s)>>)
Break == Statement("BREAK", <<>>)
Return(e) == Statement("RET", <<e>>)
Let(v, e) == VarDecl(v.num, <<e>>)

Function(id, params, frame_size, statements) ==
  [id |-> id, params |-> params, frame_size |-> frame_size, body |-> Body(statements)]

-----------------------------------------------------------------------------
(* f(a) = a + a, after a local variable; g(a, b) = a - b; both by a return   *)
(* that is not the last statement.                                           *)
DoubleIt == Function(1, 1, 16, <<Let(Var(16), Op("ADD", Var(8), Var(8))), Return(Var(16)), Out(Zero)>>)
Subtract == Function(2, 2, 16, <<Return(Op("SUB", Var(8), Var(16))), Return(Zero)>>)
Main(statements) == Function(0, 0, 16, statements)
Program(statements) == <<DoubleIt, Main(<<Let(x, Two), VarDecl(16, <<>>)>> \o statements), Subtract>>

(* Every operator on numbers that are less, equal, greater and unordered.    *)
Binary == Arithmetic \cup Comparisons \cup {"LOGIC_OR", "LOGIC_AND"}
Pairs == <<<<Zero, Zero>>, <<Zero, One>>, <<Two, One>>, <<Nan, One>>, <<Zero, Nan>>, <<Nan, Nan>>>>
Operations == {Program([i \in 1 .. Len(Pairs) |-> Out(Op(p, Pairs[i][1], Pairs[i][2]))]) : p \in Binary}

(* Two operators over three operands, in both shapes.                        *)
Mixed == {"SUB", "DIV", "LESS", "IS_NOT_EQUAL", "LOGIC_OR", "LOGIC_AND"}
Operands == {<<x, In, F(One)>>, <<F(In), Nan, Two>>, <<In, Assign(y, In), y>>}
Nested(o) ==
  UNION {{Op(p, o[1], Op(q, o[2], o[3])), Op(p, Op(q, o[1], o[2]), o[3])} : p, q \in Mixed}
Expressions == {Program(<<Out(e), Out(y)>>) : e \in UNION {Nested(o) : o \in Operands}}

(* Calls in arguments, in temporaries and in temporaries of arguments.       *)
Atoms == {In, F(In), G(In, x)}
Inner == Atoms \cup {Op("SUB", a, b) : a, b \in Atoms} \cup {Op("LOGIC_AND", In, F(In))}
Calls == {Program(<<Out(e)>>) :
            e \in {G(a, b) : a, b \in Inner} \cup {Op("SUB", a, F(b)) : a, b \in Inner}
                    \cup {Sqrt(a) : a \in Inner}}

(* A loop that runs at most three times and whose body is two statements:    *)
(* each may leave it, or be a loop or a condition that leaves itself, this   *)
(* loop or the function.                                                     *)
Up(v) == Assign(v, Op("ADD", v, One))
Simple == {Break, Return(x), Out(x), Assign(x, Two), Statement("RET", <<>>), x}
Compound == {IfThen(In, <<s>>) : s \in Simple} \cup {IfElse(In, <<s>>, <<Break>>) : s \in Simple}
              \cup {While(Op("LESS", y, Two), <<Up(y), s, Out(y)>>) : s \in Simple}
              \cup {While(In, <<IfThen(Nan, <<s>>)>>) : s \in Simple}
Loops == {Program(<<Assign(x, Zero), While(c, <<Up(x), s, t, Out(Zero)>>), Out(y)>>) :
            c \in {Op("LESS", x, Two), Op("LOGIC_AND", Op("LESS", x, Two), In)},
            s \in Compound, t \in Simple}

(* Three loops in each other, one more than the smallest capacity.           *)
Deep == {Program(<<While(In, <<While(In, <<While(In, <<s>>), t>>), Break>>)>>) :
           s \in {Break, Out(x)}, t \in {Break, Out(x), One}}

(* A recursive function that stops at zero and one that calls it.            *)
SumTo(s) ==
  <<Main(<<Out(F(Two))>> \o s),
    Function(1, 1, 8, <<IfThen(Op("LESS", Var(8), One), <<Return(Zero)>>),
                        Return(Op("ADD", Var(8), F(Op("SUB", Var(8), One))))>>)>>
Recursive == {SumTo(<<>>), SumTo(<<Out(F(F(Two)))>>),
              SumTo(<<Let(x, One), Out(Op("MUL", F(x), F(Two)))>>)}

AllPrograms == Operations \cup Expressions \cup Calls \cup Loops \cup Recursive
AndDeepPrograms == AllPrograms \cup Deep

NodesOfPrograms == [p \in Programs |-> Below({p[i].body : i \in 1 .. Len(p)}, 12)]

(* A program with a function of its own that has the English name of a       *)
(* built-in.                                                                 *)
NamesWithOut == [Names EXCEPT ![1] = "out"]
=============================================================================
