------------------------------ MODULE MCBackEnd ------------------------------
(***************************************************************************)
(* Programs whose frames, slots and arguments lie around the largest       *)
(* displacement of one byte, and programs with every jump, operator and    *)
(* library call.                                                           *)
(***************************************************************************)
EXTENDS BackEnd

Names == [i \in 0 .. 4 |->
            CASE i = 0 -> "teorema" [] i = 1 -> "h" [] i = 2 -> "dano"
              [] i = 3 -> "naydyotsya" [] i = 4 -> "koren"]

One == Num(1)
In == CallNode(2, <<>>)
Out(e) == CallNode(3, <<e>>)
Sqrt(e) == CallNode(4, <<e>>)
Body(statements) == Statement("BODY", statements)
Function(id, params, frame_size, statements) ==
  [id |-> id, params |-> params, frame_size |-> frame_size, body |-> Body(statements)]

(* h has p parameters and main calls it with p arguments: 15 and 17 are the  *)
(* first whose words are 128 bytes above rbp and rsp, 17 the first parameter *)
(* more than 128 bytes below rbp.                                            *)
WithArguments(p) ==
  <<Function(1, p, 8 * p, <<Statement("RET", <<Var(8)>>)>>),
    Function(0, 0, 8, <<CallNode(1, [i \in 1 .. p |-> One])>>)>>

(* The frame is subtracted from rsp: 112 is the last one of one byte.        *)
WithFrame(bytes) == <<Function(0, 0, bytes, <<VarDecl(bytes, <<One>>), Out(Var(bytes))>>)>>

Main(statements) == <<Function(0, 0, 8, statements)>>
Binary == Arithmetic \cup Comparisons \cup {"LOGIC_OR", "LOGIC_AND"}
Operators == {Main(<<Op(p, In, Var(8))>>) : p \in Binary}
Loop == Statement("WHILE", <<In, Body(<<Statement("IF", <<Sqrt(In), Body(<<Statement("BREAK", <<>>)>>),
                                                             Body(<<Out(One)>>)>>)>>)>>)

SmallPrograms ==
  {WithArguments(p) : p \in {1, 14, 15, 16, 17}} \cup {WithFrame(8 * i) : i \in 13 .. 19}
  \cup Operators \cup {Main(<<Loop>>), Main(<<Op("ASSIGN", Var(8), Num(2))>>)}

NodesOfPrograms == [p \in Programs |-> Below({p[i].body : i \in 1 .. Len(p)}, 8)]

SomeLists == {[instructions |-> <<Instr0("ret")>>, labels |-> <<>>, use_stdlib |-> FALSE]}
=============================================================================
