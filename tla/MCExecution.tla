----------------------------- MODULE MCExecution -----------------------------
(***************************************************************************)
(* Executes the small programs of MCCodeGen on a few typed numbers and     *)
(* compares what they print with what they mean.                           *)
(***************************************************************************)
EXTENDS MCCodeGen, Execution, Language

TypedNumbers == {<<>>, <<1, 0, 1>>, <<1, 1, 1>>}
ExecutedPrograms == AllPrograms

(* The entry point calls itself once; its value is printed.                  *)
EntryCalled == {<<Main(<<IfThen(In, <<Let(x, CallNode(0, <<>>)), Out(x)>>), Out(One)>>)>>}
-----------------------------------------------------------------------------
(* The generated program prints what the source program means, for what was  *)
(* typed, when it exits.                                                     *)
SameOutput == machine = "exited" => output = Printed(functions, input)
=============================================================================
