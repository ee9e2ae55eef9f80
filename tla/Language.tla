------------------------------ MODULE Language ------------------------------
(***************************************************************************)
(* What a program of the language means (README, the sections on the       *)
(* language): a reference interpreter of the analysed AST, against which   *)
(* the generated code is checked.  It knows nothing of registers, labels   *)
(* or a shared stack: a call has slots of its own, a loop is a recursion,  *)
(* a break and a return are results of a statement.                        *)
(*                                                                         *)
(* The README leaves the order of the operands of an arithmetic operation  *)
(* or a comparison open; the right one is first here, as in the code.      *)
(* The operators are recursive: this module is for TLC only.               *)
(***************************************************************************)
EXTENDS Values, TLC

Truth(condition) == IF condition THEN Unit ELSE 0

(* NaN compares unequal to everything, itself included, and is not 0.0.      *)
Meaning(op, a, b) ==
  LET ordered == NaN \notin {a, b}
  IN  CASE op = "ADD" -> Compute("addsd", a, b)
        [] op = "SUB" -> Compute("subsd", a, b)
        [] op = "MUL" -> Compute("mulsd", a, b)
        [] op = "DIV" -> Compute("divsd", a, b)
        [] op = "IS_EQUAL" -> Truth(ordered /\ a = b)
        [] op = "IS_NOT_EQUAL" -> Truth(~ordered \/ a # b)
        [] op = "GREATER" -> Truth(ordered /\ a > b)
        [] op = "GREATER_EQUAL" -> Truth(ordered /\ a >= b)
        [] op = "LESS" -> Truth(ordered /\ a < b)
        [] op = "LESS_EQUAL" -> Truth(ordered /\ a <= b)

(* The state of an evaluation: the slots of the running call, what is left   *)
(* of the input, the output, the last value, whether an operation has given  *)
(* NaN so far, and how the last statement ended: "next", "break", "return".  *)
Begin(slots, s) == [s EXCEPT !.slots = slots, !.value = 0, !.ended = "next"]
Computed(s, value) == [s EXCEPT !.value = value, !.nan = @ \/ value = NaN]
SetSlot(s, offset) == [s EXCEPT !.slots = (offset :> s.value) @@ s.slots]

RECURSIVE Eval(_, _, _), EvalArgs(_, _, _), Exec(_, _, _), ExecAll(_, _, _), Invoke(_, _, _, _)

(* Every argument in turn, the values in the order of the parameters.        *)
EvalArgs(program, args, s) ==
  IF args = <<>> THEN [state |-> s, values |-> <<>>]
  ELSE LET first == Eval(program, args[1], s)
           rest == EvalArgs(program, Tail(args), first)
       IN  [state |-> rest.state, values |-> <<first.value>> \o rest.values]

Invoke(program, id, values, s) ==
  LET f == program[CHOOSE i \in 1 .. Len(program) : program[i].id = id]
      slots == [o \in {8 * i : i \in 1 .. Len(values)} |-> values[o \div 8]]
      end == Exec(program, f.body, Begin(slots, s))
  IN  [end EXCEPT !.slots = s.slots, !.ended = "next",
                  !.value = IF end.ended = "return" THEN end.value ELSE 0]

Eval(program, e, s) ==
  CASE e.kind = "NUM" -> [s EXCEPT !.value = e.num]
    [] e.kind = "VAR" -> [s EXCEPT !.value = s.slots[e.num]]
    [] e.kind = "OP" /\ e.op = "ASSIGN" -> SetSlot(Eval(program, e.kids[2], s), e.kids[1].num)
    [] e.kind = "OP" /\ e.op \in {"LOGIC_OR", "LOGIC_AND"} ->
         LET left == Eval(program, e.kids[1], s)
             decided == (left.value # 0) = (e.op = "LOGIC_OR")
             last == IF decided THEN left ELSE Eval(program, e.kids[2], left)
         IN  [last EXCEPT !.value = Truth(last.value # 0)]
    [] e.kind = "OP" /\ e.op \in Arithmetic \cup Comparisons ->
         LET right == Eval(program, e.kids[2], s)
             left == Eval(program, e.kids[1], right)
         IN  Computed(left, Meaning(e.op, left.value, right.value))
    [] e.kind = "CALL" ->
         LET args == EvalArgs(program, e.kids, s)
             state == args.state
             name == Name[e.num]
         IN  CASE name = "naydyotsya" -> [state EXCEPT !.output = Append(@, args.values[1])]
               [] name = "dano" ->
                    [state EXCEPT !.value = TypedNumber(state.input, state.taken), !.taken = @ + 1]
               [] name = "koren" -> Computed(state, Root(args.values[1]))
               [] OTHER -> Invoke(program, e.num, args.values, state)

Exec(program, node, s) ==
  CASE node.kind = "BODY" -> ExecAll(program, node.kids, s)
    [] node.kind = "IF" ->
         LET test == Eval(program, node.kids[1], s)
         IN  IF test.value # 0 THEN Exec(program, node.kids[2], test)
             ELSE IF Len(node.kids) = 3 THEN Exec(program, node.kids[3], test)
             ELSE test
    [] node.kind = "WHILE" ->
         LET test == Eval(program, node.kids[1], s)
             body == Exec(program, node.kids[2], test)
         IN  IF test.value = 0 THEN test
             ELSE IF body.ended = "next" THEN Exec(program, node, body)
             ELSE IF body.ended = "break" THEN [body EXCEPT !.ended = "next"]
             ELSE body
    [] node.kind = "BREAK" -> [s EXCEPT !.ended = "break"]
    [] node.kind = "RET" ->
         [(IF node.kids = <<>> THEN [s EXCEPT !.value = 0] ELSE Eval(program, node.kids[1], s))
            EXCEPT !.ended = "return"]
    [] node.kind = "VAR_DECL" ->
         SetSlot(IF node.kids = <<>> THEN [s EXCEPT !.value = 0]
                                     ELSE Eval(program, node.kids[1], s), node.num)
    [] OTHER -> Eval(program, node, s)

ExecAll(program, nodes, s) ==
  IF nodes = <<>> THEN s
  ELSE LET first == Exec(program, nodes[1], s)
       IN  IF first.ended = "next" THEN ExecAll(program, Tail(nodes), first) ELSE first

(* The program calls the entry point; what it prints is what it means.       *)
EntryOf(program) == CHOOSE id \in {program[i].id : i \in 1 .. Len(program)} : Name[id] \in EntryNames
Run(program, numbers) ==
  Invoke(program, EntryOf(program), <<>>,
         [slots |-> <<>>, input |-> numbers, taken |-> 0, output |-> <<>>, value |-> 0,
          nan |-> FALSE, ended |-> "next"])
Printed(program, numbers) == Run(program, numbers).output
=============================================================================
