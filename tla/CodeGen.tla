------------------------------- MODULE CodeGen -------------------------------
(***************************************************************************)
(* The code generator, back_end/source/tree_to_instructions.c: a recursive *)
(* walk of the analysed AST that appends x86-64 instructions and labels to *)
(* two lists and collects the constants of .rodata in a third.             *)
(*                                                                         *)
(* The recursion of the gen_* functions is the stack `todo` of what is     *)
(* still to be done: generating a node replaces its task by the tasks of   *)
(* its children and the instructions between them, in program order.       *)
(* Everything else that instructions_context_t holds is a variable here or *)
(* in Instructions.  Comments, which only appear in listings, are left     *)
(* out.                                                                    *)
(***************************************************************************)
EXTENDS Integers, Sequences, FiniteSets, Tree, Instructions

CONSTANTS
  Programs,       (* The analysed programs: sequences of functions.            *)
  Nodes,          (* For each of them, the nodes in the bodies of its functions. *)
  WhileCapacity   (* Length of the array while_stack, 64 in the code.          *)

ASSUME CapacityAssumption == WhileCapacity \in Nat \ {0}

VARIABLES
  functions,      (* The program that is translated.                           *)
  todo,           (* What the walk has still to do, the next thing first.      *)
  rodata, counters, while_stack,
  status          (* "generating", "done", or "aborted" by an assertion.       *)

vars == <<functions, todo, instructions, labels, rodata, counters, while_stack, status>>

-----------------------------------------------------------------------------
(* The names gen_call takes for built-ins: the language's and English ones.  *)
OutNames == {"naydyotsya", "out"}
InNames == {"dano", "in"}
SqrtNames == {"koren", "sqrt"}
BuiltinNames == OutNames \cup InNames \cup SqrtNames

(* What the parser and build_scopes have made sure of and the generator does *)
(* not look at again: the children it reads are there, no two functions have *)
(* one name and no two are entry points, a call that is not a built-in's     *)
(* names a function, and what is declared or assigned is a variable, whose   *)
(* slot lies below the saved rbp.                                            *)
FuncOf(nodes) == [id : Nat, params : Nat, frame_size : Nat, body : nodes]
Analysed(program, nodes) ==
  /\ program \in Seq(FuncOf(nodes))
  /\ \A i, j \in 1 .. Len(program) :
       \/ program[i].id = program[j].id
       \/ Name[program[i].id] \in EntryNames /\ Name[program[j].id] \in EntryNames
       => i = j
  /\ nodes \subseteq [kind : STRING, op : STRING, num : Int, kids : Seq(nodes)]
  /\ \A n \in nodes :
       /\ n.kind \in {"OP", "IF", "WHILE"} => Len(n.kids) >= 2
       /\ n.kind = "CALL" =>
            \/ Name[n.num] \in BuiltinNames
            \/ \E i \in 1 .. Len(program) : program[i].id = n.num
       /\ n.kind = "VAR_DECL" => n.num >= 8
       /\ n.kind = "OP" /\ n.op = "ASSIGN" => n.kids[1].num >= 8

ASSUME ProgramsAssumption == \A p \in Programs : Analysed(p, Nodes[p])

-----------------------------------------------------------------------------
ConstTrue == <<"const_true", 0>>
ConstFalse == <<"const_false", 0>>

Load(operand) == Instr("movsd", xmm0, operand)
Store(operand) == Instr("movsd", operand, xmm0)
SlotAbove(offset) == Mem("rbp", offset)       (* As if frames grew upwards.    *)
Slot(offset) == Mem("rbp", -offset)
Clear == Instr("xorpd", xmm0, xmm0)
Jump(mnemonic, label) == Instr1(mnemonic, Target(label))
TestFalse == Instr("ucomisd", xmm0, Rel(ConstFalse))

AlignUp16(n) == ((n + 15) \div 16) * 16

-----------------------------------------------------------------------------
(* Tasks. *)

Expr(node) == [do |-> "expr", node |-> node]           (* gen_expr            *)
Stmt(node) == [do |-> "stmt", node |-> node]           (* gen_op              *)
Func(f) == [do |-> "func", func |-> f]                 (* gen_func            *)
Emit(code) == [do |-> "emit", code |-> code]           (* emit_instruction    *)
Place(label) == [do |-> "place", label |-> label]      (* emit_text_label     *)
MoveRsp(bytes) == [do |-> "rsp", bytes |-> bytes]      (* gen_sub_rsp, gen_add_rsp *)
AlignedCall(name) == [do |-> "call", name |-> name]    (* a call of the library *)
EndWhile == [do |-> "end_while"]
Exit == [do |-> "exit"]                                (* gen_exit, append_rodata *)

Task == todo[1]
Doing(do) == status = "generating" /\ todo # <<>> /\ Task.do = do
DoingExpr(kind) == Doing("expr") /\ Task.node.kind = kind

(* gen_op hands operations and calls to the functions that gen_expr uses.    *)
DoingOp == DoingExpr("OP") \/ (Doing("stmt") /\ Task.node.kind = "OP")
DoingCall == DoingExpr("CALL") \/ (Doing("stmt") /\ Task.node.kind = "CALL")
DoingStmt(kind) == Doing("stmt") /\ Task.node.kind = kind

Then(tasks) == todo' = tasks \o Tail(todo)

If(condition, tasks) == IF condition THEN tasks ELSE <<>>

-----------------------------------------------------------------------------
Init ==
  /\ functions \in Programs
  /\ todo = [i \in 1 .. Len(functions) |-> Func(functions[i])] \o <<Exit>>
  /\ instructions = <<>>
  /\ labels = <<>>
  /\ rodata = <<[label |-> ConstTrue, value |-> Unit], [label |-> ConstFalse, value |-> 0]>>
  /\ counters = [const |-> 0, cmp |-> 0, logic |-> 0, if |-> 0, while |-> 0,
                 func |-> 0, stack_offset |-> 0]
  /\ while_stack = <<>>
  /\ status = "generating"

-----------------------------------------------------------------------------
(* Emitting. *)

EmitCode ==
  /\ Doing("emit")
  /\ instruction_list_push_back(Task.code)
  /\ Then(<<>>)
  /\ UNCHANGED <<functions, labels, rodata, counters, while_stack, status>>

PlaceLabel ==
  /\ Doing("place")
  /\ label_list_push_back(<<[label |-> Task.label, index |-> Len(instructions)]>>)
  /\ Then(<<>>)
  /\ UNCHANGED <<functions, instructions, rodata, counters, while_stack, status>>

(* A positive number of bytes is taken from the stack, a negative one given  *)
(* back; the counter follows the register.                                   *)
OffsetAfter(bytes) == counters.stack_offset + bytes

gen_rsp ==
  /\ Doing("rsp")
  /\ instruction_list_push_back(<<IF Task.bytes > 0 THEN Instr("sub", rsp, Imm(Task.bytes))
                                 ELSE Instr("add", rsp, Imm(-Task.bytes))>>)
  /\ counters' = [counters EXCEPT !.stack_offset = OffsetAfter(Task.bytes)]
  /\ Then(<<>>)
  /\ UNCHANGED <<functions, labels, rodata, while_stack, status>>

Misaligned == counters.stack_offset % 16 # 0

(* As if the alignment were never taken back.                                *)
UnalignForgotten == <<>>

align_stack_before_call == If(Misaligned, <<MoveRsp(8)>>)
unalign_stack_after_call == If(Misaligned, <<MoveRsp(-8)>>)

CallAligned ==
  /\ Doing("call")
  /\ Then(align_stack_before_call \o <<Emit(<<Jump("call", <<Task.name, 0>>)>>)>>
            \o unalign_stack_after_call)
  /\ UNCHANGED <<functions, instructions, labels, rodata, counters, while_stack, status>>

(* Most of the walk only replaces tasks. *)
Replace(tasks) ==
  /\ Then(tasks)
  /\ UNCHANGED <<functions, instructions, labels, rodata, counters, while_stack, status>>

(* As if a number were taken and the counter kept.                           *)
NumberKept(kind) == counters

(* Generating a construct that needs labels of its own first takes the next  *)
(* number of its kind.                                                       *)
TakeNumber(kind) == [counters EXCEPT ![kind] = @ + 1]

Numbered(kind, tasks(_)) ==
  /\ counters' = TakeNumber(kind)
  /\ Then(tasks(counters[kind] + 1))
  /\ UNCHANGED <<functions, instructions, labels, rodata, while_stack, status>>

-----------------------------------------------------------------------------
(* Functions and the program. *)

(* As if the saved rbp were not counted.                                     *)
TakeParamTooLow(i) == <<Load(Mem("rbp", 8 * i)), Store(Slot(8 * i))>>
TakeParam(i) == <<Load(Mem("rbp", 8 * (i + 1))), Store(Slot(8 * i))>>

(* As if the saved rbp were dropped and not restored.                        *)
EpilogueKeepsRbp(frame) == <<Instr("add", rsp, Imm(frame + 8))>>

Prologue(frame) == <<Instr1("push", rbp), Instr("mov", rbp, rsp), Instr("sub", rsp, Imm(frame))>>
Epilogue(frame) == <<Instr("add", rsp, Imm(frame)), Instr1("pop", rbp)>>

gen_func ==
  /\ Doing("func")
  /\ LET f == Task.func
         frame == AlignUp16(f.frame_size)
         entry == Name[f.id] \in EntryNames
     IN  /\ counters' = [counters EXCEPT !.func = f.id, !.stack_offset = 0]
         /\ Then(If(entry, <<Place(<<"main", 0>>)>>)
                 \o <<Place(<<"func", f.id>>),
                      Emit(Prologue(frame))>>
                 \o [i \in 1 .. f.params |-> Emit(TakeParam(i))]
                 \o <<Stmt(f.body),
                      Emit(<<Clear>>),
                      Place(<<"func_end", f.id>>),
                      Emit(Epilogue(frame)),
                      Emit(<<IF entry THEN Jump("call", <<"__exit", 0>>) ELSE Instr0("ret")>>)>>)
         /\ UNCHANGED <<functions, instructions, labels, rodata, while_stack, status>>

(* The constants follow the code, and their labels follow them. *)
gen_exit ==
  /\ Doing("exit")
  /\ LET code == <<Instr("mov", Reg("rax"), Imm(60)), Instr("xor", Reg("rdi"), Reg("rdi")),
                   Instr0("syscall")>>
         text == Len(instructions) + Len(code)
     IN  /\ instruction_list_push_back(code \o [i \in 1 .. Len(rodata) |-> Instr1("dq", Imm(rodata[i].value))])
         /\ label_list_push_back(
              <<[label |-> <<"__exit", 0>>, index |-> Len(instructions)]>>
              \o [i \in 1 .. Len(rodata) |-> [label |-> rodata[i].label, index |-> text + i - 1]])
  /\ status' = "done"
  /\ Then(<<>>)
  /\ UNCHANGED <<functions, rodata, counters, while_stack>>

-----------------------------------------------------------------------------
(* Statements. *)

gen_block ==
  /\ DoingStmt("BODY")
  /\ Replace([i \in 1 .. Len(Task.node.kids) |-> Stmt(Task.node.kids[i])])

(* A number or a variable alone in a statement has no effect and no code.    *)
gen_nothing ==
  /\ DoingStmt("NUM") \/ DoingStmt("VAR")
  /\ Replace(<<>>)

(* As if the end of a condition were a label of the whole program.           *)
IfEndGlobal(id) == <<"if_end", id>>
IfEnd(id) == <<".if_end", id>>

gen_if ==
  /\ DoingStmt("IF")
  /\ LET kids == Task.node.kids
         else == Len(kids) >= 3
     IN  Numbered("if", LAMBDA id :
           <<Expr(kids[1]),
             Emit(<<TestFalse, Jump("jp", <<".if_true", id>>), Jump("je", IfEnd(id))>>),
             Place(<<".if_true", id>>),
             Stmt(kids[2])>>
           \o If(else, <<Emit(<<Jump("jmp", <<".if_else_end", id>>)>>)>>)
           \o <<Place(IfEnd(id))>>
           \o If(else, <<Stmt(kids[3]), Place(<<".if_else_end", id>>)>>))

(* As if one loop too many fitted.                                           *)
RoomOffByOne == Len(while_stack) <= WhileCapacity
RoomForLoop == Len(while_stack) < WhileCapacity

gen_while ==
  /\ DoingStmt("WHILE") /\ RoomForLoop
  /\ LET kids == Task.node.kids
         id == counters.while + 1
         loop == <<".while_loop", id>>
         end == <<".while_end", id>>
     IN  /\ while_stack' = Append(while_stack, id)
         /\ counters' = TakeNumber("while")
         /\ Then(<<Expr(kids[1]), Emit(<<TestFalse, Jump("jp", loop), Jump("je", end)>>),
                   Place(loop),
                   Stmt(kids[2]),
                   Expr(kids[1]), Emit(<<TestFalse, Jump("jp", loop), Jump("jne", loop)>>),
                   Place(end),
                   EndWhile>>)
         /\ UNCHANGED <<functions, instructions, labels, rodata, status>>

EndOfWhile ==
  /\ Doing("end_while")
  /\ while_stack' = SubSeq(while_stack, 1, Len(while_stack) - 1)
  /\ Then(<<>>)
  /\ UNCHANGED <<functions, instructions, labels, rodata, counters, status>>

(* As if a break left the outermost loop.                                    *)
BreakOutermost(stack) == stack[1]
BreakTarget(stack) == stack[Len(stack)]

gen_break ==
  /\ DoingStmt("BREAK") /\ while_stack # <<>>
  /\ instruction_list_push_back(<<Jump("jmp", <<".while_end", BreakTarget(while_stack)>>)>>)
  /\ Then(<<>>)
  /\ UNCHANGED <<functions, labels, rodata, counters, while_stack, status>>

(* The assertions on while_stack in gen_while and gen_break. *)
Abort ==
  /\ \/ DoingStmt("WHILE") /\ ~RoomForLoop
     \/ DoingStmt("BREAK") /\ while_stack = <<>>
  /\ status' = "aborted"
  /\ UNCHANGED <<functions, todo, instructions, labels, rodata, counters, while_stack>>

ValueOrZero(kids) == IF kids = <<>> THEN Emit(<<Clear>>) ELSE Expr(kids[1])

gen_var_decl ==
  /\ DoingStmt("VAR_DECL")
  /\ Replace(<<ValueOrZero(Task.node.kids), Emit(<<Store(Slot(Task.node.num))>>)>>)

(* As if a return jumped to another function, or to the start of its own.    *)
RetNextFunction(id) == <<"func_end", id + 1>>
RetToStart(id) == <<"func", id>>
RetTarget(id) == <<"func_end", id>>

gen_ret ==
  /\ DoingStmt("RET")
  /\ Replace(<<ValueOrZero(Task.node.kids),
               Emit(<<Jump("jmp", RetTarget(counters.func))>>)>>)

-----------------------------------------------------------------------------
(* Expressions: the value ends up in xmm0. *)

gen_var ==
  /\ DoingExpr("VAR")
  /\ Replace(<<Emit(<<Load(Slot(Task.node.num))>>)>>)

(* As if the two constants every program has were overlooked.                *)
HoldersAdded(value) == {i \in 3 .. Len(rodata) : rodata[i].value = value}

(* get_or_add_rodata_double_label: a value already in .rodata is shared.     *)
Holders(value) == {i \in 1 .. Len(rodata) : rodata[i].value = value}

gen_num ==
  /\ DoingExpr("NUM")
  /\ LET holders == Holders(Task.node.num)
     IN  \/ /\ holders # {}
            /\ Replace(<<Emit(<<Load(Rel(rodata[CHOOSE i \in holders : TRUE].label))>>)>>)
         \/ /\ holders = {}
            /\ LET label == <<"const", counters.const>>
               IN  /\ rodata' = Append(rodata, [label |-> label, value |-> Task.node.num])
                   /\ counters' = [counters EXCEPT !.const = @ + 1]
                   /\ Then(<<Emit(<<Load(Rel(label))>>)>>)
                   /\ UNCHANGED <<functions, instructions, labels, while_stack, status>>

Saved == Mem("rsp", 0)

(* As if the left operand waited and the right one were in xmm0.             *)
OperandsSwapped(left, right) ==
  <<Expr(left), MoveRsp(8), Emit(<<Store(Saved)>>), Expr(right)>>

(* The right operand is computed first and waits on the stack.               *)
OperandTasks(left, right) ==
  <<Expr(right), MoveRsp(8), Emit(<<Store(Saved)>>), Expr(left)>>

SseOf == [op \in Arithmetic |->
            CASE op = "ADD" -> "addsd" [] op = "SUB" -> "subsd"
              [] op = "MUL" -> "mulsd" [] op = "DIV" -> "divsd"]

gen_arithmetic ==
  /\ DoingOp /\ Task.node.op \in Arithmetic
  /\ Replace(OperandTasks(Task.node.kids[1], Task.node.kids[2])
             \o <<Emit(<<Instr(SseOf[Task.node.op], xmm0, Saved)>>), MoveRsp(-8)>>)

gen_assign ==
  /\ DoingOp /\ Task.node.op = "ASSIGN"
  /\ Replace(<<Expr(Task.node.kids[2]), Emit(<<Store(Slot(Task.node.kids[1].num))>>)>>)

JumpOf == [op \in Comparisons |->
             CASE op = "IS_EQUAL" -> "je" [] op = "IS_NOT_EQUAL" -> "jne"
               [] op = "GREATER_EQUAL" -> "jae" [] op = "GREATER" -> "ja"
               [] op = "LESS_EQUAL" -> "jbe" [] op = "LESS" -> "jb"]

(* gen_op_node generates the right operand before gen_cmp takes a number, so *)
(* the numbers of the comparisons in it come first: the tasks are split.     *)
gen_cmp_right ==
  /\ DoingOp /\ Task.node.op \in Comparisons
  /\ Replace(<<Expr(Task.node.kids[2]), [do |-> "cmp", node |-> Task.node]>>)

gen_cmp ==
  /\ Doing("cmp")
  /\ LET op == Task.node.op
         left == Task.node.kids[1]
     IN  Numbered("cmp", LAMBDA id :
           <<MoveRsp(8), Emit(<<Store(Saved)>>), Expr(left),
             Emit(<<Instr("ucomisd", xmm0, Saved),
                    Jump("jp", <<IF op = "IS_NOT_EQUAL" THEN ".cmp_true" ELSE ".cmp_false", id>>),
                    Jump(JumpOf[op], <<".cmp_true", id>>)>>),
             Place(<<".cmp_false", id>>),
             Emit(<<Load(Rel(ConstFalse)), Jump("jmp", <<".cmp_end", id>>)>>),
             Place(<<".cmp_true", id>>),
             Emit(<<Load(Rel(ConstTrue))>>),
             Place(<<".cmp_end", id>>),
             MoveRsp(-8)>>)

gen_logic_or ==
  /\ DoingOp /\ Task.node.op = "LOGIC_OR"
  /\ LET kids == Task.node.kids
     IN  Numbered("logic", LAMBDA id :
           LET true == <<".logic_true", id>>
               end == <<".logic_end", id>>
               test == Emit(<<TestFalse, Jump("jp", true), Jump("jne", true)>>)
           IN  <<Expr(kids[1]), test, Expr(kids[2]), test,
                 Emit(<<Load(Rel(ConstFalse)), Jump("jmp", end)>>),
                 Place(true), Emit(<<Load(Rel(ConstTrue))>>), Place(end)>>)

gen_logic_and ==
  /\ DoingOp /\ Task.node.op = "LOGIC_AND"
  /\ LET kids == Task.node.kids
     IN  Numbered("logic", LAMBDA id :
           LET true == <<".logic_true", id>>
               false == <<".logic_false", id>>
               rhs == <<".logic_and_rhs", id>>
               end == <<".logic_end", id>>
           IN  <<Expr(kids[1]), Emit(<<TestFalse, Jump("jp", rhs), Jump("je", false)>>),
                 Place(rhs),
                 Expr(kids[2]), Emit(<<TestFalse, Jump("jp", true), Jump("je", false)>>),
                 Place(true), Emit(<<Load(Rel(ConstTrue)), Jump("jmp", end)>>),
                 Place(false), Emit(<<Load(Rel(ConstFalse))>>), Place(end)>>)

-----------------------------------------------------------------------------
(* Calls. *)

CallName == Name[Task.node.num]
Args == Task.node.kids

PassArgs(args) ==
  [j \in 1 .. 2 * Len(args) |->
     LET i == (j + 1) \div 2
     IN  IF j % 2 = 1 THEN Expr(args[i]) ELSE Emit(<<Store(Mem("rsp", 8 * (i - 1)))>>)]

(* The stack is aligned before the arguments are put on it.                  *)
gen_call ==
  /\ DoingCall /\ CallName \notin BuiltinNames
  /\ LET bytes == 8 * Len(Args)
     IN  Replace(align_stack_before_call
                 \o (If(Args # <<>>, <<MoveRsp(bytes)>>)
                     \o (PassArgs(Args) \o <<Emit(<<Jump("call", <<"func", Task.node.num>>)>>)>>)
                     \o If(Args # <<>>, <<MoveRsp(-bytes)>>))
                 \o unalign_stack_after_call)

(* A wrong number of arguments is reported on stderr and generates nothing.  *)
gen_out ==
  /\ DoingCall /\ CallName \in OutNames
  /\ Replace(If(Len(Args) = 1, <<Expr(Args[1]), AlignedCall("__out")>>))

gen_in ==
  /\ DoingCall /\ CallName \in InNames
  /\ Replace(If(Args = <<>>, <<AlignedCall("__in")>>))

gen_sqrt ==
  /\ DoingCall /\ CallName \in SqrtNames
  /\ Replace(If(Len(Args) = 1, <<Expr(Args[1]), Emit(<<Instr("sqrtsd", xmm0, xmm0)>>)>>))

-----------------------------------------------------------------------------
GenStmt == gen_block \/ gen_nothing \/ gen_if \/ gen_while \/ EndOfWhile \/ gen_break
           \/ gen_var_decl \/ gen_ret
GenExpr == gen_var \/ gen_num \/ gen_arithmetic \/ gen_assign \/ gen_cmp_right \/ gen_cmp
           \/ gen_logic_or \/ gen_logic_and
GenCall == gen_call \/ gen_out \/ gen_in \/ gen_sqrt \/ CallAligned

Generate == EmitCode \/ PlaceLabel \/ gen_rsp \/ gen_func \/ gen_exit
            \/ GenStmt \/ GenExpr \/ GenCall \/ Abort

Next == Generate

Spec == Init /\ [][Next]_vars /\ WF_vars(Next)


-----------------------------------------------------------------------------
(* Properties. *)

Things == {"expr", "stmt", "func", "emit", "place", "rsp", "call", "cmp", "end_while", "exit"}

(* The counters count, the loops that are open fit in while_stack and have   *)
(* been numbered, and the walk ends or is aborted by one of its assertions.  *)
TypeOK ==
  /\ functions \in Programs
  /\ \A i \in 1 .. Len(todo) : todo[i].do \in Things
  /\ \A kind \in DOMAIN counters : counters[kind] \in Nat
  /\ while_stack \in Seq(1 .. counters.while) /\ Len(while_stack) <= WhileCapacity
  /\ \A i \in 1 .. Len(labels) : labels[i].index \in 0 .. Len(instructions)
  /\ status \in {"generating", "done", "aborted"}

(* A temporary lives within one statement: whenever gen_op is entered, and   *)
(* when a function has been generated, everything that was taken from the    *)
(* stack has been given back, however the expressions before were nested.    *)
TemporariesReturned ==
  (Doing("stmt") \/ Doing("func") \/ Doing("exit")) => counters.stack_offset = 0

(* while_stack holds the numbers of the loops the walk is inside, innermost  *)
(* last: the kth loop that is still to be closed ends at the label that a    *)
(* break compiled now, k loops out, would jump to.                           *)
Ends == {i \in 1 .. Len(todo) : todo[i].do = "end_while"}
BreakLeavesInnermostLoop ==
  /\ Cardinality(Ends) = Len(while_stack)
  /\ \A i \in Ends :
       LET inside == Cardinality({j \in Ends : j < i})
           around == SubSeq(while_stack, 1, Len(while_stack) - inside)
       IN  i > 1 => todo[i - 1] = Place(<<".while_end", BreakTarget(around)>>)

(* Labels are looked up by name and the first one found is used: no name is  *)
(* defined twice in a program.                                               *)
LabelsUnique ==
  status = "done" => \A i, j \in 1 .. Len(labels) : labels[i].label = labels[j].label => i = j

(* Every jump, call and constant names a label that exists, except the two   *)
(* functions of the library.                                                 *)
Named == {"label", "rel"}
References == {o \in UNION {{instructions[i].dst, instructions[i].src} : i \in 1 .. Len(instructions)} :
                 o.k \in Named}
LabelsResolve ==
  status = "done" =>
    \A o \in References :
      \/ o.l \in {"__out", "__in"}
      \/ \E i \in 1 .. Len(labels) : labels[i].label = <<o.l, o.v>>

(* NASM looks a name that begins with a dot up below the last label without  *)
(* one: the label before a jump and the label before its target are then the *)
(* same.                                                                     *)
LocalNames == {".if_true", ".if_end", ".if_else_end", ".while_loop", ".while_end", ".cmp_true",
               ".cmp_false", ".cmp_end", ".logic_true", ".logic_false", ".logic_and_rhs", ".logic_end"}
Global(i) == labels[i].label[1] \notin LocalNames
FunctionAt(last) == {i \in last : Global(i) /\ \A j \in last : Global(j) => j <= i}
LocalJumpsStayInFunction ==
  status = "done" =>
    \A i \in 1 .. Len(instructions) : instructions[i].dst.l \in LocalNames =>
      \A j \in 1 .. Len(labels) :
        labels[j].label = <<instructions[i].dst.l, instructions[i].dst.v>> =>
          FunctionAt(1 .. j) = FunctionAt({k \in 1 .. Len(labels) : labels[k].index < i})

(* README 399: .rodata holds no constant twice.                              *)
ConstantsDistinct ==
  \A i, j \in 1 .. Len(rodata) : rodata[i].value = rodata[j].value => i = j

(* README 354, "before a call it adds 8 bytes when needed, for an alignment  *)
(* of 16 bytes": the stack is aligned where a call is emitted.               *)
CallsAligned ==
  (Doing("emit") /\ Task.code[1].m = "call" /\ Task.code[1].dst # Target(<<"__exit", 0>>)) =>
    counters.stack_offset % 16 = 0

(* README 387, "the names of user functions are encoded as func_<id>": what  *)
(* a call of a function of the program becomes includes a call of its label. *)
UserCallsCompiled ==
  [][(DoingCall /\ \E i \in 1 .. Len(functions) : functions[i].id = Task.node.num) =>
       \E i \in 1 .. Len(todo') : todo'[i] = Emit(<<Jump("call", <<"func", Task.node.num>>)>>)]_vars
=============================================================================
