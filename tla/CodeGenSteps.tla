----------------------------- MODULE CodeGenSteps -----------------------------
(***************************************************************************)
(* What the steps of CodeGen do, as the proofs about it use them: the      *)
(* types of tasks and instructions, the stack pointer along a list of      *)
(* tasks, and for each step the tasks it leaves in the place of its own.   *)
(***************************************************************************)
EXTENDS CodeGen, FiniteSetTheorems, SequenceTheorems, TLAPS

-----------------------------------------------------------------------------
(* Types. *)

(* The names of labels, each followed by a number. *)
GlobalNames == {"main", "func", "func_end"}
DataNames == {"const", "const_true", "const_false"}
LabelNames == LocalNames \cup GlobalNames \cup DataNames \cup {"__exit", "__out", "__in"}
Names == LabelNames \X Int
Constant == [label : Names, value : Int]

(* Operands and instructions that name no other labels than those of a set.  *)
Mnemonics == {"movsd", "xorpd", "ucomisd", "sub", "add", "push", "pop", "mov", "ret", "xor", "syscall",
              "dq", "sqrtsd", "call", "jmp", "jp", "je", "jne", "jae", "ja", "jbe", "jb",
              "addsd", "subsd", "mulsd", "divsd"}
RegisterNames == {"xmm0", "rsp", "rbp", "rax", "rdi", ""}
Operands(used) ==
  {o \in [k : {"reg", "mem", "rel", "imm", "label", "none"}, l : RegisterNames \cup LabelNames, v : Int] :
     IF o.k \in Named THEN LabelOf(o) \in used ELSE o.l \in RegisterNames}
Code(used) == [m : Mnemonics, dst : Operands(used), src : Operands(used)]
Marks == [label : Names, index : Nat]

(* The tasks of a walk over some nodes, by what they do. *)
Exprs(nodes) == [do : {"expr"}, node : nodes]
Stmts(nodes) == [do : {"stmt"}, node : nodes]
Compares(nodes) == [do : {"cmp"}, node : {n \in nodes : n.kind = "OP" /\ n.op \in Comparisons}]
LibraryCalls == [do : {"call"}, name : {"__out", "__in"}]
Emits(used) == [do : {"emit"}, code : Seq(Code(used))]
Places(own) == [do : {"place"}, label : own]
Moves == [do : {"rsp"}, bytes : Int]
Funcs(nodes) == [do : {"func"}, func : FuncOf(nodes)]
Closing == [do : {"end_while", "exit"}]

Plain(nodes) == Exprs(nodes) \cup Compares(nodes) \cup LibraryCalls
Tasks(nodes) ==
  Plain(nodes) \cup Stmts(nodes) \cup Emits(Names) \cup Places(Names) \cup Moves \cup Funcs(nodes) \cup Closing

Counters == [const : Nat, cmp : Nat, logic : Nat, if : Nat, while : Nat, func : Nat, stack_offset : Int]

(* Types of all variables.  That no more is given back to the stack than was *)
(* taken is a matter of the order of the tasks and follows later.            *)
Typed ==
  /\ functions \in Programs
  /\ todo \in Seq(Tasks(Nodes[functions]))
  /\ instructions \in Seq(Code(Names))
  /\ labels \in Seq(Marks)
  /\ rodata \in Seq(Constant)
  /\ counters \in Counters
  /\ while_stack \in Seq(Nat)
  /\ status \in {"generating", "done", "aborted"}

-----------------------------------------------------------------------------
(* Operands, instructions and tasks have their types. *)

LEMMA NameTypes ==
  ASSUME NEW name \in LabelNames, NEW number \in Int
  PROVE  <<name, number>> \in Names
  BY DEF Names

LEMMA OperandTypes ==
  ASSUME NEW used \in SUBSET Names
  PROVE  /\ \A name \in RegisterNames : Reg(name) \in Operands(used)
         /\ \A base \in RegisterNames, d \in Int : Mem(base, d) \in Operands(used)
         /\ \A label \in used : Rel(label) \in Operands(used) /\ Target(label) \in Operands(used)
         /\ \A value \in Int : Imm(value) \in Operands(used)
         /\ NoOperand \in Operands(used)
<1> USE DEF Operands, Named
<1>1. \A name \in RegisterNames : Reg(name) \in Operands(used)
  BY DEF Reg
<1>2. \A base \in RegisterNames, d \in Int : Mem(base, d) \in Operands(used)
  BY DEF Mem
<1>3. ASSUME NEW label \in used
      PROVE  Rel(label) \in Operands(used) /\ Target(label) \in Operands(used)
  <2>1. label[1] \in LabelNames /\ label[2] \in Int /\ label = <<label[1], label[2]>>
    BY DEF Names
  <2> QED
    BY <2>1 DEF Rel, Target, LabelOf
<1>4. "" \in RegisterNames
  BY DEF RegisterNames
<1>5. \A value \in Int : Imm(value) \in Operands(used)
  BY <1>4 DEF Imm
<1>6. ASSUME NEW zero \in Int, zero = 0
      PROVE  NoOperand \in Operands(used)
  <2>1. [k |-> "none", l |-> "", v |-> zero] \in Operands(used)
    BY <1>4
  <2>2. NoOperand = [k |-> "none", l |-> "", v |-> zero]
    BY <1>6, Zenon DEF NoOperand
  <2> HIDE DEF Operands
  <2> QED
    BY <2>1, <2>2, Zenon
<1>7. NoOperand \in Operands(used)
  BY <1>6
<1> QED
  BY <1>1, <1>2, <1>3, <1>5, <1>7

LEMMA InstructionTypes ==
  ASSUME NEW used \in SUBSET Names,
         NEW m \in Mnemonics, NEW d \in Operands(used), NEW s \in Operands(used)
  PROVE  /\ Instr(m, d, s) \in Code(used)
         /\ Instr1(m, d) \in Code(used)
         /\ Instr0(m) \in Code(used)
  BY OperandTypes DEF Code, Instr, Instr1, Instr0

LEMMA CodeTypes ==
  ASSUME NEW used \in SUBSET Names, ConstFalse \in used
  PROVE  /\ xmm0 \in Operands(used) /\ rsp \in Operands(used) /\ rbp \in Operands(used)
         /\ \A o \in Operands(used) : Load(o) \in Code(used) /\ Store(o) \in Code(used)
         /\ Clear \in Code(used) /\ TestFalse \in Code(used)
         /\ \A m \in Mnemonics, label \in used : Jump(m, label) \in Code(used)
<1>1. xmm0 \in Operands(used) /\ rsp \in Operands(used) /\ rbp \in Operands(used)
  <2>1. "xmm0" \in RegisterNames /\ "rsp" \in RegisterNames /\ "rbp" \in RegisterNames
    BY DEF RegisterNames
  <2> QED
    BY <2>1, OperandTypes DEF xmm0, rsp, rbp
<1>2. "movsd" \in Mnemonics /\ "xorpd" \in Mnemonics /\ "ucomisd" \in Mnemonics
  BY DEF Mnemonics
<1>3. \A o \in Operands(used) : Load(o) \in Code(used) /\ Store(o) \in Code(used)
  BY <1>1, <1>2, InstructionTypes DEF Load, Store
<1>4. Clear \in Code(used)
  BY <1>1, <1>2, InstructionTypes DEF Clear
<1>5. TestFalse \in Code(used)
  BY <1>1, <1>2, OperandTypes, InstructionTypes DEF TestFalse
<1>6. \A m \in Mnemonics, label \in used : Jump(m, label) \in Code(used)
  BY OperandTypes, InstructionTypes DEF Jump
<1> QED
  BY <1>1, <1>3, <1>4, <1>5, <1>6

(* The memory operands of the generator. *)
LEMMA SlotTypes ==
  ASSUME NEW used \in SUBSET Names, NEW number \in Int
  PROVE  /\ Slot(number) \in Operands(used)
         /\ Mem("rbp", number) \in Operands(used)
         /\ Mem("rsp", number) \in Operands(used)
<1>1. "rbp" \in RegisterNames /\ "rsp" \in RegisterNames /\ -number \in Int
  BY DEF RegisterNames
<1> QED
  BY <1>1, OperandTypes DEF Slot

(* What a task holds. *)
LEMMA TaskFields ==
  ASSUME NEW nodes, NEW t \in Tasks(nodes)
  PROVE  /\ t.do \in Things
         /\ t.do \in {"expr", "stmt", "cmp"} => t.node \in nodes
         /\ t.do = "cmp" => t.node.kind = "OP" /\ t.node.op \in Comparisons
         /\ t.do = "func" => t.func \in FuncOf(nodes)
         /\ t.do = "emit" => t.code \in Seq(Code(Names))
         /\ t.do = "place" => t.label \in Names
         /\ t.do = "rsp" => t.bytes \in Int
         /\ t.do = "call" => t.name \in {"__out", "__in"}
<1> USE DEF Tasks, Plain, Exprs, Stmts, Compares, LibraryCalls, Emits, Places, Moves, Funcs, Closing
<1>1. t.do \in Things
  BY DEF Things
<1> QED
  BY <1>1

LEMMA NodeFields ==
  ASSUME Typed, NEW n \in Nodes[functions]
  PROVE  /\ n.num \in Int
         /\ n.kids \in Seq(Nodes[functions])
         /\ n.kind \in {"OP", "IF", "WHILE"} => Len(n.kids) >= 2
         /\ n.kind = "CALL" =>
              \/ Name[n.num] \in BuiltinNames
              \/ \E i \in 1 .. Len(functions) : functions[i].id = n.num
  BY ProgramsAssumption DEF Typed, Analysed

(* The tasks after a step: new ones, then all but the first of the old ones. *)
LEMMA Splice ==
  ASSUME NEW T, todo \in Seq(T), todo # <<>>, NEW tasks \in Seq(T), Then(tasks)
  PROVE  /\ todo' \in Seq(T)
         /\ Len(todo') = Len(tasks) + Len(todo) - 1
         /\ \A i \in 1 .. Len(tasks) : todo'[i] = tasks[i]
         /\ \A i \in 2 .. Len(todo) : todo'[i + Len(tasks) - 1] = todo[i]
         /\ \A i \in 1 .. Len(todo') :
              \/ i <= Len(tasks) /\ todo'[i] = tasks[i]
              \/ i > Len(tasks) /\ i - Len(tasks) + 1 \in 2 .. Len(todo) /\ todo'[i] = todo[i - Len(tasks) + 1]
  BY DEF Then

-----------------------------------------------------------------------------
(* The stack pointer. *)

(* What is left on the stack after each of some tasks, from so many bytes    *)
(* before the first to so many after the last: an expression gives back all  *)
(* it takes, and a statement or a function begins with nothing taken.        *)
Balanced(tasks, from, to) ==
  \E taken \in [1 .. Len(tasks) + 1 -> Nat] :
    /\ taken[1] = from /\ taken[Len(tasks) + 1] = to
    /\ \A i \in 1 .. Len(tasks) :
         /\ taken[i + 1] = taken[i] + (IF tasks[i].do = "rsp" THEN tasks[i].bytes ELSE 0)
         /\ tasks[i].do \in {"stmt", "func", "exit"} => taken[i] = 0

(* Tasks that move nothing. *)
LEMMA NeutralTasks ==
  ASSUME NEW S, NEW tasks \in Seq(S), NEW bytes \in Nat,
         \A i \in 1 .. Len(tasks) : /\ tasks[i].do \notin {"rsp", "func", "exit"}
                                    /\ tasks[i].do = "stmt" => bytes = 0
  PROVE  Balanced(tasks, bytes, bytes)
<1> DEFINE taken == [i \in 1 .. Len(tasks) + 1 |-> bytes]
<1>1. Len(tasks) \in Nat
  OBVIOUS
<1>2. taken \in [1 .. Len(tasks) + 1 -> Nat] /\ taken[1] = bytes /\ taken[Len(tasks) + 1] = bytes
  BY <1>1
<1>3. ASSUME NEW i \in 1 .. Len(tasks)
      PROVE  /\ taken[i + 1] = taken[i] + (IF tasks[i].do = "rsp" THEN tasks[i].bytes ELSE 0)
             /\ tasks[i].do \in {"stmt", "func", "exit"} => taken[i] = 0
  BY <1>1
<1> QED
  BY <1>2, <1>3 DEF Balanced

LEMMA NeutralBalanced ==
  ASSUME NEW S, NEW tasks \in Seq(S), NEW bytes \in Nat,
         \A t \in S : /\ t.do \notin {"rsp", "func", "exit"}
                      /\ t.do = "stmt" => bytes = 0
  PROVE  Balanced(tasks, bytes, bytes)
<1>1. \A i \in 1 .. Len(tasks) : tasks[i] \in S
  OBVIOUS
<1> QED
  BY <1>1, NeutralTasks

LEMMA MoveBalanced ==
  ASSUME NEW from \in Nat, NEW bytes \in Int, from + bytes \in Nat
  PROVE  Balanced(<<MoveRsp(bytes)>>, from, from + bytes)
<1> DEFINE taken == [i \in 1 .. 2 |-> IF i = 1 THEN from ELSE from + bytes]
           tasks == <<MoveRsp(bytes)>>
<1>1. Len(tasks) = 1 /\ tasks[1].do = "rsp" /\ tasks[1].bytes = bytes
  BY DEF MoveRsp
<1>2. taken \in [1 .. 2 -> Nat] /\ taken[1] = from /\ taken[2] = from + bytes
  OBVIOUS
<1> HIDE DEF taken, tasks
<1>3. Balanced(tasks, from, from + bytes)
  BY <1>1, <1>2 DEF Balanced
<1> QED
  BY <1>3 DEF tasks

LEMMA ConcatBalanced ==
  ASSUME NEW S, NEW first \in Seq(S), NEW second \in Seq(S),
         NEW a, NEW b, NEW c, Balanced(first, a, b), Balanced(second, b, c)
  PROVE  Balanced(first \o second, a, c)
<1>1. PICK f \in [1 .. Len(first) + 1 -> Nat] :
        /\ f[1] = a /\ f[Len(first) + 1] = b
        /\ \A i \in 1 .. Len(first) :
             /\ f[i + 1] = f[i] + (IF first[i].do = "rsp" THEN first[i].bytes ELSE 0)
             /\ first[i].do \in {"stmt", "func", "exit"} => f[i] = 0
  BY DEF Balanced
<1>2. PICK g \in [1 .. Len(second) + 1 -> Nat] :
        /\ g[1] = b /\ g[Len(second) + 1] = c
        /\ \A i \in 1 .. Len(second) :
             /\ g[i + 1] = g[i] + (IF second[i].do = "rsp" THEN second[i].bytes ELSE 0)
             /\ second[i].do \in {"stmt", "func", "exit"} => g[i] = 0
  BY DEF Balanced
<1> DEFINE m == Len(first)
           n == Len(second)
           both == first \o second
           taken == [i \in 1 .. m + n + 1 |-> IF i <= m THEN f[i] ELSE g[i - m]]
<1>3. m \in Nat /\ n \in Nat /\ Len(both) = m + n
  OBVIOUS
<1>4. taken \in [1 .. m + n + 1 -> Nat] /\ taken[1] = a /\ taken[m + n + 1] = c
  <2>1. \A i \in 1 .. m + n + 1 : IF i <= m THEN i \in 1 .. m + 1 ELSE i - m \in 1 .. n + 1
    BY <1>3
  <2>2. taken \in [1 .. m + n + 1 -> Nat]
    BY <2>1
  <2>3. taken[1] = a
    BY <1>1, <1>2, <1>3
  <2>4. taken[m + n + 1] = c
    BY <1>1, <1>2, <1>3
  <2> QED
    BY <2>2, <2>3, <2>4
<1>5. ASSUME NEW i \in 1 .. m + n
      PROVE  /\ taken[i + 1] = taken[i] + (IF both[i].do = "rsp" THEN both[i].bytes ELSE 0)
             /\ both[i].do \in {"stmt", "func", "exit"} => taken[i] = 0
  <2>1. CASE i < m
    <3>1. both[i] = first[i] /\ taken[i] = f[i] /\ taken[i + 1] = f[i + 1]
      BY <2>1, <1>3
    <3>2. i \in 1 .. m
      BY <2>1, <1>3
    <3> HIDE DEF taken, both
    <3> QED
      BY <3>1, <3>2, <1>1
  <2>2. CASE i = m
    <3>1. both[i] = first[i] /\ taken[i] = f[i]
      BY <2>2, <1>3
    <3>2. i + 1 \in 1 .. m + n + 1 /\ ~(i + 1 <= m) /\ (i + 1) - m = 1
      BY <2>2, <1>3
    <3>3. taken[i + 1] = g[1] /\ g[1] = f[i + 1]
      BY <3>2, <2>2, <1>1, <1>2
    <3>4. taken[i + 1] = f[i + 1]
      BY <3>3
    <3> HIDE DEF taken, both
    <3> QED
      BY <3>1, <3>4, <2>2, <1>1, <1>3
  <2>3. CASE i > m
    <3>1. both[i] = second[i - m]
      BY <2>3, <1>3
    <3>2. /\ i - m \in 1 .. n /\ i \in 1 .. m + n + 1 /\ i + 1 \in 1 .. m + n + 1
          /\ ~(i <= m) /\ ~(i + 1 <= m) /\ (i + 1) - m = (i - m) + 1
      BY <2>3, <1>3
    <3>3. taken[i] = g[i - m] /\ taken[i + 1] = g[(i - m) + 1]
      BY <3>2
    <3> HIDE DEF taken, both
    <3> QED
      BY <3>1, <3>2, <3>3, <1>2
  <2> QED
    BY <2>1, <2>2, <2>3, <1>3
<1> HIDE DEF taken
<1>6. Balanced(both, a, c)
  <2> HIDE DEF both, m, n
  <2>1. taken \in [1 .. Len(both) + 1 -> Nat] /\ taken[1] = a /\ taken[Len(both) + 1] = c
    BY <1>3, <1>4
  <2>2. \A i \in 1 .. Len(both) :
          /\ taken[i + 1] = taken[i] + (IF both[i].do = "rsp" THEN both[i].bytes ELSE 0)
          /\ both[i].do \in {"stmt", "func", "exit"} => taken[i] = 0
    BY <1>3, <1>5
  <2> QED
    BY <2>1, <2>2 DEF Balanced
<1> QED
  BY <1>6

(* What is taken before some tasks and given back after them. *)
LEMMA BracketBalanced ==
  ASSUME NEW S, Moves \subseteq S, NEW inner \in Seq(S), NEW from \in Nat, NEW bytes \in Nat,
         Balanced(inner, from + bytes, from + bytes)
  PROVE  LET tasks == <<MoveRsp(bytes)>> \o inner \o <<MoveRsp(-bytes)>>
         IN  tasks \in Seq(S) /\ Balanced(tasks, from, from)
<1> DEFINE up == <<MoveRsp(bytes)>>
           down == <<MoveRsp(-bytes)>>
<1>1. up \in Seq(S) /\ down \in Seq(S)
  <2>1. MoveRsp(bytes) \in S /\ MoveRsp(-bytes) \in S
    BY DEF MoveRsp, Moves
  <2> QED
    BY <2>1
<1>2. Balanced(up, from, from + bytes)
  BY MoveBalanced
<1>3. Balanced(down, from + bytes, from)
  <2>1. from + bytes \in Nat /\ -bytes \in Int /\ (from + bytes) + (-bytes) = from
    OBVIOUS
  <2>2. Balanced(<<MoveRsp(-bytes)>>, from + bytes, (from + bytes) + (-bytes))
    BY <2>1, MoveBalanced
  <2> QED
    BY <2>1, <2>2
<1> HIDE DEF up, down
<1>4. up \o inner \in Seq(S) /\ Balanced(up \o inner, from, from + bytes)
  BY <1>1, <1>2, ConcatBalanced
<1>5. (up \o inner) \o down \in Seq(S) /\ Balanced((up \o inner) \o down, from, from)
  <2> DEFINE first == up \o inner
  <2>1. first \in Seq(S) /\ Balanced(first, from, from + bytes)
    BY <1>4
  <2> HIDE DEF first
  <2>2. first \o down \in Seq(S) /\ Balanced(first \o down, from, from)
    BY <2>1, <1>1, <1>3, ConcatBalanced
  <2> QED
    BY <2>2 DEF first
<1> QED
  BY <1>5 DEF up, down

(* What is left of balanced tasks after the first of them. *)
LEMMA TailBalanced ==
  ASSUME NEW S, NEW tasks \in Seq(S), tasks # <<>>, NEW from, NEW to, Balanced(tasks, from, to)
  PROVE  LET next == from + (IF tasks[1].do = "rsp" THEN tasks[1].bytes ELSE 0)
         IN  /\ from \in Nat /\ next \in Nat
             /\ tasks[1].do \in {"stmt", "func", "exit"} => from = 0
             /\ Balanced(Tail(tasks), next, to)
<1>1. PICK f \in [1 .. Len(tasks) + 1 -> Nat] :
        /\ f[1] = from /\ f[Len(tasks) + 1] = to
        /\ \A i \in 1 .. Len(tasks) :
             /\ f[i + 1] = f[i] + (IF tasks[i].do = "rsp" THEN tasks[i].bytes ELSE 0)
             /\ tasks[i].do \in {"stmt", "func", "exit"} => f[i] = 0
  BY DEF Balanced
<1> DEFINE n == Len(tasks)
           rest == Tail(tasks)
           next == from + (IF tasks[1].do = "rsp" THEN tasks[1].bytes ELSE 0)
           taken == [i \in 1 .. n |-> f[i + 1]]
<1>2. n \in Nat \ {0} /\ Len(rest) + 1 = n /\ \A i \in 1 .. n - 1 : rest[i] = tasks[i + 1]
  OBVIOUS
<1>3. f[1] = from /\ f[2] = next /\ from \in Nat /\ next \in Nat
  <2>1. 1 \in 1 .. n /\ 1 \in 1 .. n + 1 /\ 2 \in 1 .. n + 1
    BY <1>2
  <2>2. f[1 + 1] = next
    BY <2>1, <1>1
  <2> QED
    BY <2>1, <2>2, <1>1
<1>4. tasks[1].do \in {"stmt", "func", "exit"} => from = 0
  BY <1>1, <1>2
<1>5. taken \in [1 .. n -> Nat] /\ taken[1] = next /\ taken[n] = to
  BY <1>1, <1>2, <1>3
<1>6. ASSUME NEW i \in 1 .. n - 1
      PROVE  /\ taken[i + 1] = taken[i] + (IF rest[i].do = "rsp" THEN rest[i].bytes ELSE 0)
             /\ rest[i].do \in {"stmt", "func", "exit"} => taken[i] = 0
  <2>1. taken[i] = f[i + 1] /\ taken[i + 1] = f[(i + 1) + 1] /\ i + 1 \in 1 .. n /\ rest[i] = tasks[i + 1]
    BY <1>2
  <2> HIDE DEF taken, rest
  <2> QED
    BY <2>1, <1>1
<1>7. Balanced(rest, next, to)
  <2>1. Len(rest) \in Nat /\ Len(rest) + 1 = n /\ Len(rest) = n - 1
    BY <1>2
  <2> HIDE DEF taken, rest, next
  <2> QED
    BY <2>1, <1>5, <1>6 DEF Balanced
<1> QED
  BY <1>3, <1>4, <1>7

-----------------------------------------------------------------------------
(* What each step of the walk replaces its task by. *)

(* The labels that every instruction may name: those of the constants, of    *)
(* the functions and of the library.                                         *)
FuncLabels == {<<"func", functions[i].id>> : i \in 1 .. Len(functions)}
Library == {<<"__exit", 0>>, <<"__out", 0>>, <<"__in", 0>>}
Constants(data) == {data[i].label : i \in 1 .. Len(data)}
Standing(data) == {ConstTrue, ConstFalse} \cup Library \cup FuncLabels \cup Constants(data)
EndLabel == <<"func_end", counters.func>>

LEMMA StandingTypes ==
  ASSUME Typed, NEW data \in Seq(Constant)
  PROVE  /\ Standing(data) \in SUBSET Names
         /\ ConstTrue \in Standing(data) /\ ConstFalse \in Standing(data)
         /\ EndLabel \in Names
<1>1. {ConstTrue, ConstFalse} \cup Library \subseteq Names
  <2>1. \A name \in {"const_true", "const_false", "__exit", "__out", "__in"} : <<name, 0>> \in Names
    BY DEF Names, LabelNames, DataNames
  <2> QED
    BY <2>1 DEF ConstTrue, ConstFalse, Library
<1>2. FuncLabels \subseteq Names
  <2> SUFFICES ASSUME NEW i \in 1 .. Len(functions)
               PROVE  <<"func", functions[i].id>> \in Names
    BY DEF FuncLabels
  <2>1. functions \in Seq(FuncOf(Nodes[functions]))
    BY ProgramsAssumption DEF Typed, Analysed
  <2>2. functions[i] \in FuncOf(Nodes[functions])
    BY <2>1
  <2>3. functions[i].id \in Int
    BY <2>2 DEF FuncOf
  <2> QED
    BY <2>3 DEF Names, LabelNames, GlobalNames
<1>3. Constants(data) \subseteq Names
  <2>1. \A i \in 1 .. Len(data) : data[i] \in Constant
    OBVIOUS
  <2> QED
    BY <2>1 DEF Constants, Constant
<1>4. EndLabel \in Names
  <2>1. counters.func \in Int
    BY DEF Typed, Counters
  <2> QED
    BY <2>1 DEF EndLabel, Names, LabelNames, GlobalNames
<1> QED
  BY <1>1, <1>2, <1>3, <1>4 DEF Standing

(* The node of a task. *)
LEMMA AtNode ==
  ASSUME Typed, Doing("expr") \/ Doing("stmt") \/ Doing("cmp")
  PROVE  LET n == Task.node
         IN  /\ n \in Nodes[functions] /\ n.num \in Int
             /\ n.kids \in Seq(Nodes[functions])
             /\ n.kind \in {"OP", "IF", "WHILE"} =>
                  Len(n.kids) >= 2 /\ n.kids[1] \in Nodes[functions] /\ n.kids[2] \in Nodes[functions]
             /\ Doing("cmp") => n.kind = "OP" /\ n.op \in Comparisons
<1>1. todo \in Seq(Tasks(Nodes[functions])) /\ todo # <<>> /\ Task \in Tasks(Nodes[functions])
  BY DEF Typed, Doing, Task
<1>2. Task.node \in Nodes[functions] /\ (Doing("cmp") => Task.node.kind = "OP" /\ Task.node.op \in Comparisons)
  BY <1>1, TaskFields DEF Doing
<1>3. Task.node.num \in Int /\ Task.node.kids \in Seq(Nodes[functions])
      /\ (Task.node.kind \in {"OP", "IF", "WHILE"} => Len(Task.node.kids) >= 2)
  BY <1>2, NodeFields
<1> QED
  BY <1>2, <1>3

(* Tasks are of their kinds. *)
LEMMA PieceTypes ==
  ASSUME NEW nodes, NEW used \in SUBSET Names
  PROVE  /\ \A n \in nodes : Expr(n) \in Plain(nodes) /\ Stmt(n) \in Stmts(nodes)
         /\ \A c \in Seq(Code(used)) : Emit(c) \in Emits(used)
         /\ \A i \in Code(used) : Emit(<<i>>) \in Emits(used)
         /\ \A i, j \in Code(used) : Emit(<<i, j>>) \in Emits(used)
         /\ \A i, j, k \in Code(used) : Emit(<<i, j, k>>) \in Emits(used)
         /\ \A name \in {"__out", "__in"} : AlignedCall(name) \in Plain(nodes)
         /\ \A label : Place(label) \in Places({label})
         /\ \A b \in Int : MoveRsp(b) \in Moves
<1> USE DEF Plain, Exprs, Stmts, LibraryCalls, Emits, Places, Moves, Expr, Stmt, AlignedCall, Emit, Place, MoveRsp
<1>1. \A c \in Seq(Code(used)) : Emit(c) \in Emits(used)
  OBVIOUS
<1>2. \A i, j, k \in Code(used) :
        <<i>> \in Seq(Code(used)) /\ <<i, j>> \in Seq(Code(used)) /\ <<i, j, k>> \in Seq(Code(used))
  OBVIOUS
<1>3. \A n \in nodes : Expr(n) \in Plain(nodes) /\ Stmt(n) \in Stmts(nodes)
  OBVIOUS
<1>4. \A name \in {"__out", "__in"} : AlignedCall(name) \in Plain(nodes)
  OBVIOUS
<1>5. \A label : Place(label) \in Places({label})
  OBVIOUS
<1>6. \A b \in Int : MoveRsp(b) \in Moves
  OBVIOUS
<1> HIDE DEF Plain, Stmts, Emits, Places, Moves, Expr, Stmt, AlignedCall, Emit, Place, MoveRsp
<1> QED
  BY <1>1, <1>2, <1>3, <1>4, <1>5, <1>6

(* A block and a statement without an effect. *)
LEMMA BlockTasks ==
  ASSUME Typed, gen_block \/ gen_nothing
  PROVE  \E tasks \in Seq(Stmts(Nodes[functions])) : Replace(tasks)
<1>1. CASE gen_block
  <2>1. DoingStmt("BODY") /\ Replace([i \in 1 .. Len(Task.node.kids) |-> Stmt(Task.node.kids[i])])
    BY <1>1 DEF gen_block
  <2>2. Task.node.kids \in Seq(Nodes[functions])
    BY <2>1, AtNode DEF DoingStmt
  <2>3. [i \in 1 .. Len(Task.node.kids) |-> Stmt(Task.node.kids[i])] \in Seq(Stmts(Nodes[functions]))
    BY <2>2 DEF Stmts, Stmt
  <2> QED
    BY <2>1, <2>3
<1>2. CASE gen_nothing
  <2>1. Replace(<<>>) /\ <<>> \in Seq(Stmts(Nodes[functions]))
    BY <1>2 DEF gen_nothing
  <2> QED
    BY <2>1
<1> QED
  BY <1>1, <1>2

(* The value of a declaration or of a return. *)
LEMMA ValueTypes ==
  ASSUME NEW nodes, NEW kids \in Seq(nodes), NEW used \in SUBSET Names, ConstFalse \in used
  PROVE  ValueOrZero(kids) \in Plain(nodes) \cup Emits(used)
<1>1. CASE kids = <<>>
  BY <1>1, CodeTypes, PieceTypes DEF ValueOrZero
<1>2. CASE kids # <<>>
  <2>1. kids[1] \in nodes
    BY <1>2
  <2> QED
    BY <1>2, <2>1, PieceTypes DEF ValueOrZero
<1> QED
  BY <1>1, <1>2

LEMMA DeclTasks ==
  ASSUME Typed, gen_var_decl
  PROVE  \E tasks \in Seq(Plain(Nodes[functions]) \cup Emits(Standing(rodata))) : Replace(tasks)
<1> DEFINE used == Standing(rodata)
           N == Nodes[functions]
           value == ValueOrZero(Task.node.kids)
           store == Emit(<<Store(Slot(Task.node.num))>>)
<1>1. used \in SUBSET Names /\ ConstFalse \in used
  BY StandingTypes DEF Typed
<1>2. Replace(<<value, store>>) /\ Task.node.kids \in Seq(N) /\ Task.node.num \in Int
  BY AtNode DEF gen_var_decl, DoingStmt
<1> HIDE DEF used
<1>3. value \in Plain(N) \cup Emits(used)
  BY <1>1, <1>2, ValueTypes
<1>4. store \in Emits(used)
  <2>1. Store(Slot(Task.node.num)) \in Code(used)
    BY <1>1, <1>2, SlotTypes, CodeTypes
  <2> QED
    BY <1>1, <2>1, PieceTypes
<1>5. <<value, store>> \in Seq(Plain(N) \cup Emits(used))
  <2> HIDE DEF value, store, N
  <2> QED
    BY <1>3, <1>4
<1> QED
  BY <1>2, <1>5 DEF used

LEMMA RetTasks ==
  ASSUME Typed, gen_ret
  PROVE  \E tasks \in Seq(Plain(Nodes[functions]) \cup Emits(Standing(rodata) \cup {EndLabel})) :
           Replace(tasks)
<1> DEFINE used == Standing(rodata) \cup {EndLabel}
           N == Nodes[functions]
           value == ValueOrZero(Task.node.kids)
           leave == Emit(<<Jump("jmp", RetTarget(counters.func))>>)
<1>1. used \in SUBSET Names /\ ConstFalse \in used /\ RetTarget(counters.func) \in used
  <2>1. RetTarget(counters.func) = EndLabel
    BY DEF RetTarget, EndLabel
  <2> QED
    BY <2>1, StandingTypes DEF Typed
<1>2. Replace(<<value, leave>>) /\ Task.node.kids \in Seq(N)
  BY AtNode DEF gen_ret, DoingStmt
<1> HIDE DEF used
<1>3. value \in Plain(N) \cup Emits(used)
  BY <1>1, <1>2, ValueTypes
<1>4. leave \in Emits(used)
  <2>1. Jump("jmp", RetTarget(counters.func)) \in Code(used)
    BY <1>1, CodeTypes DEF Mnemonics
  <2> QED
    BY <1>1, <2>1, PieceTypes
<1>5. <<value, leave>> \in Seq(Plain(N) \cup Emits(used))
  <2> HIDE DEF value, leave, N
  <2> QED
    BY <1>3, <1>4
<1> QED
  BY <1>2, <1>5 DEF used

(* Expressions and calls that take nothing from the stack. *)
LEMMA ExprTasks ==
  ASSUME Typed, gen_var \/ gen_assign \/ gen_cmp_right \/ gen_out \/ gen_in \/ gen_sqrt
  PROVE  \E tasks \in Seq(Plain(Nodes[functions]) \cup Emits(Standing(rodata))) : Replace(tasks)
<1> DEFINE used == Standing(rodata)
           N == Nodes[functions]
           S == Plain(N) \cup Emits(used)
           node == Task.node
<1>1. used \in SUBSET Names /\ ConstFalse \in used
  BY StandingTypes DEF Typed
<1>2. /\ node \in N /\ node.num \in Int /\ node.kids \in Seq(N)
      /\ node.kind = "OP" => Len(node.kids) >= 2 /\ node.kids[1] \in N /\ node.kids[2] \in N
  BY AtNode DEF gen_var, gen_assign, gen_cmp_right, gen_out, gen_in, gen_sqrt, DoingOp, DoingCall,
     DoingExpr
<1> HIDE DEF used
<1>3. \A number \in Int : Emit(<<Load(Slot(number))>>) \in S /\ Emit(<<Store(Slot(number))>>) \in S
  BY <1>1, SlotTypes, CodeTypes, PieceTypes
<1>4. \A n \in N : Expr(n) \in S
  BY PieceTypes, <1>1
<1>5. \A t \in S : <<t>> \in Seq(S)
  OBVIOUS
<1>6. \A t, u \in S : <<t, u>> \in Seq(S)
  OBVIOUS
<1>7. <<>> \in Seq(S)
  OBVIOUS
<1>8. CASE gen_var
  BY <1>8, <1>2, <1>3, <1>5 DEF gen_var, used
<1>9. CASE gen_assign
  <2>1. node.kind = "OP" /\ Replace(<<Expr(node.kids[2]), Emit(<<Store(Slot(node.kids[1].num))>>)>>)
    BY <1>9 DEF gen_assign, DoingOp, DoingExpr
  <2>2. node.kids[1].num \in Int
    BY <2>1, <1>2, NodeFields
  <2>3. Expr(node.kids[2]) \in S /\ Emit(<<Store(Slot(node.kids[1].num))>>) \in S
    BY <2>1, <2>2, <1>2, <1>3, <1>4
  <2> QED
    BY <2>1, <2>3, <1>6 DEF used
<1>10. CASE gen_cmp_right
  <2>1. /\ node.kind = "OP" /\ node.op \in Comparisons
        /\ Replace(<<Expr(node.kids[2]), [do |-> "cmp", node |-> node]>>)
    BY <1>10 DEF gen_cmp_right, DoingOp, DoingExpr
  <2>2. [do |-> "cmp", node |-> node] \in S
    BY <2>1, <1>2 DEF Plain, Compares
  <2>3. Expr(node.kids[2]) \in S
    BY <2>1, <1>2, <1>4
  <2> QED
    BY <2>1, <2>2, <2>3, <1>6 DEF used
<1>11. CASE gen_out
  <2>1. Replace(If(Len(Args) = 1, <<Expr(Args[1]), AlignedCall("__out")>>))
    BY <1>11 DEF gen_out
  <2>2. CASE Len(Args) = 1
    <3>1. Expr(Args[1]) \in S /\ AlignedCall("__out") \in S
      BY <2>2, <1>1, <1>2, PieceTypes DEF Args
    <3> QED
      BY <2>1, <2>2, <3>1, <1>6 DEF If, used
  <2>3. CASE Len(Args) # 1
    BY <2>1, <2>3, <1>7 DEF If, used
  <2> QED
    BY <2>2, <2>3
<1>12. CASE gen_in
  <2>1. Replace(If(Args = <<>>, <<AlignedCall("__in")>>))
    BY <1>12 DEF gen_in
  <2>2. AlignedCall("__in") \in S
    BY <1>1, PieceTypes
  <2> QED
    BY <2>1, <2>2, <1>5, <1>7 DEF If, used
<1>13. CASE gen_sqrt
  <2>1. Replace(If(Len(Args) = 1, <<Expr(Args[1]), Emit(<<Instr("sqrtsd", xmm0, xmm0)>>)>>))
    BY <1>13 DEF gen_sqrt
  <2>2. CASE Len(Args) = 1
    <3>1. Instr("sqrtsd", xmm0, xmm0) \in Code(used)
      BY <1>1, CodeTypes, InstructionTypes DEF Mnemonics
    <3>2. Expr(Args[1]) \in S /\ Emit(<<Instr("sqrtsd", xmm0, xmm0)>>) \in S
      BY <2>2, <3>1, <1>1, <1>2, PieceTypes DEF Args
    <3> QED
      BY <2>1, <2>2, <3>2, <1>6 DEF If, used
  <2>3. CASE Len(Args) # 1
    BY <2>1, <2>3, <1>7 DEF If, used
  <2> QED
    BY <2>2, <2>3
<1> QED
  BY <1>8, <1>9, <1>10, <1>11, <1>12, <1>13

(* A number names its constant, an old one or a new one. *)
LEMMA NumTasks ==
  ASSUME Typed, gen_num
  PROVE  /\ \E tasks \in Seq(Emits(Standing(rodata'))) : Then(tasks)
         /\ rodata' \in Seq(Constant)
         /\ UNCHANGED <<functions, instructions, labels, while_stack, status>>
         /\ \/ rodata' = rodata /\ counters' = counters
            \/ /\ Holders(Task.node.num) = {}
               /\ rodata' = Append(rodata, [label |-> <<"const", counters.const>>, value |-> Task.node.num])
               /\ counters' = [counters EXCEPT !.const = @ + 1]
<1> DEFINE holders == Holders(Task.node.num)
           new == [label |-> <<"const", counters.const>>, value |-> Task.node.num]
           N == Nodes[functions]
<1>1. Task.node.num \in Int
  BY AtNode DEF gen_num, DoingExpr
<1>2. ASSUME NEW data \in Seq(Constant), NEW label \in Constants(data)
      PROVE  <<Emit(<<Load(Rel(label))>>)>> \in Seq(Emits(Standing(data)))
  <2> DEFINE used == Standing(data)
  <2>1. used \in SUBSET Names /\ ConstFalse \in used /\ label \in used
    BY StandingTypes DEF Standing
  <2> HIDE DEF used
  <2>2. Load(Rel(label)) \in Code(used)
    BY <2>1, OperandTypes, CodeTypes
  <2>3. Emit(<<Load(Rel(label))>>) \in Emits(used)
    BY <2>1, <2>2, PieceTypes
  <2> QED
    BY <2>3 DEF used
<1>3. CASE holders # {}
  <2>1. Replace(<<Emit(<<Load(Rel(rodata[CHOOSE i \in holders : TRUE].label))>>)>>)
    BY <1>3 DEF gen_num
  <2>2. (CHOOSE i \in holders : TRUE) \in 1 .. Len(rodata)
    BY <1>3 DEF Holders
  <2>3. rodata[CHOOSE i \in holders : TRUE].label \in Constants(rodata)
    BY <2>2 DEF Constants
  <2>4. rodata' = rodata /\ rodata \in Seq(Constant)
    BY <2>1 DEF Replace, Typed
  <2>5. <<Emit(<<Load(Rel(rodata[CHOOSE i \in holders : TRUE].label))>>)>> \in Seq(Emits(Standing(rodata)))
    BY <2>3, <2>4, <1>2
  <2> HIDE DEF holders
  <2> QED
    BY <2>1, <2>4, <2>5 DEF Replace
<1>4. CASE holders = {}
  <2>1. /\ rodata' = Append(rodata, new)
        /\ counters' = [counters EXCEPT !.const = @ + 1]
        /\ Then(<<Emit(<<Load(Rel(<<"const", counters.const>>))>>)>>)
        /\ UNCHANGED <<functions, instructions, labels, while_stack, status>>
    BY <1>4 DEF gen_num
  <2>2. new \in Constant
    <3>1. <<"const", counters.const>> \in Names
      BY DEF Typed, Counters, Names, LabelNames, DataNames
    <3> QED
      BY <3>1, <1>1 DEF Constant
  <2>3. rodata' \in Seq(Constant) /\ rodata'[Len(rodata) + 1] = new /\ Len(rodata') = Len(rodata) + 1
    BY <2>1, <2>2 DEF Typed
  <2>4. <<"const", counters.const>> \in Constants(rodata')
    <3>1. Len(rodata) + 1 \in 1 .. Len(rodata') /\ new.label = <<"const", counters.const>>
      BY <2>3 DEF Typed
    <3> QED
      BY <3>1, <2>3 DEF Constants
  <2>5. <<Emit(<<Load(Rel(<<"const", counters.const>>))>>)>> \in Seq(Emits(Standing(rodata')))
    BY <2>3, <2>4, <1>2
  <2> QED
    BY <1>4, <2>1, <2>3, <2>5
<1> QED
  BY <1>3, <1>4

(* A temporary lives in eight bytes around the operand on the other side.    *)
LEMMA ArithmeticTasks ==
  ASSUME Typed, gen_arithmetic, counters.stack_offset \in Nat
  PROVE  \E tasks \in Seq(Plain(Nodes[functions]) \cup Emits(Standing(rodata)) \cup Moves) :
           Replace(tasks) /\ Balanced(tasks, counters.stack_offset, counters.stack_offset)
<1> DEFINE used == Standing(rodata)
           N == Nodes[functions]
           S == Plain(N) \cup Emits(used)
           T == S \cup Moves
           node == Task.node
           o == counters.stack_offset
           save == Emit(<<Store(Saved)>>)
           operate == Emit(<<Instr(SseOf[node.op], xmm0, Saved)>>)
           left == Expr(node.kids[1])
           right == Expr(node.kids[2])
<1>1. used \in SUBSET Names /\ ConstFalse \in used
  BY StandingTypes DEF Typed
<1>2. node \in N /\ node.kids[1] \in N /\ node.kids[2] \in N /\ node.op \in Arithmetic
  BY AtNode DEF gen_arithmetic, DoingOp, DoingExpr
<1>3. Replace(<<right, MoveRsp(8), save, left>> \o <<operate, MoveRsp(-8)>>)
  BY DEF gen_arithmetic, OperandTasks
<1> HIDE DEF used
<1>4. right \in S /\ left \in S
  BY <1>1, <1>2, PieceTypes
<1>5. save \in S /\ operate \in S
  <2>1. Saved \in Operands(used)
    BY <1>1, SlotTypes DEF Saved
  <2>2. SseOf[node.op] \in Mnemonics
    BY <1>2 DEF SseOf, Mnemonics, Arithmetic
  <2>3. Store(Saved) \in Code(used) /\ Instr(SseOf[node.op], xmm0, Saved) \in Code(used)
    BY <1>1, <2>1, <2>2, CodeTypes, InstructionTypes
  <2> QED
    BY <1>1, <2>3, PieceTypes
<1>6. \A t \in S : t.do \notin {"rsp", "func", "exit", "stmt"}
  BY DEF Plain, Exprs, Compares, LibraryCalls, Emits
<1>7. MoveRsp(8) \in Moves /\ MoveRsp(-8) \in Moves
  BY DEF Moves, MoveRsp
<1> HIDE DEF S, save, operate, left, right, o
<1>8. <<right>> \in Seq(S) /\ <<save, left, operate>> \in Seq(S)
  BY <1>4, <1>5
<1>9. o \in Nat /\ o + 8 \in Nat
  BY DEF o
<1>10. Balanced(<<right>>, o, o) /\ Balanced(<<save, left, operate>>, o + 8, o + 8)
  BY <1>6, <1>8, <1>9, NeutralBalanced
<1>11. Moves \subseteq T /\ <<right>> \in Seq(T) /\ <<save, left, operate>> \in Seq(T)
  BY <1>4, <1>5
<1> DEFINE before == <<right>>
           inner == <<save, left, operate>>
           tasks == before \o (<<MoveRsp(8)>> \o inner \o <<MoveRsp(-8)>>)
<1>12. tasks \in Seq(T) /\ Balanced(tasks, o, o)
  <2>1. before \in Seq(T) /\ inner \in Seq(T) /\ Balanced(before, o, o) /\ Balanced(inner, o + 8, o + 8)
    BY <1>10, <1>11
  <2> HIDE DEF before, inner, T
  <2> DEFINE bracket == <<MoveRsp(8)>> \o inner \o <<MoveRsp(-8)>>
  <2>2. bracket \in Seq(T) /\ Balanced(bracket, o, o)
    BY <2>1, <1>9, <1>11, BracketBalanced
  <2> HIDE DEF bracket
  <2>3. before \o bracket \in Seq(T) /\ Balanced(before \o bracket, o, o)
    BY <2>1, <2>2, ConcatBalanced
  <2> QED
    BY <2>3 DEF bracket
<1>13. tasks = <<right, MoveRsp(8), save, left>> \o <<operate, MoveRsp(-8)>>
  OBVIOUS
<1> HIDE DEF tasks
<1> QED
  BY <1>3, <1>12, <1>13 DEF T, S, o, used

(* Around a call the stack is aligned and what that took given back. *)
LEMMA AlignBalanced ==
  ASSUME NEW S, Moves \subseteq S, NEW inner \in Seq(S), counters.stack_offset \in Nat,
         \A from \in Nat : Balanced(inner, from, from)
  PROVE  LET tasks == align_stack_before_call \o inner \o unalign_stack_after_call
         IN  tasks \in Seq(S) /\ Balanced(tasks, counters.stack_offset, counters.stack_offset)
<1> DEFINE o == counters.stack_offset
<1>1. CASE Misaligned
  <2>1. align_stack_before_call = <<MoveRsp(8)>> /\ unalign_stack_after_call = <<MoveRsp(-8)>>
    BY <1>1 DEF align_stack_before_call, unalign_stack_after_call, If
  <2>2. o \in Nat /\ o + 8 \in Nat
    OBVIOUS
  <2>3. Balanced(inner, o + 8, o + 8)
    BY <2>2
  <2> QED
    BY <2>1, <2>2, <2>3, BracketBalanced
<1>2. CASE ~Misaligned
  <2>1. align_stack_before_call = <<>> /\ unalign_stack_after_call = <<>>
    BY <1>2 DEF align_stack_before_call, unalign_stack_after_call, If
  <2>2. <<>> \o inner \o <<>> = inner
    OBVIOUS
  <2> QED
    BY <2>1, <2>2
<1> QED
  BY <1>1, <1>2

LEMMA LibraryCallTasks ==
  ASSUME Typed, CallAligned, counters.stack_offset \in Nat
  PROVE  \E tasks \in Seq(Plain(Nodes[functions]) \cup Emits(Standing(rodata)) \cup Moves) :
           Replace(tasks) /\ Balanced(tasks, counters.stack_offset, counters.stack_offset)
<1> DEFINE used == Standing(rodata)
           S == Emits(used)
           T == Plain(Nodes[functions]) \cup S \cup Moves
           label == <<Task.name, 0>>
           call == <<Emit(<<Jump("call", label)>>)>>
<1>1. Replace(align_stack_before_call \o call \o unalign_stack_after_call)
  BY DEF CallAligned, Replace
<1>2. Task.name \in {"__out", "__in"}
  <2>1. Task \in Tasks(Nodes[functions]) /\ Task.do = "call"
    BY DEF CallAligned, Doing, Typed, Task
  <2> QED
    BY <2>1, TaskFields
<1>3. used \in SUBSET Names /\ ConstFalse \in used /\ label \in used
  <2>1. label \in Library
    BY <1>2 DEF Library
  <2> QED
    BY <2>1, StandingTypes DEF Typed, Standing
<1> HIDE DEF used, label
<1>4. Emit(<<Jump("call", label)>>) \in S
  <2>1. Jump("call", label) \in Code(used)
    BY <1>3, CodeTypes DEF Mnemonics
  <2> QED
    BY <2>1, <1>3, PieceTypes
<1>5. \A t \in S : t.do \notin {"rsp", "func", "exit", "stmt"}
  BY DEF Emits
<1>6. call \in Seq(S) /\ call \in Seq(T) /\ Moves \subseteq T
  BY <1>4
<1> HIDE DEF call, S
<1>7. \A from \in Nat : Balanced(call, from, from)
  BY <1>5, <1>6, NeutralBalanced
<1> HIDE DEF T
<1>8. LET tasks == align_stack_before_call \o call \o unalign_stack_after_call
      IN  tasks \in Seq(T) /\ Balanced(tasks, counters.stack_offset, counters.stack_offset)
  BY <1>6, <1>7, AlignBalanced
<1> QED
  BY <1>1, <1>8 DEF T, S, used

(* The arguments of a call, one after the other, each to its place. *)
LEMMA PassArgsTypes ==
  ASSUME NEW nodes, NEW args \in Seq(nodes), NEW used \in SUBSET Names, ConstFalse \in used
  PROVE  PassArgs(args) \in Seq(Plain(nodes) \cup Emits(used))
<1> DEFINE S == Plain(nodes) \cup Emits(used)
           n == 2 * Len(args)
           at(j) == LET i == (j + 1) \div 2
                    IN  IF j % 2 = 1 THEN Expr(args[i]) ELSE Emit(<<Store(Mem("rsp", 8 * (i - 1)))>>)
<1>1. ASSUME NEW j \in 1 .. n
      PROVE  at(j) \in S
  <2> DEFINE i == (j + 1) \div 2
  <2>1. i \in 1 .. Len(args)
    OBVIOUS
  <2> HIDE DEF i
  <2>2. args[i] \in nodes /\ 8 * (i - 1) \in Int
    BY <2>1
  <2>3. Expr(args[i]) \in S
    BY <2>2, PieceTypes
  <2>4. Store(Mem("rsp", 8 * (i - 1))) \in Code(used)
    BY <2>2, SlotTypes, CodeTypes
  <2>5. Emit(<<Store(Mem("rsp", 8 * (i - 1)))>>) \in S
    BY <2>4, PieceTypes
  <2> QED
    BY <2>3, <2>5 DEF i
<1>2. n \in Nat /\ PassArgs(args) = [j \in 1 .. n |-> at(j)]
  BY DEF PassArgs
<1> HIDE DEF S, n, at
<1>3. [j \in 1 .. n |-> at(j)] \in Seq(S)
  BY <1>1, <1>2
<1> QED
  BY <1>2, <1>3 DEF S

LEMMA CallTasks ==
  ASSUME Typed, gen_call, counters.stack_offset \in Nat
  PROVE  \E tasks \in Seq(Plain(Nodes[functions]) \cup Emits(Standing(rodata)) \cup Moves) :
           Replace(tasks) /\ Balanced(tasks, counters.stack_offset, counters.stack_offset)
<1> DEFINE used == Standing(rodata)
           N == Nodes[functions]
           S == Plain(N) \cup Emits(used)
           T == S \cup Moves
           bytes == 8 * Len(Args)
           label == <<"func", Task.node.num>>
           call == <<Emit(<<Jump("call", label)>>)>>
           pass == PassArgs(Args)
           up == If(Args # <<>>, <<MoveRsp(bytes)>>)
           down == If(Args # <<>>, <<MoveRsp(-bytes)>>)
<1>1. Replace(align_stack_before_call \o (up \o (pass \o call) \o down) \o unalign_stack_after_call)
  BY DEF gen_call
<1>2. Task.node \in N /\ Args \in Seq(N) /\ Task.node.kind = "CALL"
  BY AtNode DEF gen_call, DoingCall, DoingExpr, Args
<1>3. used \in SUBSET Names /\ ConstFalse \in used /\ label \in used
  <2>1. \E i \in 1 .. Len(functions) : functions[i].id = Task.node.num
    BY <1>2, NodeFields DEF gen_call, CallName
  <2>2. label \in FuncLabels
    BY <2>1 DEF FuncLabels
  <2> QED
    BY <2>2, StandingTypes DEF Typed, Standing
<1> HIDE DEF used, label
<1>4. call \in Seq(S)
  <2>1. Jump("call", label) \in Code(used)
    BY <1>3, CodeTypes DEF Mnemonics
  <2>2. Emit(<<Jump("call", label)>>) \in S
    BY <2>1, <1>3, PieceTypes
  <2> QED
    BY <2>2
<1>5. pass \in Seq(S)
  BY <1>2, <1>3, PassArgsTypes
<1>6. \A t \in S : t.do \notin {"rsp", "func", "exit", "stmt"}
  BY DEF Plain, Exprs, Compares, LibraryCalls, Emits
<1> DEFINE work == pass \o call
           inner == up \o work \o down
<1>7. bytes \in Nat
  BY <1>2
<1> HIDE DEF pass, call, S, bytes
<1>8. work \in Seq(S) /\ work \in Seq(T) /\ Moves \subseteq T
  BY <1>4, <1>5
<1> HIDE DEF work, T
<1>9. \A from \in Nat : Balanced(work, from, from)
  BY <1>6, <1>8, NeutralBalanced
<1>10. inner \in Seq(T) /\ \A from \in Nat : Balanced(inner, from, from)
  <2>1. CASE Args = <<>>
    <3>1. inner = work
      <4>1. up = <<>> /\ down = <<>>
        BY <2>1 DEF If
      <4>2. <<>> \o work \o <<>> = work
        BY <1>8
      <4> QED
        BY <4>1, <4>2
    <3> QED
      BY <3>1, <1>8, <1>9
  <2>2. CASE Args # <<>>
    <3>1. up = <<MoveRsp(bytes)>> /\ down = <<MoveRsp(-bytes)>>
      BY <2>2 DEF If
    <3>2. ASSUME NEW from \in Nat
          PROVE  inner \in Seq(T) /\ Balanced(inner, from, from)
      <4>1. from + bytes \in Nat
        BY <1>7
      <4>2. Balanced(work, from + bytes, from + bytes)
        BY <4>1, <1>9
      <4> QED
        BY <3>1, <4>2, <1>7, <1>8, BracketBalanced
    <3> QED
      BY <3>2
  <2> QED
    BY <2>1, <2>2
<1> HIDE DEF inner
<1>11. LET tasks == align_stack_before_call \o inner \o unalign_stack_after_call
       IN  tasks \in Seq(T) /\ Balanced(tasks, counters.stack_offset, counters.stack_offset)
  BY <1>8, <1>10, AlignBalanced
<1> QED
  BY <1>1, <1>11 DEF T, S, used, inner, work

-----------------------------------------------------------------------------
(* Constructs that need labels of their own. *)

IfNames == {".if_true", ".if_end", ".if_else_end"}
WhileNames == {".while_loop", ".while_end"}
CmpNames == {".cmp_true", ".cmp_false", ".cmp_end"}
LogicNames == {".logic_true", ".logic_false", ".logic_and_rhs", ".logic_end"}
Own(names, id) == {<<name, id>> : name \in names}

(* Tasks that place each of some labels once, and no others. *)
PlaceOnce(tasks, own) ==
  /\ \A label \in own : \E i \in 1 .. Len(tasks) : tasks[i] = Place(label)
  /\ \A i, j \in 1 .. Len(tasks) :
       tasks[i].do = "place" /\ tasks[j].do = "place" /\ tasks[i].label = tasks[j].label => i = j

(* A construct whose labels these are, from an expression on. *)
Construct(tasks, own) ==
  /\ tasks \in Seq(Plain(Nodes[functions]) \cup Stmts(Nodes[functions]) \cup Moves \cup Closing
                   \cup Emits(Standing(rodata) \cup own) \cup Places(own))
  /\ PlaceOnce(tasks, own)
  /\ Balanced(tasks, counters.stack_offset, counters.stack_offset)

LEMMA PlaceFields ==
  \A label : Place(label).do = "place" /\ Place(label).label = label
  BY DEF Place

LEMMA OwnTypes ==
  ASSUME NEW id \in Int
  PROVE  /\ Own(IfNames, id) \in SUBSET Names /\ Own(WhileNames, id) \in SUBSET Names
         /\ Own(CmpNames, id) \in SUBSET Names /\ Own(LogicNames, id) \in SUBSET Names
<1>1. IfNames \cup WhileNames \cup CmpNames \cup LogicNames \subseteq LabelNames
  BY DEF IfNames, WhileNames, CmpNames, LogicNames, LabelNames, LocalNames
<1> HIDE DEF IfNames, WhileNames, CmpNames, LogicNames, LabelNames
<1> QED
  BY <1>1 DEF Own, Names

LEMMA IfTasks ==
  ASSUME Typed, gen_if, counters.stack_offset = 0
  PROVE  /\ counters' = [counters EXCEPT !.if = @ + 1]
         /\ UNCHANGED <<functions, instructions, labels, rodata, while_stack, status>>
         /\ \E own \in SUBSET Own(IfNames, counters.if + 1) :
              \E tasks : /\ Then(tasks) /\ Construct(tasks, own)
                         /\ \A i \in 1 .. Len(tasks) : tasks[i].do \notin {"end_while", "exit"}
<1> DEFINE N == Nodes[functions]
           id == counters.if + 1
           kids == Task.node.kids
           true == <<".if_true", id>>
           end == <<".if_end", id>>
           over == <<".if_else_end", id>>
           test == Emit(<<TestFalse, Jump("jp", true), Jump("je", end)>>)
           skip == Emit(<<Jump("jmp", over)>>)
<1>1. Task.node.kind = "IF" /\ kids \in Seq(N) /\ Len(kids) >= 2 /\ id \in Int
  <2>1. DoingStmt("IF")
    BY DEF gen_if
  <2>2. counters.if \in Int
    BY DEF Typed, Counters
  <2> QED
    BY <2>1, <2>2, AtNode DEF DoingStmt
<1>2. /\ counters' = [counters EXCEPT !.if = @ + 1]
      /\ UNCHANGED <<functions, instructions, labels, rodata, while_stack, status>>
      /\ Then(<<Expr(kids[1]), test, Place(true), Stmt(kids[2])>>
              \o If(Len(kids) >= 3, <<skip>>) \o <<Place(end)>>
              \o If(Len(kids) >= 3, <<Stmt(kids[3]), Place(over)>>))
  BY DEF gen_if, Numbered, TakeNumber, IfEnd
<1>3. true \in Own(IfNames, id) /\ end \in Own(IfNames, id) /\ over \in Own(IfNames, id)
  BY DEF Own, IfNames
<1>4. true # end /\ true # over /\ end # over
  OBVIOUS
<1>5. CASE Len(kids) < 3
  <2> DEFINE own == {true, end}
             tasks == <<Expr(kids[1]), test, Place(true), Stmt(kids[2]), Place(end)>>
  <2>1. Then(tasks)
    <3>1. If(Len(kids) >= 3, <<skip>>) = <<>> /\ If(Len(kids) >= 3, <<Stmt(kids[3]), Place(over)>>) = <<>>
      BY <1>1, <1>5 DEF If
    <3>2. tasks = <<Expr(kids[1]), test, Place(true), Stmt(kids[2])>> \o <<>> \o <<Place(end)>> \o <<>>
      OBVIOUS
    <3> HIDE DEF tasks
    <3> QED
      BY <1>2, <3>1, <3>2, Zenon
  <2> DEFINE used == Standing(rodata) \cup own
             S == Plain(N) \cup Stmts(N) \cup Moves \cup Closing \cup Emits(used) \cup Places(own)
  <2>3. used \in SUBSET Names /\ ConstFalse \in used /\ true \in used /\ end \in used
    BY <1>1, <1>3, OwnTypes, StandingTypes DEF Typed
  <2>4. test \in Emits(used)
    <3> HIDE DEF used
    <3>1. TestFalse \in Code(used) /\ Jump("jp", true) \in Code(used) /\ Jump("je", end) \in Code(used)
      BY <2>3, CodeTypes DEF Mnemonics
    <3> QED
      BY <2>3, <3>1, PieceTypes
  <2>5. tasks \in Seq(S)
    <3>1. Expr(kids[1]) \in S /\ Stmt(kids[2]) \in S
      BY <1>1, <2>3, PieceTypes
    <3>2. Place(true) \in S /\ Place(end) \in S
      BY DEF Place, Places
    <3> HIDE DEF S, test
    <3> QED
      BY <2>4, <3>1, <3>2 DEF S
  <2>6. /\ Len(tasks) = 5 /\ tasks[3] = Place(true) /\ tasks[5] = Place(end)
        /\ \A i \in 1 .. 5 : tasks[i].do = IF i \in {3, 5} THEN "place"
                                           ELSE IF i = 2 THEN "emit"
                                           ELSE IF i = 1 THEN "expr" ELSE "stmt"
    BY DEF Expr, Emit, Place, Stmt
  <2>7. PlaceOnce(tasks, own)
    <3> HIDE DEF tasks, true, end
    <3>1. tasks[3].label = true /\ tasks[5].label = end
      BY <2>6, PlaceFields
    <3>2. \A label \in own : \E i \in 1 .. Len(tasks) : tasks[i] = Place(label)
      BY <2>6
    <3>3. \A i \in 1 .. Len(tasks) : tasks[i].do = "place" => i \in {3, 5}
      BY <2>6
    <3>4. \A i, j \in {3, 5} : tasks[i].label = tasks[j].label => i = j
      BY <1>4, <3>1
    <3> QED
      BY <3>2, <3>3, <3>4 DEF PlaceOnce
  <2>8. Balanced(tasks, 0, 0)
    <3> HIDE DEF tasks, S
    <3>1. \A i \in 1 .. Len(tasks) : tasks[i].do \notin {"rsp", "func", "exit"}
      BY <2>6
    <3>2. 0 \in Nat
      OBVIOUS
    <3> QED
      BY <2>5, <3>1, <3>2, NeutralTasks, Zenon
  <2>9. \A i \in 1 .. Len(tasks) : tasks[i].do \notin {"end_while", "exit"}
    <3> HIDE DEF tasks
    <3> QED
      BY <2>6
  <2>10. Construct(tasks, own) /\ own \in SUBSET Own(IfNames, id)
    BY <1>3, <2>5, <2>7, <2>8 DEF Construct
  <2> HIDE DEF tasks, own
  <2> QED
    BY <1>2, <2>1, <2>9, <2>10
<1>6. CASE Len(kids) >= 3
  <2> DEFINE own == {true, end, over}
             tasks == <<Expr(kids[1]), test, Place(true), Stmt(kids[2]), skip, Place(end),
                        Stmt(kids[3]), Place(over)>>
  <2>1. Then(tasks)
    <3>1. If(Len(kids) >= 3, <<skip>>) = <<skip>>
          /\ If(Len(kids) >= 3, <<Stmt(kids[3]), Place(over)>>) = <<Stmt(kids[3]), Place(over)>>
      BY <1>1, <1>6 DEF If
    <3>2. tasks = <<Expr(kids[1]), test, Place(true), Stmt(kids[2])>>
                    \o <<skip>> \o <<Place(end)>> \o <<Stmt(kids[3]), Place(over)>>
      OBVIOUS
    <3> HIDE DEF tasks
    <3> QED
      BY <1>2, <3>1, <3>2, Zenon
  <2>2. kids[3] \in N
    BY <1>1, <1>6
  <2> DEFINE used == Standing(rodata) \cup own
             S == Plain(N) \cup Stmts(N) \cup Moves \cup Closing \cup Emits(used) \cup Places(own)
  <2>3. used \in SUBSET Names /\ ConstFalse \in used /\ true \in used /\ end \in used /\ over \in used
    BY <1>1, <1>3, OwnTypes, StandingTypes DEF Typed
  <2>4. test \in Emits(used) /\ skip \in Emits(used)
    <3> HIDE DEF used
    <3>1. /\ TestFalse \in Code(used) /\ Jump("jp", true) \in Code(used) /\ Jump("je", end) \in Code(used)
          /\ Jump("jmp", over) \in Code(used)
      BY <2>3, CodeTypes DEF Mnemonics
    <3> QED
      BY <2>3, <3>1, PieceTypes
  <2>5. tasks \in Seq(S)
    <3>1. Expr(kids[1]) \in S /\ Stmt(kids[2]) \in S /\ Stmt(kids[3]) \in S
      BY <1>1, <2>2, <2>3, PieceTypes
    <3>2. Place(true) \in S /\ Place(end) \in S /\ Place(over) \in S
      BY DEF Place, Places
    <3> HIDE DEF S, test, skip
    <3> QED
      BY <2>4, <3>1, <3>2 DEF S
  <2>6. /\ Len(tasks) = 8 /\ tasks[3] = Place(true) /\ tasks[6] = Place(end) /\ tasks[8] = Place(over)
        /\ \A i \in 1 .. 8 : tasks[i].do = IF i \in {3, 6, 8} THEN "place"
                                           ELSE IF i \in {2, 5} THEN "emit"
                                           ELSE IF i = 1 THEN "expr" ELSE "stmt"
    BY DEF Expr, Emit, Place, Stmt
  <2>7. PlaceOnce(tasks, own)
    <3> HIDE DEF tasks, true, end, over
    <3>1. tasks[3].label = true /\ tasks[6].label = end /\ tasks[8].label = over
      BY <2>6, PlaceFields
    <3>2. \A label \in own : \E i \in 1 .. Len(tasks) : tasks[i] = Place(label)
      BY <2>6
    <3>3. \A i \in 1 .. Len(tasks) : tasks[i].do = "place" => i \in {3, 6, 8}
      BY <2>6
    <3>4. \A i, j \in {3, 6, 8} : tasks[i].label = tasks[j].label => i = j
      BY <1>4, <3>1
    <3> QED
      BY <3>2, <3>3, <3>4 DEF PlaceOnce
  <2>8. Balanced(tasks, 0, 0)
    <3> HIDE DEF tasks, S
    <3>1. \A i \in 1 .. Len(tasks) : tasks[i].do \notin {"rsp", "func", "exit"}
      BY <2>6
    <3>2. 0 \in Nat
      OBVIOUS
    <3> QED
      BY <2>5, <3>1, <3>2, NeutralTasks, Zenon
  <2>9. \A i \in 1 .. Len(tasks) : tasks[i].do \notin {"end_while", "exit"}
    <3> HIDE DEF tasks
    <3> QED
      BY <2>6
  <2>10. Construct(tasks, own) /\ own \in SUBSET Own(IfNames, id)
    BY <1>3, <2>5, <2>7, <2>8 DEF Construct
  <2> HIDE DEF tasks, own
  <2> QED
    BY <1>2, <2>1, <2>9, <2>10
<1>7. Len(kids) < 3 \/ Len(kids) >= 3
  BY <1>1
<1> HIDE DEF kids, id, N
<1> QED
  BY <1>5, <1>6, <1>7, Zenon

LEMMA WhileTasks ==
  ASSUME Typed, gen_while, counters.stack_offset = 0
  PROVE  /\ counters' = [counters EXCEPT !.while = @ + 1]
         /\ while_stack' = Append(while_stack, counters.while + 1)
         /\ Len(while_stack) < WhileCapacity
         /\ UNCHANGED <<functions, instructions, labels, rodata, status>>
         /\ \E own \in SUBSET Own(WhileNames, counters.while + 1) :
              \E tasks : /\ Then(tasks) /\ Construct(tasks, own) /\ Len(tasks) = 8
                         /\ tasks[7] = Place(<<".while_end", counters.while + 1>>) /\ tasks[8] = EndWhile
                         /\ \A i \in 1 .. 7 : tasks[i].do \notin {"end_while", "exit"}
<1> DEFINE N == Nodes[functions]
           id == counters.while + 1
           kids == Task.node.kids
           loop == <<".while_loop", id>>
           end == <<".while_end", id>>
           test == Emit(<<TestFalse, Jump("jp", loop), Jump("je", end)>>)
           again == Emit(<<TestFalse, Jump("jp", loop), Jump("jne", loop)>>)
           own == {loop, end}
           tasks == <<Expr(kids[1]), test, Place(loop), Stmt(kids[2]), Expr(kids[1]), again, Place(end), EndWhile>>
           used == Standing(rodata) \cup own
           S == Plain(N) \cup Stmts(N) \cup Moves \cup Closing \cup Emits(used) \cup Places(own)
<1>1. kids \in Seq(N) /\ kids[1] \in N /\ kids[2] \in N
  <2>1. DoingStmt("WHILE")
    BY DEF gen_while
  <2> QED
    BY <2>1, AtNode DEF DoingStmt
<1>2. id \in Int
  BY DEF Typed, Counters
<1>3. /\ counters' = [counters EXCEPT !.while = @ + 1]
      /\ while_stack' = Append(while_stack, id) /\ Len(while_stack) < WhileCapacity
      /\ UNCHANGED <<functions, instructions, labels, rodata, status>>
      /\ Then(tasks)
  BY DEF gen_while, TakeNumber, RoomForLoop
<1>4. loop \in Own(WhileNames, id) /\ end \in Own(WhileNames, id) /\ loop # end
  BY DEF Own, WhileNames
<1>5. used \in SUBSET Names /\ ConstFalse \in used /\ loop \in used /\ end \in used
  BY <1>2, <1>4, OwnTypes, StandingTypes DEF Typed
<1>6. test \in Emits(used) /\ again \in Emits(used)
  <2> HIDE DEF used
  <2>1. /\ TestFalse \in Code(used) /\ Jump("jp", loop) \in Code(used) /\ Jump("je", end) \in Code(used)
        /\ Jump("jne", loop) \in Code(used)
    BY <1>5, CodeTypes DEF Mnemonics
  <2> QED
    BY <1>5, <2>1, PieceTypes
<1>7. tasks \in Seq(S)
  <2>1. Expr(kids[1]) \in S /\ Stmt(kids[2]) \in S
    BY <1>1, <1>5, PieceTypes
  <2>2. Place(loop) \in S /\ Place(end) \in S /\ EndWhile \in S
    BY DEF Place, Places, EndWhile, Closing
  <2> HIDE DEF S, test, again
  <2> QED
    BY <1>6, <2>1, <2>2 DEF S
<1>8. /\ Len(tasks) = 8 /\ tasks[3] = Place(loop) /\ tasks[7] = Place(end) /\ tasks[8] = EndWhile
      /\ \A i \in 1 .. 8 : tasks[i].do = IF i \in {3, 7} THEN "place"
                                         ELSE IF i \in {2, 6} THEN "emit"
                                         ELSE IF i \in {1, 5} THEN "expr"
                                         ELSE IF i = 4 THEN "stmt" ELSE "end_while"
  BY DEF Expr, Emit, Place, Stmt, EndWhile
<1>9. PlaceOnce(tasks, own)
  <2> HIDE DEF tasks, loop, end
  <2>1. tasks[3].label = loop /\ tasks[7].label = end
    BY <1>8, PlaceFields
  <2>2. \A label \in own : \E i \in 1 .. Len(tasks) : tasks[i] = Place(label)
    BY <1>8
  <2>3. \A i \in 1 .. Len(tasks) : tasks[i].do = "place" => i \in {3, 7}
    BY <1>8
  <2>4. \A i, j \in {3, 7} : tasks[i].label = tasks[j].label => i = j
    BY <1>4, <2>1
  <2> QED
    BY <2>2, <2>3, <2>4 DEF PlaceOnce
<1>10. Balanced(tasks, 0, 0)
  <2> HIDE DEF tasks, S
  <2>1. \A i \in 1 .. Len(tasks) : tasks[i].do \notin {"rsp", "func", "exit"}
    BY <1>8
  <2>2. 0 \in Nat
    OBVIOUS
  <2> QED
    BY <1>7, <2>1, <2>2, NeutralTasks, Zenon
<1>11. \A i \in 1 .. 7 : tasks[i].do \notin {"end_while", "exit"}
  <2> HIDE DEF tasks
  <2> QED
    BY <1>8
<1>12. Construct(tasks, own) /\ own \in SUBSET Own(WhileNames, id)
  BY <1>4, <1>7, <1>9, <1>10 DEF Construct
<1> HIDE DEF tasks, own
<1> QED
  BY <1>3, <1>8, <1>11, <1>12

LEMMA OrTasks ==
  ASSUME Typed, gen_logic_or, counters.stack_offset \in Nat
  PROVE  /\ counters' = [counters EXCEPT !.logic = @ + 1]
         /\ UNCHANGED <<functions, instructions, labels, rodata, while_stack, status>>
         /\ \E own \in SUBSET Own(LogicNames, counters.logic + 1) :
              \E tasks : /\ Then(tasks) /\ Construct(tasks, own)
                         /\ \A i \in 1 .. Len(tasks) : tasks[i].do \notin {"stmt", "end_while", "exit"}
<1> DEFINE N == Nodes[functions]
           id == counters.logic + 1
           kids == Task.node.kids
           true == <<".logic_true", id>>
           end == <<".logic_end", id>>
           test == Emit(<<TestFalse, Jump("jp", true), Jump("jne", true)>>)
           no == Emit(<<Load(Rel(ConstFalse)), Jump("jmp", end)>>)
           yes == Emit(<<Load(Rel(ConstTrue))>>)
           own == {true, end}
           tasks == <<Expr(kids[1]), test, Expr(kids[2]), test, no, Place(true), yes, Place(end)>>
           used == Standing(rodata) \cup own
           S == Plain(N) \cup Stmts(N) \cup Moves \cup Closing \cup Emits(used) \cup Places(own)
<1>1. kids \in Seq(N) /\ kids[1] \in N /\ kids[2] \in N
  BY AtNode DEF gen_logic_or, DoingOp, DoingExpr
<1>2. id \in Int
  BY DEF Typed, Counters
<1>3. /\ counters' = [counters EXCEPT !.logic = @ + 1]
      /\ UNCHANGED <<functions, instructions, labels, rodata, while_stack, status>>
      /\ Then(tasks)
  BY DEF gen_logic_or, Numbered, TakeNumber
<1>4. true \in Own(LogicNames, id) /\ end \in Own(LogicNames, id) /\ true # end
  BY DEF Own, LogicNames
<1>5. used \in SUBSET Names /\ ConstFalse \in used /\ ConstTrue \in used /\ true \in used /\ end \in used
  BY <1>2, <1>4, OwnTypes, StandingTypes DEF Typed
<1>6. test \in Emits(used) /\ no \in Emits(used) /\ yes \in Emits(used)
  <2> HIDE DEF used
  <2>1. /\ TestFalse \in Code(used) /\ Jump("jp", true) \in Code(used) /\ Jump("jmp", end) \in Code(used)
        /\ Jump("jne", true) \in Code(used)
    BY <1>5, CodeTypes DEF Mnemonics
  <2>2. Load(Rel(ConstFalse)) \in Code(used) /\ Load(Rel(ConstTrue)) \in Code(used)
    BY <1>5, OperandTypes, CodeTypes
  <2> QED
    BY <1>5, <2>1, <2>2, PieceTypes
<1>7. tasks \in Seq(S)
  <2>1. Expr(kids[1]) \in S /\ Expr(kids[2]) \in S
    BY <1>1, <1>5, PieceTypes
  <2>2. Place(true) \in S /\ Place(end) \in S
    BY DEF Place, Places
  <2> HIDE DEF S, test, no, yes
  <2> QED
    BY <1>6, <2>1, <2>2 DEF S
<1>8. /\ Len(tasks) = 8 /\ tasks[6] = Place(true) /\ tasks[8] = Place(end)
      /\ \A i \in 1 .. 8 : tasks[i].do = IF i \in {6, 8} THEN "place"
                                         ELSE IF i \in {1, 3} THEN "expr" ELSE "emit"
  BY DEF Expr, Emit, Place
<1>9. PlaceOnce(tasks, own)
  <2> HIDE DEF tasks, true, end
  <2>1. tasks[6].label = true /\ tasks[8].label = end
    BY <1>8, PlaceFields
  <2>2. \A label \in own : \E i \in 1 .. Len(tasks) : tasks[i] = Place(label)
    BY <1>8
  <2>3. \A i \in 1 .. Len(tasks) : tasks[i].do = "place" => i \in {6, 8}
    BY <1>8
  <2>4. \A i, j \in {6, 8} : tasks[i].label = tasks[j].label => i = j
    BY <1>4, <2>1
  <2> QED
    BY <2>2, <2>3, <2>4 DEF PlaceOnce
<1>10. Balanced(tasks, counters.stack_offset, counters.stack_offset)
  <2> HIDE DEF tasks, S
  <2> QED
    BY <1>7, <1>8, NeutralTasks
<1>11. \A i \in 1 .. Len(tasks) : tasks[i].do \notin {"stmt", "end_while", "exit"}
  <2> HIDE DEF tasks
  <2> QED
    BY <1>8
<1>12. Construct(tasks, own) /\ own \in SUBSET Own(LogicNames, id)
  BY <1>4, <1>7, <1>9, <1>10 DEF Construct
<1> HIDE DEF tasks, own
<1> QED
  BY <1>3, <1>11, <1>12

LEMMA AndTasks ==
  ASSUME Typed, gen_logic_and, counters.stack_offset \in Nat
  PROVE  /\ counters' = [counters EXCEPT !.logic = @ + 1]
         /\ UNCHANGED <<functions, instructions, labels, rodata, while_stack, status>>
         /\ \E own \in SUBSET Own(LogicNames, counters.logic + 1) :
              \E tasks : /\ Then(tasks) /\ Construct(tasks, own)
                         /\ \A i \in 1 .. Len(tasks) : tasks[i].do \notin {"stmt", "end_while", "exit"}
<1> DEFINE N == Nodes[functions]
           id == counters.logic + 1
           kids == Task.node.kids
           true == <<".logic_true", id>>
           false == <<".logic_false", id>>
           rhs == <<".logic_and_rhs", id>>
           end == <<".logic_end", id>>
           first == Emit(<<TestFalse, Jump("jp", rhs), Jump("je", false)>>)
           second == Emit(<<TestFalse, Jump("jp", true), Jump("je", false)>>)
           yes == Emit(<<Load(Rel(ConstTrue)), Jump("jmp", end)>>)
           no == Emit(<<Load(Rel(ConstFalse))>>)
           own == {true, false, rhs, end}
           tasks == <<Expr(kids[1]), first, Place(rhs), Expr(kids[2]), second, Place(true), yes,
                      Place(false), no, Place(end)>>
           used == Standing(rodata) \cup own
           S == Plain(N) \cup Stmts(N) \cup Moves \cup Closing \cup Emits(used) \cup Places(own)
<1>1. kids \in Seq(N) /\ kids[1] \in N /\ kids[2] \in N
  BY AtNode DEF gen_logic_and, DoingOp, DoingExpr
<1>2. id \in Int
  BY DEF Typed, Counters
<1>3. /\ counters' = [counters EXCEPT !.logic = @ + 1]
      /\ UNCHANGED <<functions, instructions, labels, rodata, while_stack, status>>
      /\ Then(tasks)
  BY DEF gen_logic_and, Numbered, TakeNumber
<1>4. /\ true \in Own(LogicNames, id) /\ end \in Own(LogicNames, id)
      /\ false \in Own(LogicNames, id) /\ rhs \in Own(LogicNames, id)
      /\ true # end /\ true # false /\ true # rhs /\ false # end /\ false # rhs /\ rhs # end
  BY DEF Own, LogicNames
<1>5. /\ used \in SUBSET Names /\ ConstFalse \in used /\ ConstTrue \in used
      /\ true \in used /\ end \in used /\ false \in used /\ rhs \in used
  BY <1>2, <1>4, OwnTypes, StandingTypes DEF Typed
<1>6. first \in Emits(used) /\ second \in Emits(used) /\ no \in Emits(used) /\ yes \in Emits(used)
  <2> HIDE DEF used
  <2>1. /\ TestFalse \in Code(used) /\ Jump("jp", true) \in Code(used) /\ Jump("jmp", end) \in Code(used)
        /\ Jump("jp", rhs) \in Code(used) /\ Jump("je", false) \in Code(used)
    BY <1>5, CodeTypes DEF Mnemonics
  <2>2. Load(Rel(ConstFalse)) \in Code(used) /\ Load(Rel(ConstTrue)) \in Code(used)
    BY <1>5, OperandTypes, CodeTypes
  <2> QED
    BY <1>5, <2>1, <2>2, PieceTypes
<1>7. tasks \in Seq(S)
  <2>1. Expr(kids[1]) \in S /\ Expr(kids[2]) \in S
    BY <1>1, <1>5, PieceTypes
  <2>2. Place(true) \in S /\ Place(end) \in S /\ Place(false) \in S /\ Place(rhs) \in S
    BY DEF Place, Places
  <2> HIDE DEF S, first, second, no, yes
  <2> QED
    BY <1>6, <2>1, <2>2 DEF S
<1>8. /\ Len(tasks) = 10 /\ tasks[3] = Place(rhs) /\ tasks[6] = Place(true)
      /\ tasks[8] = Place(false) /\ tasks[10] = Place(end)
      /\ \A i \in 1 .. 10 : tasks[i].do = IF i \in {3, 6, 8, 10} THEN "place"
                                          ELSE IF i \in {1, 4} THEN "expr" ELSE "emit"
  BY DEF Expr, Emit, Place
<1>9. PlaceOnce(tasks, own)
  <2> HIDE DEF tasks, true, end, false, rhs
  <2>1. tasks[3].label = rhs /\ tasks[6].label = true /\ tasks[8].label = false /\ tasks[10].label = end
    BY <1>8, PlaceFields
  <2>2. \A label \in own : \E i \in 1 .. Len(tasks) : tasks[i] = Place(label)
    BY <1>8
  <2>3. \A i \in 1 .. Len(tasks) : tasks[i].do = "place" => i \in {3, 6, 8, 10}
    BY <1>8
  <2>4. \A i, j \in {3, 6, 8, 10} : tasks[i].label = tasks[j].label => i = j
    BY <1>4, <2>1
  <2> QED
    BY <2>2, <2>3, <2>4 DEF PlaceOnce
<1>10. Balanced(tasks, counters.stack_offset, counters.stack_offset)
  <2> HIDE DEF tasks, S
  <2> QED
    BY <1>7, <1>8, NeutralTasks
<1>11. \A i \in 1 .. Len(tasks) : tasks[i].do \notin {"stmt", "end_while", "exit"}
  <2> HIDE DEF tasks
  <2> QED
    BY <1>8
<1>12. Construct(tasks, own) /\ own \in SUBSET Own(LogicNames, id)
  BY <1>4, <1>7, <1>9, <1>10 DEF Construct
<1> HIDE DEF tasks, own
<1> QED
  BY <1>3, <1>11, <1>12

LEMMA CmpTasks ==
  ASSUME Typed, gen_cmp, counters.stack_offset \in Nat
  PROVE  /\ counters' = [counters EXCEPT !.cmp = @ + 1]
         /\ UNCHANGED <<functions, instructions, labels, rodata, while_stack, status>>
         /\ \E own \in SUBSET Own(CmpNames, counters.cmp + 1) :
              \E tasks : /\ Then(tasks) /\ Construct(tasks, own)
                         /\ \A i \in 1 .. Len(tasks) : tasks[i].do \notin {"stmt", "end_while", "exit"}
<1> DEFINE N == Nodes[functions]
           id == counters.cmp + 1
           op == Task.node.op
           left == Expr(Task.node.kids[1])
           true == <<".cmp_true", id>>
           false == <<".cmp_false", id>>
           end == <<".cmp_end", id>>
           save == Emit(<<Store(Saved)>>)
           unordered == <<IF op = "IS_NOT_EQUAL" THEN ".cmp_true" ELSE ".cmp_false", id>>
           test == Emit(<<Instr("ucomisd", xmm0, Saved), Jump("jp", unordered), Jump(JumpOf[op], true)>>)
           no == Emit(<<Load(Rel(ConstFalse)), Jump("jmp", end)>>)
           yes == Emit(<<Load(Rel(ConstTrue))>>)
           own == {true, false, end}
           inner == <<save, left, test, Place(false), no, Place(true), yes, Place(end)>>
           tasks == <<MoveRsp(8), save, left, test, Place(false), no, Place(true), yes, Place(end), MoveRsp(-8)>>
           used == Standing(rodata) \cup own
           S == Plain(N) \cup Stmts(N) \cup Moves \cup Closing \cup Emits(used) \cup Places(own)
           o == counters.stack_offset
<1>1. Task.node.kids[1] \in N /\ op \in Comparisons
  BY AtNode DEF gen_cmp
<1>2. id \in Int
  BY DEF Typed, Counters
<1>3. /\ counters' = [counters EXCEPT !.cmp = @ + 1]
      /\ UNCHANGED <<functions, instructions, labels, rodata, while_stack, status>>
      /\ Then(tasks)
  BY DEF gen_cmp, Numbered, TakeNumber
<1>4. /\ true \in Own(CmpNames, id) /\ end \in Own(CmpNames, id) /\ false \in Own(CmpNames, id)
      /\ true # end /\ true # false /\ false # end /\ unordered \in {true, false}
  BY DEF Own, CmpNames
<1>5. /\ used \in SUBSET Names /\ ConstFalse \in used /\ ConstTrue \in used
      /\ true \in used /\ end \in used /\ false \in used /\ unordered \in used
  BY <1>2, <1>4, OwnTypes, StandingTypes DEF Typed
<1>6. save \in Emits(used) /\ test \in Emits(used) /\ no \in Emits(used) /\ yes \in Emits(used)
  <2> HIDE DEF used, true, false, end, unordered
  <2>1. Saved \in Operands(used)
    BY <1>5, SlotTypes DEF Saved
  <2>2. JumpOf[op] \in Mnemonics
    BY <1>1 DEF JumpOf, Comparisons, Mnemonics
  <2>3. /\ Store(Saved) \in Code(used) /\ Instr("ucomisd", xmm0, Saved) \in Code(used)
        /\ Jump("jp", unordered) \in Code(used) /\ Jump("jmp", end) \in Code(used)
        /\ Jump(JumpOf[op], true) \in Code(used)
    BY <1>5, <2>1, <2>2, CodeTypes, InstructionTypes DEF Mnemonics
  <2>4. Load(Rel(ConstFalse)) \in Code(used) /\ Load(Rel(ConstTrue)) \in Code(used)
    BY <1>5, OperandTypes, CodeTypes
  <2> QED
    BY <1>5, <2>3, <2>4, PieceTypes
<1>7. tasks \in Seq(S) /\ inner \in Seq(S) /\ Moves \subseteq S
  <2>1. left \in S
    BY <1>1, <1>5, PieceTypes
  <2>2. Place(true) \in S /\ Place(end) \in S /\ Place(false) \in S
    BY DEF Place, Places
  <2>3. MoveRsp(8) \in S /\ MoveRsp(-8) \in S
    BY DEF MoveRsp, Moves
  <2> HIDE DEF S, save, test, no, yes, left
  <2>4. save \in S /\ test \in S /\ no \in S /\ yes \in S /\ Moves \subseteq S
    BY <1>6 DEF S
  <2> QED
    BY <2>1, <2>2, <2>3, <2>4
<1>8. /\ Len(tasks) = 10 /\ tasks[5] = Place(false) /\ tasks[7] = Place(true) /\ tasks[9] = Place(end)
      /\ \A i \in 1 .. 10 : tasks[i].do = IF i \in {5, 7, 9} THEN "place"
                                          ELSE IF i \in {1, 10} THEN "rsp"
                                          ELSE IF i = 3 THEN "expr" ELSE "emit"
  BY DEF Expr, Emit, Place, MoveRsp
<1>9. PlaceOnce(tasks, own)
  <2> HIDE DEF tasks, true, end, false
  <2>1. tasks[5].label = false /\ tasks[7].label = true /\ tasks[9].label = end
    BY <1>8, PlaceFields
  <2>2. \A label \in own : \E i \in 1 .. Len(tasks) : tasks[i] = Place(label)
    BY <1>8
  <2>3. \A i \in 1 .. Len(tasks) : tasks[i].do = "place" => i \in {5, 7, 9}
    BY <1>8
  <2>4. \A i, j \in {5, 7, 9} : tasks[i].label = tasks[j].label => i = j
    BY <1>4, <2>1
  <2> QED
    BY <2>2, <2>3, <2>4 DEF PlaceOnce
<1>10. Balanced(tasks, o, o)
  <2>1. /\ Len(inner) = 8
        /\ \A i \in 1 .. 8 : inner[i].do \in {"emit", "expr", "place"}
    BY DEF Expr, Emit, Place
  <2>2. o \in Nat /\ o + 8 \in Nat
    OBVIOUS
  <2>3. tasks = <<MoveRsp(8)>> \o inner \o <<MoveRsp(-8)>>
    OBVIOUS
  <2> HIDE DEF tasks, S, inner, o
  <2>4. Balanced(inner, o + 8, o + 8)
    BY <2>1, <2>2, <1>7, NeutralTasks
  <2> QED
    BY <2>2, <2>3, <2>4, <1>7, BracketBalanced
<1>11. \A i \in 1 .. Len(tasks) : tasks[i].do \notin {"stmt", "end_while", "exit"}
  <2> HIDE DEF tasks
  <2> QED
    BY <1>8
<1>12. Construct(tasks, own) /\ own \in SUBSET Own(CmpNames, id)
  BY <1>4, <1>7, <1>9, <1>10 DEF Construct
<1> HIDE DEF tasks, own
<1> QED
  BY <1>3, <1>11, <1>12

-----------------------------------------------------------------------------
(* Functions and the end of the program. *)

LEMMA CodeMonotone ==
  ASSUME NEW used, NEW more, used \subseteq more
  PROVE  Code(used) \subseteq Code(more) /\ Emits(used) \subseteq Emits(more)
<1>1. Operands(used) \subseteq Operands(more)
  BY DEF Operands
<1>2. Code(used) \subseteq Code(more)
  BY <1>1 DEF Code
<1>3. Seq(Code(used)) \subseteq Seq(Code(more))
  BY <1>2
<1> QED
  BY <1>2, <1>3 DEF Emits

(* The labels of a function. *)
IsEntry(f) == Name[f.id] \in EntryNames
OwnOf(f) == {<<"func", f.id>>, <<"func_end", f.id>>} \cup (IF IsEntry(f) THEN {<<"main", 0>>} ELSE {})

(* What a function is replaced by: its body is the only statement, its end   *)
(* is placed after it, and nothing in it is local.                           *)
FuncBody(f, tasks) ==
  /\ tasks \in Seq(Stmts(Nodes[functions]) \cup Emits(Standing(rodata)) \cup Places(OwnOf(f)))
  /\ PlaceOnce(tasks, OwnOf(f))
  /\ Balanced(tasks, 0, 0)
  /\ \A i \in 1 .. Len(tasks) :
       tasks[i].do = "stmt" => \E j \in i + 1 .. Len(tasks) : tasks[j] = Place(<<"func_end", f.id>>)

(* The parts of a concatenation. *)
LEMMA TwoParts ==
  ASSUME NEW S, NEW first \in Seq(S), NEW second \in Seq(S), NEW both, both = first \o second
  PROVE  /\ both \in Seq(S) /\ Len(both) = Len(first) + Len(second)
         /\ \A i \in 1 .. Len(first) : both[i] = first[i]
         /\ \A i \in 1 .. Len(second) : both[Len(first) + i] = second[i]
  OBVIOUS

LEMMA FourParts ==
  ASSUME NEW S, NEW entry \in Seq(S), NEW begin \in Seq(S), NEW params \in Seq(S), NEW rest \in Seq(S),
         NEW tasks, tasks = entry \o begin \o params \o rest
  PROVE  LET m == Len(entry)
             b == m + Len(begin)
             p == b + Len(params)
         IN  /\ tasks \in Seq(S) /\ Len(tasks) = p + Len(rest)
             /\ \A i \in 1 .. m : tasks[i] = entry[i]
             /\ \A i \in 1 .. Len(begin) : tasks[m + i] = begin[i]
             /\ \A i \in 1 .. Len(params) : tasks[b + i] = params[i]
             /\ \A i \in 1 .. Len(rest) : tasks[p + i] = rest[i]
<1> DEFINE one == entry \o begin
           two == one \o params
<1>0. one = entry \o begin /\ two = one \o params /\ tasks = two \o rest
  OBVIOUS
<1> HIDE DEF one, two
<1>1. /\ one \in Seq(S) /\ Len(one) = Len(entry) + Len(begin)
      /\ \A i \in 1 .. Len(entry) : one[i] = entry[i]
      /\ \A i \in 1 .. Len(begin) : one[Len(entry) + i] = begin[i]
  BY <1>0, TwoParts
<1>2. /\ two \in Seq(S) /\ Len(two) = Len(one) + Len(params)
      /\ \A i \in 1 .. Len(one) : two[i] = one[i]
      /\ \A i \in 1 .. Len(params) : two[Len(one) + i] = params[i]
  BY <1>0, <1>1, TwoParts
<1>3. /\ tasks \in Seq(S) /\ Len(tasks) = Len(two) + Len(rest)
      /\ \A i \in 1 .. Len(two) : tasks[i] = two[i]
      /\ \A i \in 1 .. Len(rest) : tasks[Len(two) + i] = rest[i]
  BY <1>0, <1>2, TwoParts
<1>4. Len(entry) \in Nat /\ Len(begin) \in Nat /\ Len(params) \in Nat /\ Len(rest) \in Nat
  OBVIOUS
<1> QED
  BY <1>1, <1>2, <1>3, <1>4

LEMMA FuncTasks ==
  ASSUME Typed, gen_func
  PROVE  /\ Task \in Funcs(Nodes[functions])
         /\ counters' = [counters EXCEPT !.func = Task.func.id, !.stack_offset = 0]
         /\ UNCHANGED <<functions, instructions, labels, rodata, while_stack, status>>
         /\ \E tasks : Then(tasks) /\ FuncBody(Task.func, tasks)
<1> DEFINE N == Nodes[functions]
           f == Task.func
           own == OwnOf(f)
           used == Standing(rodata)
           S == Stmts(N) \cup Emits(used) \cup Places(own)
           frame == AlignUp16(f.frame_size)
           main == <<"main", 0>>
           start == <<"func", f.id>>
           end == <<"func_end", f.id>>
           leave == IF IsEntry(f) THEN Jump("call", <<"__exit", 0>>) ELSE Instr0("ret")
           prologue == Emit(Prologue(frame))
           clear == Emit(<<Clear>>)
           epilogue == Emit(Epilogue(frame))
           last == Emit(<<leave>>)
           entry == If(IsEntry(f), <<Place(main)>>)
           begin == <<Place(start), prologue>>
           params == [i \in 1 .. f.params |-> Emit(TakeParam(i))]
           rest == <<Stmt(f.body), clear, Place(end), epilogue, last>>
<1>1. Task \in Tasks(N) /\ Task.do = "func"
  BY DEF gen_func, Doing, Typed, Task
<1>2. Task \in Funcs(N) /\ f \in FuncOf(N)
  BY <1>1 DEF Tasks, Plain, Exprs, Stmts, Compares, LibraryCalls, Emits, Places, Moves, Funcs, Closing
<1>3. f.id \in Nat /\ f.params \in Nat /\ f.frame_size \in Nat /\ f.body \in N
  BY <1>2 DEF FuncOf
<1>4. /\ counters' = [counters EXCEPT !.func = f.id, !.stack_offset = 0]
      /\ UNCHANGED <<functions, instructions, labels, rodata, while_stack, status>>
      /\ Then(entry \o begin \o params \o rest)
  BY DEF gen_func, IsEntry
<1>5. used \in SUBSET Names /\ ConstFalse \in used /\ <<"__exit", 0>> \in used
  BY StandingTypes DEF Typed, Standing, Library
<1>6. prologue \in S /\ clear \in S /\ epilogue \in S /\ last \in S
  <2> HIDE DEF used
  <2>1. frame \in Int
    BY <1>3 DEF AlignUp16
  <2>2. frame \in Int /\ xmm0 \in Operands(used) /\ rsp \in Operands(used) /\ rbp \in Operands(used)
        /\ Imm(frame) \in Operands(used) /\ Clear \in Code(used)
    BY <1>5, <2>1, OperandTypes, CodeTypes
  <2>3. /\ Instr1("push", rbp) \in Code(used) /\ Instr("mov", rbp, rsp) \in Code(used)
        /\ Instr("sub", rsp, Imm(frame)) \in Code(used) /\ Instr("add", rsp, Imm(frame)) \in Code(used)
        /\ Instr1("pop", rbp) \in Code(used) /\ Instr0("ret") \in Code(used)
    <3>1. {"push", "mov", "sub", "add", "pop", "ret"} \subseteq Mnemonics
      BY DEF Mnemonics
    <3> QED
      BY <1>5, <2>2, <3>1, InstructionTypes
  <2>4. leave \in Code(used)
    BY <1>5, <2>3, CodeTypes DEF Mnemonics
  <2> HIDE DEF frame, leave
  <2>5. prologue \in Emits(used)
    BY <1>5, <2>3, PieceTypes DEF Prologue
  <2>6. epilogue \in Emits(used)
    BY <1>5, <2>3, PieceTypes DEF Epilogue
  <2>7. clear \in Emits(used) /\ last \in Emits(used)
    BY <1>5, <2>2, <2>4, PieceTypes
  <2> HIDE DEF prologue, epilogue, clear, last
  <2> QED
    BY <2>5, <2>6, <2>7
<1>7. \A i \in 1 .. f.params : Emit(TakeParam(i)) \in Emits(used)
  <2> HIDE DEF used
  <2> SUFFICES ASSUME NEW i \in 1 .. f.params
               PROVE  Emit(TakeParam(i)) \in Emits(used)
    OBVIOUS
  <2>1. 8 * (i + 1) \in Int /\ 8 * i \in Int
    BY <1>3
  <2>2. Load(Mem("rbp", 8 * (i + 1))) \in Code(used) /\ Store(Slot(8 * i)) \in Code(used)
    BY <1>5, <2>1, SlotTypes, CodeTypes
  <2> QED
    BY <1>5, <2>2, PieceTypes DEF TakeParam
<1>8. start \in own /\ end \in own /\ (IsEntry(f) => main \in own)
      /\ \A label \in own : label = start \/ label = end \/ (IsEntry(f) /\ label = main)
  BY DEF OwnOf
<1>9. entry \in Seq(S) /\ begin \in Seq(S) /\ params \in Seq(S) /\ rest \in Seq(S)
  <2>1. Place(start) \in S /\ Place(end) \in S /\ (IsEntry(f) => Place(main) \in S)
    BY <1>8 DEF Place, Places
  <2>2. Stmt(f.body) \in S
    BY <1>3 DEF Stmt, Stmts
  <2>3. \A i \in 1 .. f.params : Emit(TakeParam(i)) \in S
    BY <1>7
  <2>4. entry \in Seq(S)
    <3> HIDE DEF S
    <3> QED
      BY <2>1 DEF If
  <2>6. params \in Seq(S)
    <3> HIDE DEF S
    <3> QED
      BY <1>3, <2>3
  <2>5. begin \in Seq(S) /\ rest \in Seq(S)
    <3> DEFINE a == Place(start)
               b == Place(end)
               c == Stmt(f.body)
    <3>1. a \in S /\ b \in S /\ c \in S
      BY <2>1, <2>2
    <3> HIDE DEF S, prologue, clear, epilogue, last, a, b, c
    <3>2. <<a, prologue>> \in Seq(S) /\ <<c, clear, b, epilogue, last>> \in Seq(S)
      BY <1>6, <3>1
    <3> QED
      BY <3>2 DEF a, b, c
  <2> QED
    BY <2>4, <2>5, <2>6
<1> DEFINE m == Len(entry)
           p == f.params
           tasks == entry \o begin \o params \o rest
<1>10. m \in Nat /\ (IsEntry(f) => m = 1 /\ entry[1] = Place(main)) /\ (~IsEntry(f) => m = 0)
  BY DEF If
<1>11. /\ Len(begin) = 2 /\ begin[1] = Place(start) /\ begin[2].do = "emit"
       /\ Len(params) = p /\ \A i \in 1 .. p : params[i].do = "emit"
       /\ Len(rest) = 5 /\ rest[1].do = "stmt" /\ rest[2].do = "emit" /\ rest[3] = Place(end)
       /\ rest[4].do = "emit" /\ rest[5].do = "emit"
  BY <1>3 DEF Emit, Stmt
<1>12. /\ tasks \in Seq(S) /\ Len(tasks) = m + p + 7
       /\ IsEntry(f) => tasks[1] = Place(main)
       /\ tasks[m + 1] = Place(start) /\ tasks[m + 2].do = "emit"
       /\ \A i \in m + 3 .. m + 2 + p : tasks[i].do = "emit"
       /\ tasks[m + p + 3].do = "stmt" /\ tasks[m + p + 4].do = "emit" /\ tasks[m + p + 5] = Place(end)
       /\ tasks[m + p + 6].do = "emit" /\ tasks[m + p + 7].do = "emit"
  <2> HIDE DEF entry, begin, params, rest, S, start, end, main
  <2>1. /\ tasks \in Seq(S) /\ Len(tasks) = Len(entry) + Len(begin) + Len(params) + Len(rest)
        /\ \A i \in 1 .. Len(entry) : tasks[i] = entry[i]
        /\ \A i \in 1 .. Len(begin) : tasks[Len(entry) + i] = begin[i]
        /\ \A i \in 1 .. Len(params) : tasks[Len(entry) + Len(begin) + i] = params[i]
        /\ \A i \in 1 .. Len(rest) : tasks[Len(entry) + Len(begin) + Len(params) + i] = rest[i]
    BY <1>9, FourParts
  <2>2. /\ tasks \in Seq(S) /\ Len(tasks) = m + p + 7
        /\ \A i \in 1 .. m : tasks[i] = entry[i]
        /\ tasks[m + 1] = begin[1] /\ tasks[m + 2] = begin[2]
        /\ \A i \in 1 .. p : tasks[m + 2 + i] = params[i]
        /\ tasks[m + p + 3] = rest[1] /\ tasks[m + p + 4] = rest[2] /\ tasks[m + p + 5] = rest[3]
        /\ tasks[m + p + 6] = rest[4] /\ tasks[m + p + 7] = rest[5]
    <3> HIDE DEF tasks
    <3>1. m = Len(entry) /\ p = Len(params) /\ m \in Nat /\ p \in Nat
      BY <1>3, <1>10, <1>11
    <3> HIDE DEF m, p
    <3> QED
      BY <1>11, <2>1, <3>1
  <2> HIDE DEF m, p
  <2> HIDE DEF tasks
  <2>3. \A i \in m + 3 .. m + 2 + p : tasks[i].do = "emit"
    <3> SUFFICES ASSUME NEW i \in m + 3 .. m + 2 + p PROVE tasks[i].do = "emit"
      OBVIOUS
    <3>1. m \in Nat /\ p \in Nat
      BY <1>3, <1>10 DEF p
    <3>2. i - m - 2 \in 1 .. p /\ m + 2 + (i - m - 2) = i
      BY <3>1
    <3> QED
      BY <3>2, <2>2, <1>11
  <2> QED
    BY <1>10, <1>11, <2>2, <2>3
<1> HIDE DEF tasks, entry, begin, params, rest, m, p, S, own, start, end, main
<1>13. m \in Nat /\ p \in Nat /\ (IsEntry(f) => m = 1) /\ (~IsEntry(f) => m = 0)
  BY <1>3, <1>10 DEF p
<1>14. \A i \in 1 .. Len(tasks) :
         /\ tasks[i].do \in {"place", "emit", "stmt"}
         /\ tasks[i].do = "place" => (i = 1 /\ IsEntry(f)) \/ i = m + 1 \/ i = m + p + 5
         /\ tasks[i].do = "stmt" => i = m + p + 3
  <2> SUFFICES ASSUME NEW i \in 1 .. m + p + 7
               PROVE  /\ tasks[i].do \in {"place", "emit", "stmt"}
                      /\ tasks[i].do = "place" => (i = 1 /\ IsEntry(f)) \/ i = m + 1 \/ i = m + p + 5
                      /\ tasks[i].do = "stmt" => i = m + p + 3
    BY <1>12
  <2>1. \/ i = 1 /\ IsEntry(f)
        \/ i \in m + 3 .. m + 2 + p
        \/ i \in {m + 1, m + 2, m + p + 3, m + p + 4, m + p + 5, m + p + 6, m + p + 7}
    BY <1>13
  <2> QED
    BY <1>12, <2>1, PlaceFields
<1>15. PlaceOnce(tasks, own)
  <2>1. \A label \in own : \E i \in 1 .. Len(tasks) : tasks[i] = Place(label)
    BY <1>8, <1>12, <1>13
  <2>2. tasks[m + 1].label = start /\ tasks[m + p + 5].label = end /\ (IsEntry(f) => tasks[1].label = main)
    BY <1>12, PlaceFields
  <2>3. start # end /\ start # main /\ end # main
    BY DEF start, end, main
  <2>4. ASSUME NEW i \in 1 .. Len(tasks), NEW j \in 1 .. Len(tasks),
               tasks[i].do = "place", tasks[j].do = "place", tasks[i].label = tasks[j].label
        PROVE  i = j
    <3>1. (i = 1 /\ IsEntry(f)) \/ i = m + 1 \/ i = m + p + 5
      BY <1>14, <2>4
    <3>2. (j = 1 /\ IsEntry(f)) \/ j = m + 1 \/ j = m + p + 5
      BY <1>14, <2>4
    <3> QED
      BY <3>1, <3>2, <2>2, <2>3, <2>4
  <2> QED
    BY <2>1, <2>4 DEF PlaceOnce
<1>16. Balanced(tasks, 0, 0)
  BY <1>12, <1>14, NeutralTasks
<1>17. \A i \in 1 .. Len(tasks) :
         tasks[i].do = "stmt" => \E j \in i + 1 .. Len(tasks) : tasks[j] = Place(end)
  <2>1. m + p + 5 \in m + p + 3 + 1 .. Len(tasks)
    <3>1. Len(tasks) = m + p + 7
      BY <1>12
    <3> QED
      BY <1>13, <3>1
  <2> QED
    BY <2>1, <1>12, <1>14
<1>18. FuncBody(f, tasks)
  BY <1>12, <1>15, <1>16, <1>17 DEF FuncBody, S, own, end
<1>19. Then(tasks)
  BY <1>4 DEF tasks
<1> QED
  BY <1>2, <1>4, <1>18, <1>19

(* The end of the program: instructions that name nothing and labels for the *)
(* library's exit and for the constants.                                     *)
LEMMA ExitTypes ==
  ASSUME Typed, gen_exit
  PROVE  LET code == <<Instr("mov", Reg("rax"), Imm(60)), Instr("xor", Reg("rdi"), Reg("rdi")), Instr0("syscall")>>
                     \o [i \in 1 .. Len(rodata) |-> Instr1("dq", Imm(rodata[i].value))]
             text == Len(instructions) + 3
             new == <<[label |-> <<"__exit", 0>>, index |-> Len(instructions)]>>
                    \o [i \in 1 .. Len(rodata) |-> [label |-> rodata[i].label, index |-> text + i - 1]]
         IN  /\ code \in Seq(Code({})) /\ instructions' = instructions \o code
             /\ new \in Seq(Marks) /\ labels' = labels \o new
             /\ Len(new) = Len(rodata) + 1 /\ new[1].label = <<"__exit", 0>> /\ new[1].index = Len(instructions)
             /\ \A i \in 1 .. Len(rodata) :
                  new[i + 1].label = rodata[i].label /\ new[i + 1].index = Len(instructions) + i + 2
             /\ Len(code) = Len(rodata) + 3
<1> DEFINE first == <<Instr("mov", Reg("rax"), Imm(60)), Instr("xor", Reg("rdi"), Reg("rdi")), Instr0("syscall")>>
           second == [i \in 1 .. Len(rodata) |-> Instr1("dq", Imm(rodata[i].value))]
           text == Len(instructions) + 3
           exit == <<[label |-> <<"__exit", 0>>, index |-> Len(instructions)]>>
           data == [i \in 1 .. Len(rodata) |-> [label |-> rodata[i].label, index |-> text + i - 1]]
<1>1. Len(first) = 3
  OBVIOUS
<1>2. instructions' = instructions \o (first \o second) /\ labels' = labels \o (exit \o data)
  BY <1>1 DEF gen_exit, instruction_list_push_back, label_list_push_back
<1>3. Len(rodata) \in Nat /\ \A i \in 1 .. Len(rodata) : rodata[i].label \in Names /\ rodata[i].value \in Int
  <2>1. Len(rodata) \in Nat /\ \A i \in 1 .. Len(rodata) : rodata[i] \in Constant
    BY DEF Typed
  <2> QED
    BY <2>1 DEF Constant
<1>4. first \in Seq(Code({})) /\ second \in Seq(Code({}))
  <2>1. {"mov", "xor", "syscall", "dq"} \subseteq Mnemonics /\ {"rax", "rdi"} \subseteq RegisterNames
    BY DEF Mnemonics, RegisterNames
  <2>2. {} \in SUBSET Names
    OBVIOUS
  <2>3. Reg("rax") \in Operands({}) /\ Reg("rdi") \in Operands({}) /\ \A v \in Int : Imm(v) \in Operands({})
    BY <2>1, <2>2, OperandTypes
  <2>4. /\ Instr("mov", Reg("rax"), Imm(60)) \in Code({}) /\ Instr("xor", Reg("rdi"), Reg("rdi")) \in Code({})
        /\ Instr0("syscall") \in Code({}) /\ \A v \in Int : Instr1("dq", Imm(v)) \in Code({})
    BY <2>1, <2>2, <2>3, InstructionTypes
  <2>5. first \in Seq(Code({}))
    BY <2>4
  <2>6. second \in Seq(Code({}))
    BY <1>3, <2>4
  <2> QED
    BY <2>5, <2>6
<1>5. exit \in Seq(Marks) /\ data \in Seq(Marks)
  <2>1. Len(instructions) \in Nat
    BY DEF Typed
  <2>2. <<"__exit", 0>> \in Names
    BY DEF Names, LabelNames
  <2>3. [label |-> <<"__exit", 0>>, index |-> Len(instructions)] \in Marks
    BY <2>1, <2>2 DEF Marks
  <2>4. ASSUME NEW i \in 1 .. Len(rodata)
        PROVE  [label |-> rodata[i].label, index |-> text + i - 1] \in Marks
    BY <1>3, <2>1 DEF Marks
  <2> QED
    BY <1>3, <2>3, <2>4
<1>6. /\ Len(exit) = 1 /\ exit[1].label = <<"__exit", 0>> /\ exit[1].index = Len(instructions)
      /\ Len(second) = Len(rodata) /\ Len(data) = Len(rodata)
      /\ \A i \in 1 .. Len(rodata) :
           data[i].label = rodata[i].label /\ data[i].index = Len(instructions) + i + 2
  <2>1. Len(instructions) \in Nat
    BY DEF Typed
  <2> QED
    BY <1>3, <2>1
<1> DEFINE code == first \o second
           new == exit \o data
<1>7. code = first \o second /\ new = exit \o data
  OBVIOUS
<1> HIDE DEF first, second, exit, data, code, new
<1>8. code \in Seq(Code({})) /\ Len(code) = Len(first) + Len(second)
  BY <1>4, <1>7, TwoParts
<1>9. /\ new \in Seq(Marks) /\ Len(new) = Len(exit) + Len(data)
      /\ \A i \in 1 .. Len(exit) : new[i] = exit[i]
      /\ \A i \in 1 .. Len(data) : new[Len(exit) + i] = data[i]
  BY <1>5, <1>7, TwoParts
<1>10. /\ Len(new) = Len(rodata) + 1 /\ new[1].label = <<"__exit", 0>> /\ new[1].index = Len(instructions)
       /\ Len(code) = Len(rodata) + 3
  BY <1>1, <1>3, <1>6, <1>8, <1>9
<1>11. \A i \in 1 .. Len(rodata) :
         new[i + 1].label = rodata[i].label /\ new[i + 1].index = Len(instructions) + i + 2
  BY <1>3, <1>6, <1>9
<1>12. instructions' = instructions \o code /\ labels' = labels \o new
  BY <1>2 DEF code, new
<1> QED
  BY <1>8, <1>9, <1>10, <1>11, <1>12 DEF first, second, exit, data, code, new

-----------------------------------------------------------------------------
(* The steps, by what they do to the rest of the state. *)

(* A number that is not yet among the constants. *)
NewConstant ==
  /\ Doing("expr") /\ Task.node.num \in Int /\ Holders(Task.node.num) = {}
  /\ rodata' = Append(rodata, [label |-> <<"const", counters.const>>, value |-> Task.node.num])
  /\ counters' = [counters EXCEPT !.const = @ + 1]

(* Only tasks are replaced.  What a statement leaves may hold statements and *)
(* jump to the end of the function, what an expression leaves may not.       *)
WalkStep ==
  /\ Doing("expr") \/ Doing("stmt") \/ Doing("call")
  /\ UNCHANGED <<functions, instructions, labels, while_stack, status>>
  /\ rodata' \in Seq(Constant)
  /\ (rodata' = rodata /\ counters' = counters) \/ NewConstant
  /\ \E tasks : /\ Then(tasks)
                /\ Balanced(tasks, counters.stack_offset, counters.stack_offset)
                /\ \/ Doing("stmt") /\ tasks \in Seq(Stmts(Nodes[functions]))
                   \/ Doing("stmt") /\ tasks \in Seq(Plain(Nodes[functions]) \cup Emits(Standing(rodata) \cup {EndLabel}))
                   \/ tasks \in Seq(Plain(Nodes[functions]) \cup Emits(Standing(rodata')) \cup Moves)

Kinds == {"if", "while", "cmp", "logic"}
NamesOf == [kind \in Kinds |-> CASE kind = "if" -> IfNames [] kind = "while" -> WhileNames
                                 [] kind = "cmp" -> CmpNames [] kind = "logic" -> LogicNames]

(* A construct takes a number for its labels; only a statement holds others, *)
(* and only a loop changes while_stack.                                      *)
ConstructStep(kind) ==
  /\ Doing("expr") \/ Doing("stmt") \/ Doing("cmp")
  /\ UNCHANGED <<functions, instructions, labels, rodata, status>>
  /\ counters' = [counters EXCEPT ![kind] = @ + 1]
  /\ \E own \in SUBSET Own(NamesOf[kind], counters[kind] + 1) : \E tasks :
       /\ Then(tasks) /\ Construct(tasks, own)
       /\ Doing("stmt") \/ \A i \in 1 .. Len(tasks) : tasks[i].do # "stmt"
       /\ \/ /\ while_stack' = while_stack
             /\ \A i \in 1 .. Len(tasks) : tasks[i].do \notin {"end_while", "exit"}
          \/ /\ kind = "while"
             /\ while_stack' = Append(while_stack, counters.while + 1) /\ Len(while_stack) < WhileCapacity
             /\ Len(tasks) = 8 /\ tasks[7] = Place(<<".while_end", counters.while + 1>>) /\ tasks[8] = EndWhile
             /\ \A i \in 1 .. 7 : tasks[i].do \notin {"end_while", "exit"}

(* The stack pointer along what is still to be done.                         *)
Offsets == Balanced(todo, counters.stack_offset, 0)

LEMMA OffsetNow ==
  ASSUME Typed, Offsets, todo # <<>>
  PROVE  /\ counters.stack_offset \in Nat
         /\ Doing("stmt") \/ Doing("func") \/ Doing("exit") => counters.stack_offset = 0
         /\ LET next == counters.stack_offset + (IF Task.do = "rsp" THEN Task.bytes ELSE 0)
            IN  next \in Nat /\ Balanced(Tail(todo), next, 0)
<1>1. todo \in Seq(Tasks(Nodes[functions])) /\ Task = todo[1]
  BY DEF Typed, Task
<1>2. Balanced(todo, counters.stack_offset, 0)
  BY DEF Offsets
<1>3. LET next == counters.stack_offset + (IF todo[1].do = "rsp" THEN todo[1].bytes ELSE 0)
      IN  /\ counters.stack_offset \in Nat /\ next \in Nat
          /\ todo[1].do \in {"stmt", "func", "exit"} => counters.stack_offset = 0
          /\ Balanced(Tail(todo), next, 0)
  BY <1>1, <1>2, TailBalanced
<1> QED
  BY <1>1, <1>3, Zenon DEF Doing

LEMMA WalkSteps ==
  ASSUME Typed, Offsets,
         \/ gen_block \/ gen_nothing \/ gen_var_decl \/ gen_ret \/ gen_var \/ gen_num \/ gen_arithmetic
         \/ gen_assign \/ gen_cmp_right \/ gen_call \/ gen_out \/ gen_in \/ gen_sqrt \/ CallAligned
  PROVE  WalkStep
<1> DEFINE N == Nodes[functions]
           o == counters.stack_offset
           P == Plain(N) \cup Emits(Standing(rodata))
<1>1. Doing("expr") \/ Doing("stmt") \/ Doing("call")
  BY DEF gen_block, gen_nothing, gen_var_decl, gen_ret, gen_var, gen_num, gen_arithmetic, gen_assign,
     gen_cmp_right, gen_call, gen_out, gen_in, gen_sqrt, CallAligned, DoingStmt, DoingOp, DoingCall, DoingExpr
<1>2. o \in Nat /\ (Doing("stmt") => o = 0)
  <2>1. todo # <<>>
    BY <1>1 DEF Doing
  <2> QED
    BY <2>1, OffsetNow
<1>3. rodata \in Seq(Constant)
  BY DEF Typed
<1>4. \A used : \A t \in Plain(N) \cup Emits(used) : t.do \notin {"rsp", "func", "exit", "stmt"}
  BY DEF Plain, Exprs, Compares, LibraryCalls, Emits
<1>5. ASSUME NEW used, NEW tasks \in Seq(Plain(N) \cup Emits(used))
      PROVE  Balanced(tasks, o, o)
  <2> DEFINE S == Plain(N) \cup Emits(used)
  <2>1. tasks \in Seq(S) /\ \A t \in S : t.do \notin {"rsp", "func", "exit"} /\ (t.do = "stmt" => o = 0)
    BY <1>4
  <2> HIDE DEF S, o
  <2> QED
    BY <1>2, <2>1, NeutralBalanced
<1>6. CASE gen_block \/ gen_nothing
  <2>1. Doing("stmt")
    BY <1>6 DEF gen_block, gen_nothing, DoingStmt
  <2>2. PICK tasks \in Seq(Stmts(N)) : Replace(tasks)
    BY <1>6, BlockTasks
  <2>3. \A t \in Stmts(N) : t.do \notin {"rsp", "func", "exit"} /\ (t.do = "stmt" => o = 0)
    BY <1>2, <2>1 DEF Stmts
  <2> HIDE DEF o
  <2>4. Balanced(tasks, o, o)
    BY <1>2, <2>3, NeutralBalanced
  <2>5. Then(tasks) /\ tasks \in Seq(Stmts(N)) /\ rodata' \in Seq(Constant)
    BY <1>3, <2>2 DEF Replace
  <2> QED
    BY <1>1, <2>1, <2>2, <2>4, <2>5 DEF WalkStep, Replace, o
<1>7. CASE gen_var_decl
  <2>1. PICK tasks \in Seq(P) : Replace(tasks)
    BY <1>7, DeclTasks
  <2>2. Balanced(tasks, o, o)
    BY <2>1, <1>5
  <2>3. tasks \in Seq(P \cup Moves) /\ rodata' = rodata
    BY <2>1 DEF Replace
  <2> HIDE DEF o
  <2> QED
    BY <1>1, <1>3, <2>1, <2>2, <2>3 DEF WalkStep, Replace, o
<1>8. CASE gen_ret
  <2>1. Doing("stmt")
    BY <1>8 DEF gen_ret, DoingStmt
  <2>2. PICK tasks \in Seq(Plain(N) \cup Emits(Standing(rodata) \cup {EndLabel})) : Replace(tasks)
    BY <1>8, RetTasks
  <2>3. Balanced(tasks, o, o)
    BY <2>2, <1>5
  <2> HIDE DEF o
  <2> QED
    BY <1>1, <1>3, <2>1, <2>2, <2>3 DEF WalkStep, Replace, o
<1>9. CASE gen_var \/ gen_assign \/ gen_cmp_right \/ gen_out \/ gen_in \/ gen_sqrt
  <2>1. PICK tasks \in Seq(P) : Replace(tasks)
    BY <1>9, ExprTasks
  <2>2. Balanced(tasks, o, o)
    BY <2>1, <1>5
  <2>3. tasks \in Seq(P \cup Moves) /\ rodata' = rodata
    BY <2>1 DEF Replace
  <2> HIDE DEF o
  <2> QED
    BY <1>1, <1>3, <2>1, <2>2, <2>3 DEF WalkStep, Replace, o
<1>10. CASE gen_num
  <2>1. /\ \E tasks \in Seq(Emits(Standing(rodata'))) : Then(tasks)
        /\ rodata' \in Seq(Constant)
        /\ UNCHANGED <<functions, instructions, labels, while_stack, status>>
        /\ \/ rodata' = rodata /\ counters' = counters
           \/ /\ Holders(Task.node.num) = {}
              /\ rodata' = Append(rodata, [label |-> <<"const", counters.const>>, value |-> Task.node.num])
              /\ counters' = [counters EXCEPT !.const = @ + 1]
    BY <1>10, NumTasks
  <2>2. PICK tasks \in Seq(Emits(Standing(rodata'))) : Then(tasks)
    BY <2>1
  <2>3. Doing("expr") /\ Task.node.num \in Int
    BY <1>10, AtNode DEF gen_num, DoingExpr
  <2>4. Balanced(tasks, o, o)
    <3> DEFINE used == Standing(rodata')
    <3>1. tasks \in Seq(Plain(N) \cup Emits(used))
      OBVIOUS
    <3> HIDE DEF used, N, o
    <3> QED
      BY <3>1, <1>5
  <2>5. tasks \in Seq(Plain(N) \cup Emits(Standing(rodata')) \cup Moves)
    OBVIOUS
  <2> HIDE DEF o
  <2> QED
    BY <1>1, <2>1, <2>2, <2>3, <2>4, <2>5 DEF WalkStep, NewConstant, o
<1>11. CASE gen_arithmetic \/ gen_call \/ CallAligned
  <2>1. PICK tasks \in Seq(P \cup Moves) : Replace(tasks) /\ Balanced(tasks, o, o)
    BY <1>2, <1>11, ArithmeticTasks, CallTasks, LibraryCallTasks
  <2> HIDE DEF o
  <2> QED
    BY <1>1, <1>3, <2>1 DEF WalkStep, Replace, o
<1> QED
  BY <1>6, <1>7, <1>8, <1>9, <1>10, <1>11

LEMMA ConstructSteps ==
  ASSUME Typed, Offsets, gen_if \/ gen_while \/ gen_cmp \/ gen_logic_or \/ gen_logic_and
  PROVE  \E kind \in Kinds : ConstructStep(kind)
<1>1. counters.stack_offset \in Nat /\ (Doing("stmt") => counters.stack_offset = 0)
  <2>1. todo # <<>>
    BY DEF gen_if, gen_while, gen_cmp, gen_logic_or, gen_logic_and, DoingStmt, DoingOp, DoingExpr, Doing
  <2> QED
    BY <2>1, OffsetNow
<1>2. {"if", "while", "cmp", "logic"} \subseteq Kinds
  BY DEF Kinds
<1>3. /\ NamesOf["if"] = IfNames /\ NamesOf["while"] = WhileNames
      /\ NamesOf["cmp"] = CmpNames /\ NamesOf["logic"] = LogicNames
  BY DEF NamesOf, Kinds
<1>4. CASE gen_if
  <2>1. Doing("stmt")
    BY <1>4 DEF gen_if, DoingStmt
  <2>2. /\ counters' = [counters EXCEPT !.if = @ + 1]
        /\ UNCHANGED <<functions, instructions, labels, rodata, while_stack, status>>
        /\ \E own \in SUBSET Own(IfNames, counters.if + 1) :
             \E tasks : /\ Then(tasks) /\ Construct(tasks, own)
                        /\ \A i \in 1 .. Len(tasks) : tasks[i].do \notin {"end_while", "exit"}
    BY <1>1, <1>4, <2>1, IfTasks
  <2>3. ConstructStep("if")
    BY <1>3, <2>1, <2>2 DEF ConstructStep
  <2> QED
    BY <1>2, <2>3
<1>5. CASE gen_while
  <2>1. Doing("stmt")
    BY <1>5 DEF gen_while, DoingStmt
  <2>2. /\ counters' = [counters EXCEPT !.while = @ + 1]
        /\ while_stack' = Append(while_stack, counters.while + 1)
        /\ Len(while_stack) < WhileCapacity
        /\ UNCHANGED <<functions, instructions, labels, rodata, status>>
        /\ \E own \in SUBSET Own(WhileNames, counters.while + 1) :
             \E tasks : /\ Then(tasks) /\ Construct(tasks, own) /\ Len(tasks) = 8
                        /\ tasks[7] = Place(<<".while_end", counters.while + 1>>) /\ tasks[8] = EndWhile
                        /\ \A i \in 1 .. 7 : tasks[i].do \notin {"end_while", "exit"}
    BY <1>1, <1>5, <2>1, WhileTasks
  <2>3. ConstructStep("while")
    BY <1>3, <2>1, <2>2 DEF ConstructStep
  <2> QED
    BY <1>2, <2>3
<1>6. CASE gen_cmp
  <2>1. Doing("cmp")
    BY <1>6 DEF gen_cmp
  <2>2. /\ counters' = [counters EXCEPT !.cmp = @ + 1]
        /\ UNCHANGED <<functions, instructions, labels, rodata, while_stack, status>>
        /\ \E own \in SUBSET Own(CmpNames, counters.cmp + 1) :
             \E tasks : /\ Then(tasks) /\ Construct(tasks, own)
                        /\ \A i \in 1 .. Len(tasks) : tasks[i].do \notin {"stmt", "end_while", "exit"}
    BY <1>1, <1>6, CmpTasks
  <2>3. ConstructStep("cmp")
    BY <1>3, <2>1, <2>2 DEF ConstructStep
  <2> QED
    BY <1>2, <2>3
<1>7. CASE gen_logic_or \/ gen_logic_and
  <2>1. Doing("expr") \/ Doing("stmt")
    BY <1>7 DEF gen_logic_or, gen_logic_and, DoingOp, DoingExpr
  <2>2. /\ counters' = [counters EXCEPT !.logic = @ + 1]
        /\ UNCHANGED <<functions, instructions, labels, rodata, while_stack, status>>
        /\ \E own \in SUBSET Own(LogicNames, counters.logic + 1) :
             \E tasks : /\ Then(tasks) /\ Construct(tasks, own)
                        /\ \A i \in 1 .. Len(tasks) : tasks[i].do \notin {"stmt", "end_while", "exit"}
    BY <1>1, <1>7, OrTasks, AndTasks
  <2>3. ConstructStep("logic")
    BY <1>3, <2>1, <2>2 DEF ConstructStep
  <2> QED
    BY <1>2, <2>3
<1> QED
  BY <1>4, <1>5, <1>6, <1>7

(* Every step is one of these. *)
LEMMA StepCases ==
  ASSUME Typed, Offsets, Next
  PROVE  \/ EmitCode \/ PlaceLabel \/ gen_rsp \/ gen_func \/ gen_exit \/ EndOfWhile \/ gen_break \/ Abort
         \/ WalkStep
         \/ \E kind \in Kinds : ConstructStep(kind)
  BY WalkSteps, ConstructSteps DEF Next, Generate, GenStmt, GenExpr, GenCall

(* The generator runs only before it has finished. *)
LEMMA GeneratesFirst == Generate => status = "generating"
  BY DEF Generate, GenStmt, GenExpr, GenCall, EmitCode, PlaceLabel, gen_rsp, gen_func, gen_exit, Abort,
         gen_block, gen_nothing, gen_if, gen_while, EndOfWhile, gen_break, gen_var_decl, gen_ret,
         gen_var, gen_num, gen_arithmetic, gen_assign, gen_cmp_right, gen_cmp, gen_logic_or, gen_logic_and,
         gen_call, gen_out, gen_in, gen_sqrt, CallAligned, DoingStmt, DoingOp, DoingCall, DoingExpr, Doing
=============================================================================
