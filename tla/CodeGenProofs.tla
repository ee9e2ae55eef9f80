---------------------------- MODULE CodeGenProofs ----------------------------
(***************************************************************************)
(* Theorems about CodeGen for every set of analysed programs and every     *)
(* capacity of while_stack: types, the stack pointer, while_stack and the  *)
(* constants.  The theorems about labels are in CodeGenLabels.             *)
(***************************************************************************)
EXTENDS CodeGenSteps

-----------------------------------------------------------------------------
(* Types and the stack pointer. *)

LEMMA SeqWider ==
  ASSUME NEW S, NEW T, S \subseteq T
  PROVE  Seq(S) \subseteq Seq(T)
  OBVIOUS

LEMMA TaskKinds ==
  ASSUME NEW nodes, NEW used \in SUBSET Names
  PROVE  /\ Plain(nodes) \subseteq Tasks(nodes) /\ Stmts(nodes) \subseteq Tasks(nodes)
         /\ Emits(used) \subseteq Tasks(nodes) /\ Places(used) \subseteq Tasks(nodes)
         /\ Moves \subseteq Tasks(nodes) /\ Closing \subseteq Tasks(nodes) /\ Funcs(nodes) \subseteq Tasks(nodes)
<1>1. Emits(used) \subseteq Emits(Names)
  BY CodeMonotone
<1>2. Places(used) \subseteq Places(Names)
  BY DEF Places
<1> QED
  BY <1>1, <1>2 DEF Tasks

(* Tasks that take nothing, from where nothing is taken. *)
LEMMA ZeroBalanced ==
  ASSUME NEW S, NEW tasks \in Seq(S), \A i \in 1 .. Len(tasks) : tasks[i].do # "rsp"
  PROVE  Balanced(tasks, 0, 0)
<1> DEFINE taken == [i \in 1 .. Len(tasks) + 1 |-> 0]
<1>1. Len(tasks) \in Nat
  OBVIOUS
<1>2. taken \in [1 .. Len(tasks) + 1 -> Nat] /\ taken[1] = 0 /\ taken[Len(tasks) + 1] = 0
  BY <1>1
<1>3. ASSUME NEW i \in 1 .. Len(tasks)
      PROVE  /\ taken[i + 1] = taken[i] + (IF tasks[i].do = "rsp" THEN tasks[i].bytes ELSE 0)
             /\ tasks[i].do \in {"stmt", "func", "exit"} => taken[i] = 0
  BY <1>1
<1> QED
  BY <1>2, <1>3 DEF Balanced

LEMMA WalkInit ==
  Init => Typed /\ Offsets
<1> SUFFICES ASSUME Init PROVE Typed /\ Offsets
  OBVIOUS
<1> DEFINE N == Nodes[functions]
           start == [i \in 1 .. Len(functions) |-> Func(functions[i])]
           exit == <<Exit>>
<1>1. functions \in Seq(FuncOf(N)) /\ functions \in Programs
  BY ProgramsAssumption DEF Init, Analysed
<1>2. start \in Seq(Tasks(N)) /\ Len(start) = Len(functions)
      /\ \A i \in 1 .. Len(functions) : start[i] = Func(functions[i])
  <2>1. \A i \in 1 .. Len(functions) : Func(functions[i]) \in Funcs(N)
    BY <1>1 DEF Func, Funcs
  <2>2. \A i \in 1 .. Len(functions) : Func(functions[i]) \in Tasks(N)
    BY <2>1, TaskKinds
  <2> QED
    BY <1>1, <2>2
<1>3. exit \in Seq(Tasks(N)) /\ Len(exit) = 1 /\ exit[1].do = "exit"
  <2>1. Exit \in Closing /\ Exit.do = "exit"
    BY DEF Exit, Closing
  <2>2. Exit \in Tasks(N)
    BY <2>1, TaskKinds
  <2> QED
    BY <2>1, <2>2
<1>4. todo = start \o exit
  BY DEF Init
<1> HIDE DEF start, exit
<1>5. /\ todo \in Seq(Tasks(N)) /\ Len(todo) = Len(start) + Len(exit)
      /\ \A i \in 1 .. Len(start) : todo[i] = start[i]
      /\ \A i \in 1 .. Len(exit) : todo[Len(start) + i] = exit[i]
  <2> DEFINE T == Tasks(N)
  <2>1. start \in Seq(T) /\ exit \in Seq(T)
    BY <1>2, <1>3
  <2> HIDE DEF T
  <2>2. /\ todo \in Seq(T) /\ Len(todo) = Len(start) + Len(exit)
        /\ \A i \in 1 .. Len(start) : todo[i] = start[i]
        /\ \A i \in 1 .. Len(exit) : todo[Len(start) + i] = exit[i]
    BY <1>4, <2>1, TwoParts
  <2> QED
    BY <2>2 DEF T
<1>6. \A i \in 1 .. Len(todo) : todo[i].do # "rsp"
  <2> SUFFICES ASSUME NEW i \in 1 .. Len(todo) PROVE todo[i].do # "rsp"
    OBVIOUS
  <2>0. Len(functions) \in Nat
    BY <1>1
  <2>1. CASE i <= Len(start)
    <3>1. i \in 1 .. Len(functions) /\ todo[i] = Func(functions[i])
      BY <2>0, <2>1, <1>2, <1>5
    <3> QED
      BY <3>1 DEF Func
  <2>2. CASE i > Len(start)
    <3>1. i = Len(start) + 1
      BY <2>0, <2>2, <1>2, <1>3, <1>5
    <3> QED
      BY <3>1, <1>3, <1>5
  <2> QED
    BY <2>0, <2>1, <2>2, <1>2
<1>7. Balanced(todo, 0, 0)
  BY <1>5, <1>6, ZeroBalanced
<1>8. rodata \in Seq(Constant)
  <2>1. ConstTrue \in Names /\ ConstFalse \in Names /\ Unit \in Int
    BY UnitAssumption DEF ConstTrue, ConstFalse, Names, LabelNames, DataNames
  <2>2. [label |-> ConstTrue, value |-> Unit] \in Constant /\ [label |-> ConstFalse, value |-> 0] \in Constant
    BY <2>1 DEF Constant
  <2>3. rodata = <<[label |-> ConstTrue, value |-> Unit], [label |-> ConstFalse, value |-> 0]>>
    BY DEF Init
  <2> QED
    BY <2>2, <2>3
<1>9. counters \in Counters /\ counters.stack_offset = 0
  BY DEF Init, Counters
<1>10. instructions \in Seq(Code(Names)) /\ labels \in Seq(Marks) /\ while_stack \in Seq(Nat)
       /\ status \in {"generating", "done", "aborted"}
  BY DEF Init
<1> QED
  BY <1>1, <1>5, <1>7, <1>8, <1>9, <1>10 DEF Typed, Offsets

(* New tasks that give back what they take leave the rest as it was. *)
LEMMA TodoKept ==
  ASSUME Typed, Offsets, todo # <<>>, Task.do # "rsp",
         NEW tasks \in Seq(Tasks(Nodes[functions])), Then(tasks),
         Balanced(tasks, counters.stack_offset, counters.stack_offset)
  PROVE  todo' \in Seq(Tasks(Nodes[functions])) /\ Balanced(todo', counters.stack_offset, 0)
<1> DEFINE T == Tasks(Nodes[functions])
           o == counters.stack_offset
           rest == Tail(todo)
<1>1. todo \in Seq(T) /\ rest \in Seq(T)
  BY DEF Typed
<1>2. Balanced(rest, o, 0)
  <2>1. LET next == o + (IF Task.do = "rsp" THEN Task.bytes ELSE 0)
        IN  next \in Nat /\ Balanced(rest, next, 0)
    BY OffsetNow
  <2>2. o \in Nat /\ o + 0 = o
    BY OffsetNow
  <2> QED
    BY <2>1, <2>2
<1>3. todo' = tasks \o rest
  BY DEF Then
<1> HIDE DEF T, o, rest
<1>4. tasks \in Seq(T) /\ Balanced(tasks, o, o)
  BY DEF T, o
<1>5. Balanced(tasks \o rest, o, 0)
  BY <1>1, <1>2, <1>4, ConcatBalanced
<1>6. tasks \o rest \in Seq(T)
  BY <1>1, <1>4
<1> QED
  BY <1>3, <1>5, <1>6, Zenon DEF T, o

(* When nothing comes in the place of the first task. *)
LEMMA TodoDropped ==
  ASSUME Typed, Offsets, todo # <<>>, Then(<<>>)
  PROVE  LET next == counters.stack_offset + (IF Task.do = "rsp" THEN Task.bytes ELSE 0)
         IN  todo' \in Seq(Tasks(Nodes[functions])) /\ next \in Nat /\ Balanced(todo', next, 0)
<1>1. todo' = Tail(todo) /\ Tail(todo) \in Seq(Tasks(Nodes[functions]))
  BY DEF Then, Typed
<1>2. LET next == counters.stack_offset + (IF Task.do = "rsp" THEN Task.bytes ELSE 0)
      IN  next \in Nat /\ Balanced(Tail(todo), next, 0)
  BY OffsetNow
<1> QED
  BY <1>1, <1>2, Zenon

LEMMA CounterTypes ==
  ASSUME counters \in Counters
  PROVE  /\ \A kind \in Kinds :
              LET next == [counters EXCEPT ![kind] = @ + 1]
              IN  /\ next \in Counters /\ counters[kind] \in Nat /\ next[kind] = counters[kind] + 1
                  /\ next.stack_offset = counters.stack_offset /\ next.func = counters.func
         /\ LET next == [counters EXCEPT !.const = @ + 1]
            IN  next \in Counters /\ next.stack_offset = counters.stack_offset
         /\ \A bytes \in Int :
              LET next == [counters EXCEPT !.stack_offset = bytes]
              IN  next \in Counters /\ next.stack_offset = bytes
         /\ \A id \in Nat :
              LET next == [counters EXCEPT !.func = id, !.stack_offset = 0]
              IN  next \in Counters /\ next.stack_offset = 0 /\ next.func = id
                  /\ \A kind \in Kinds : next[kind] = counters[kind]
<1>1. \A kind \in Kinds :
        LET next == [counters EXCEPT ![kind] = @ + 1]
        IN  /\ next \in Counters /\ counters[kind] \in Nat /\ next[kind] = counters[kind] + 1
            /\ next.stack_offset = counters.stack_offset /\ next.func = counters.func
  <2> SUFFICES ASSUME NEW kind \in {"if", "while", "cmp", "logic"}
               PROVE  LET next == [counters EXCEPT ![kind] = @ + 1]
                      IN  /\ next \in Counters /\ counters[kind] \in Nat /\ next[kind] = counters[kind] + 1
                          /\ next.stack_offset = counters.stack_offset /\ next.func = counters.func
    BY DEF Kinds
  <2>1. kind = "if" \/ kind = "while" \/ kind = "cmp" \/ kind = "logic"
    OBVIOUS
  <2> QED
    BY <2>1 DEF Counters
<1>2. LET next == [counters EXCEPT !.const = @ + 1]
      IN  next \in Counters /\ next.stack_offset = counters.stack_offset
  BY DEF Counters
<1>3. \A bytes \in Int :
        LET next == [counters EXCEPT !.stack_offset = bytes]
        IN  next \in Counters /\ next.stack_offset = bytes
  BY DEF Counters
<1>4. \A id \in Nat :
        LET next == [counters EXCEPT !.func = id, !.stack_offset = 0]
        IN  next \in Counters /\ next.stack_offset = 0 /\ next.func = id
            /\ \A kind \in Kinds : next[kind] = counters[kind]
  <2> SUFFICES ASSUME NEW id \in Nat
               PROVE  LET next == [counters EXCEPT !.func = id, !.stack_offset = 0]
                      IN  next \in Counters /\ next.stack_offset = 0 /\ next.func = id
                          /\ \A kind \in Kinds : next[kind] = counters[kind]
    OBVIOUS
  <2> DEFINE mid == [counters EXCEPT !.func = id]
             next == [mid EXCEPT !.stack_offset = 0]
  <2>1. mid \in Counters /\ mid.func = id /\ \A kind \in Kinds : mid[kind] = counters[kind]
    BY DEF Counters, Kinds
  <2>2. next = [counters EXCEPT !.func = id, !.stack_offset = 0]
    BY DEF Counters
  <2> HIDE DEF mid
  <2>3. next \in Counters /\ next.stack_offset = 0 /\ next.func = id
        /\ \A kind \in Kinds : next[kind] = mid[kind]
    BY <2>1 DEF Counters, Kinds
  <2> HIDE DEF next
  <2> QED
    BY <2>1, <2>2, <2>3
<1> QED
  BY <1>1, <1>2, <1>3, <1>4

LEMMA WalkNext ==
  Typed /\ Offsets /\ [Next]_vars => Typed' /\ Offsets'
<1> SUFFICES ASSUME Typed, Offsets, [Next]_vars PROVE Typed' /\ Offsets'
  OBVIOUS
<1> DEFINE N == Nodes[functions]
           T == Tasks(N)
           o == counters.stack_offset
<1>1. /\ functions \in Programs /\ instructions \in Seq(Code(Names)) /\ labels \in Seq(Marks)
      /\ rodata \in Seq(Constant) /\ counters \in Counters /\ while_stack \in Seq(Nat)
      /\ status \in {"generating", "done", "aborted"} /\ todo \in Seq(T)
  BY DEF Typed
<1>2. CASE EmitCode
  <2>1. Doing("emit") /\ todo # <<>> /\ Task.do = "emit"
    BY <1>2 DEF EmitCode, Doing
  <2>2. Task \in T
    BY <2>1, <1>1 DEF Task
  <2>3. Task.code \in Seq(Code(Names))
    BY <2>1, <2>2, TaskFields
  <2>4. /\ instructions' = instructions \o Task.code /\ Then(<<>>)
        /\ UNCHANGED <<functions, labels, rodata, counters, while_stack, status>>
    BY <1>2 DEF EmitCode, instruction_list_push_back
  <2>5. instructions' \in Seq(Code(Names))
    BY <1>1, <2>3, <2>4
  <2>6. todo' \in Seq(T) /\ Balanced(todo', o, 0)
    BY <2>1, <2>4, OffsetNow, TodoDropped
  <2> QED
    BY <1>1, <2>4, <2>5, <2>6 DEF Typed, Offsets
<1>3. CASE PlaceLabel
  <2>1. todo # <<>> /\ Task.do = "place"
    BY <1>3 DEF PlaceLabel, Doing
  <2>2. Task \in T
    BY <2>1, <1>1 DEF Task
  <2>3. Task.label \in Names
    BY <2>1, <2>2, TaskFields
  <2>4. /\ labels' = labels \o <<[label |-> Task.label, index |-> Len(instructions)]>> /\ Then(<<>>)
        /\ UNCHANGED <<functions, instructions, rodata, counters, while_stack, status>>
    BY <1>3 DEF PlaceLabel, label_list_push_back
  <2>5. labels' \in Seq(Marks)
    <3>1. Len(instructions) \in Nat
      BY <1>1
    <3>2. [label |-> Task.label, index |-> Len(instructions)] \in Marks
      BY <2>3, <3>1 DEF Marks
    <3> QED
      BY <1>1, <2>4, <3>2
  <2>6. todo' \in Seq(T) /\ Balanced(todo', o, 0)
    BY <2>1, <2>4, OffsetNow, TodoDropped
  <2> QED
    BY <1>1, <2>4, <2>5, <2>6 DEF Typed, Offsets
<1>4. CASE gen_rsp
  <2>1. todo # <<>> /\ Task.do = "rsp"
    BY <1>4 DEF gen_rsp, Doing
  <2>2. Task \in T
    BY <2>1, <1>1 DEF Task
  <2>3. Task.bytes \in Int
    BY <2>1, <2>2, TaskFields
  <2> DEFINE move == IF Task.bytes > 0 THEN Instr("sub", rsp, Imm(Task.bytes)) ELSE Instr("add", rsp, Imm(-Task.bytes))
  <2>4. /\ instructions' = instructions \o <<move>> /\ Then(<<>>)
        /\ counters' = [counters EXCEPT !.stack_offset = o + Task.bytes]
        /\ UNCHANGED <<functions, labels, rodata, while_stack, status>>
    BY <1>4 DEF gen_rsp, instruction_list_push_back, OffsetAfter
  <2>5. move \in Code(Names)
    <3>1. rsp \in Operands(Names) /\ Imm(Task.bytes) \in Operands(Names) /\ Imm(-Task.bytes) \in Operands(Names)
      <4>1. "rsp" \in RegisterNames
        BY DEF RegisterNames
      <4> QED
        BY <4>1, <2>3, OperandTypes DEF rsp
    <3> QED
      BY <3>1, InstructionTypes DEF Mnemonics
  <2>6. instructions' \in Seq(Code(Names))
    <3> HIDE DEF move
    <3> QED
      BY <1>1, <2>4, <2>5
  <2>7. todo' \in Seq(T) /\ Balanced(todo', o + Task.bytes, 0) /\ o + Task.bytes \in Nat
    BY <2>1, <2>4, TodoDropped
  <2>8. counters' \in Counters /\ counters'.stack_offset = o + Task.bytes
    <3>1. counters \in Counters /\ o + Task.bytes \in Int
      BY <1>1, <2>7
    <3> HIDE DEF o, T, move
    <3> QED
      BY <3>1, <2>4, CounterTypes
  <2> QED
    BY <1>1, <2>4, <2>6, <2>7, <2>8 DEF Typed, Offsets
<1>5. CASE gen_func
  <2>1. /\ Task \in Funcs(N)
        /\ counters' = [counters EXCEPT !.func = Task.func.id, !.stack_offset = 0]
        /\ UNCHANGED <<functions, instructions, labels, rodata, while_stack, status>>
        /\ \E tasks : Then(tasks) /\ FuncBody(Task.func, tasks)
    BY <1>5, FuncTasks
  <2>2. Doing("func") /\ todo # <<>> /\ Task.do # "rsp"
    BY <1>5 DEF gen_func, Doing
  <2>3. o = 0
    BY <2>2, OffsetNow
  <2>4. PICK tasks : Then(tasks) /\ FuncBody(Task.func, tasks)
    BY <2>1
  <2>5. tasks \in Seq(T) /\ Balanced(tasks, 0, 0)
    <3>1. Standing(rodata) \in SUBSET Names
      BY <1>1, StandingTypes
    <3>2. Task.func.id \in Int
      BY <2>1 DEF Funcs, FuncOf
    <3>3. OwnOf(Task.func) \in SUBSET Names
      BY <3>2 DEF OwnOf, Names, LabelNames, GlobalNames
    <3>4. Stmts(N) \cup Emits(Standing(rodata)) \cup Places(OwnOf(Task.func)) \subseteq T
      BY <3>1, <3>3, TaskKinds
    <3> QED
      BY <2>4, <3>4 DEF FuncBody
  <2>6. todo' \in Seq(T) /\ Balanced(todo', 0, 0)
    BY <2>2, <2>3, <2>4, <2>5, TodoKept
  <2>7. counters' \in Counters /\ counters'.stack_offset = 0
    <3>1. Task.func.id \in Nat
      BY <2>1 DEF Funcs, FuncOf
    <3> QED
      BY <1>1, <2>1, <3>1, CounterTypes
  <2> QED
    BY <1>1, <2>1, <2>6, <2>7 DEF Typed, Offsets
<1>6. CASE gen_exit
  <2>1. Doing("exit") /\ todo # <<>> /\ Task.do # "rsp"
    BY <1>6 DEF gen_exit, Doing
  <2>2. status' = "done" /\ Then(<<>>) /\ UNCHANGED <<functions, rodata, counters, while_stack>>
    BY <1>6 DEF gen_exit
  <2>3. /\ \E code \in Seq(Code({})) : instructions' = instructions \o code
        /\ \E new \in Seq(Marks) : labels' = labels \o new
    BY <1>6, ExitTypes
  <2>4. instructions' \in Seq(Code(Names)) /\ labels' \in Seq(Marks)
    <3>1. Code({}) \subseteq Code(Names)
      BY CodeMonotone
    <3> QED
      BY <1>1, <2>3, <3>1
  <2>5. todo' \in Seq(T) /\ Balanced(todo', o, 0)
    BY <2>1, <2>2, OffsetNow, TodoDropped
  <2> QED
    BY <1>1, <2>2, <2>4, <2>5 DEF Typed, Offsets
<1>7. CASE EndOfWhile
  <2>1. todo # <<>> /\ Task.do # "rsp"
    BY <1>7 DEF EndOfWhile, Doing
  <2>2. /\ while_stack' = SubSeq(while_stack, 1, Len(while_stack) - 1) /\ Then(<<>>)
        /\ UNCHANGED <<functions, instructions, labels, rodata, counters, status>>
    BY <1>7 DEF EndOfWhile
  <2>3. while_stack' \in Seq(Nat)
    BY <1>1, <2>2
  <2>4. todo' \in Seq(T) /\ Balanced(todo', o, 0)
    BY <2>1, <2>2, OffsetNow, TodoDropped
  <2> QED
    BY <1>1, <2>2, <2>3, <2>4 DEF Typed, Offsets
<1>8. CASE gen_break
  <2>1. todo # <<>> /\ Task.do # "rsp" /\ while_stack # <<>>
    BY <1>8 DEF gen_break, DoingStmt, Doing
  <2> DEFINE leave == Jump("jmp", <<".while_end", BreakTarget(while_stack)>>)
  <2>2. /\ instructions' = instructions \o <<leave>> /\ Then(<<>>)
        /\ UNCHANGED <<functions, labels, rodata, counters, while_stack, status>>
    BY <1>8 DEF gen_break, instruction_list_push_back
  <2>3. leave \in Code(Names)
    <3>1. BreakTarget(while_stack) \in Int
      BY <1>1, <2>1 DEF BreakTarget
    <3>2. <<".while_end", BreakTarget(while_stack)>> \in Names /\ ConstFalse \in Names
      BY <3>1 DEF Names, LabelNames, LocalNames, DataNames, ConstFalse
    <3> QED
      BY <3>2, CodeTypes DEF Mnemonics
  <2>4. instructions' \in Seq(Code(Names))
    <3> HIDE DEF leave
    <3> QED
      BY <1>1, <2>2, <2>3
  <2>5. todo' \in Seq(T) /\ Balanced(todo', o, 0)
    BY <2>1, <2>2, OffsetNow, TodoDropped
  <2> QED
    BY <1>1, <2>2, <2>4, <2>5 DEF Typed, Offsets
<1>9. CASE Abort \/ UNCHANGED vars
  BY <1>9 DEF Abort, vars, Typed, Offsets
<1>10. CASE WalkStep
  <2>1. /\ UNCHANGED <<functions, instructions, labels, while_stack, status>> /\ rodata' \in Seq(Constant)
        /\ todo # <<>> /\ Task.do # "rsp"
    BY <1>10 DEF WalkStep, Doing
  <2>2. counters' \in Counters /\ counters'.stack_offset = o
    <3>1. counters' = counters \/ counters' = [counters EXCEPT !.const = @ + 1]
      BY <1>10 DEF WalkStep, NewConstant
    <3> QED
      BY <1>1, <3>1, CounterTypes
  <2>3. PICK tasks : /\ Then(tasks) /\ Balanced(tasks, o, o)
                     /\ \/ tasks \in Seq(Stmts(N))
                        \/ tasks \in Seq(Plain(N) \cup Emits(Standing(rodata) \cup {EndLabel}))
                        \/ tasks \in Seq(Plain(N) \cup Emits(Standing(rodata')) \cup Moves)
    BY <1>10 DEF WalkStep
  <2>4. Standing(rodata) \in SUBSET Names /\ Standing(rodata') \in SUBSET Names /\ EndLabel \in Names
    BY <1>1, <2>1, StandingTypes
  <2>5. /\ Stmts(N) \subseteq T /\ Plain(N) \cup Emits(Standing(rodata) \cup {EndLabel}) \subseteq T
        /\ Plain(N) \cup Emits(Standing(rodata')) \cup Moves \subseteq T
    <3>1. Standing(rodata) \cup {EndLabel} \in SUBSET Names
      BY <2>4
    <3> QED
      BY <2>4, <3>1, TaskKinds
  <2>6. tasks \in Seq(T)
    <3> HIDE DEF T
    <3> QED
      BY <2>3, <2>5, SeqWider
  <2>7. todo' \in Seq(T) /\ Balanced(todo', o, 0)
    BY <2>1, <2>3, <2>6, TodoKept
  <2> QED
    BY <1>1, <2>1, <2>2, <2>7 DEF Typed, Offsets
<1>11. ASSUME NEW kind \in Kinds, ConstructStep(kind)
       PROVE  Typed' /\ Offsets'
  <2>1. /\ UNCHANGED <<functions, instructions, labels, rodata, status>>
        /\ todo # <<>> /\ Task.do # "rsp" /\ counters' = [counters EXCEPT ![kind] = @ + 1]
    BY <1>11 DEF ConstructStep, Doing
  <2>2. counters' \in Counters /\ counters'.stack_offset = o
    BY <1>1, <2>1, CounterTypes
  <2>3. counters[kind] + 1 \in Int
    BY <1>1 DEF Counters, Kinds
  <2>9. PICK own \in SUBSET Own(NamesOf[kind], counters[kind] + 1) :
          \E tasks : Then(tasks) /\ Construct(tasks, own)
    BY <1>11 DEF ConstructStep
  <2>4. PICK tasks : Then(tasks) /\ Construct(tasks, own)
    BY <2>9
  <2>5. own \in SUBSET Names
    <3>1. Own(NamesOf[kind], counters[kind] + 1) \subseteq Names
      BY <2>3, OwnTypes DEF NamesOf, Kinds
    <3> QED
      BY <3>1
  <2>6. tasks \in Seq(T) /\ Balanced(tasks, o, o)
    <3>1. Standing(rodata) \cup own \in SUBSET Names
      BY <1>1, <2>5, StandingTypes
    <3>2. Plain(N) \cup Stmts(N) \cup Moves \cup Closing \cup Emits(Standing(rodata) \cup own) \cup Places(own) \subseteq T
      BY <2>5, <3>1, TaskKinds
    <3>3. /\ tasks \in Seq(Plain(N) \cup Stmts(N) \cup Moves \cup Closing \cup Emits(Standing(rodata) \cup own) \cup Places(own))
          /\ Balanced(tasks, o, o)
      BY <2>4 DEF Construct
    <3> HIDE DEF T, o
    <3> QED
      BY <3>2, <3>3, SeqWider
  <2>7. todo' \in Seq(T) /\ Balanced(todo', o, 0)
    BY <2>1, <2>4, <2>6, TodoKept
  <2>8. while_stack' \in Seq(Nat)
    <3>1. counters.while + 1 \in Nat
      BY <1>1 DEF Counters
    <3>2. while_stack' = while_stack \/ while_stack' = Append(while_stack, counters.while + 1)
      BY <1>11 DEF ConstructStep
    <3>3. while_stack \in Seq(Nat)
      BY <1>1
    <3> QED
      BY <3>1, <3>2, <3>3
  <2> QED
    BY <1>1, <2>1, <2>2, <2>7, <2>8 DEF Typed, Offsets
<1> QED
  BY <1>2, <1>3, <1>4, <1>5, <1>6, <1>7, <1>8, <1>9, <1>10, <1>11, StepCases

LEMMA WalkInvariant ==
  Spec => [](Typed /\ Offsets)
<1>1. Init => Typed /\ Offsets
  BY WalkInit
<1>2. Typed /\ Offsets /\ [Next]_vars => (Typed /\ Offsets)'
  BY WalkNext
<1> QED
  BY <1>1, <1>2, PTL DEF Spec

(* Whenever a statement or a function is begun, everything that was taken    *)
(* from the stack has been given back.                                       *)
THEOREM NothingLeftOnStack == Spec => []TemporariesReturned
<1>1. Typed /\ Offsets => TemporariesReturned
  <2> SUFFICES ASSUME Typed, Offsets, Doing("stmt") \/ Doing("func") \/ Doing("exit")
               PROVE  counters.stack_offset = 0
    BY DEF TemporariesReturned
  <2>1. todo # <<>>
    BY DEF Doing
  <2> QED
    BY <2>1, OffsetNow
<1> QED
  BY <1>1, WalkInvariant, PTL

(* What has been generated is only added to. *)
LEMMA Growth ==
  ASSUME Typed, Offsets, [Next]_vars
  PROVE  /\ Len(instructions') \in Nat /\ Len(instructions') >= Len(instructions)
         /\ \A i \in 1 .. Len(instructions) : instructions'[i] = instructions[i]
         /\ \/ labels' = labels
            \/ PlaceLabel
            \/ gen_exit
         /\ \/ while_stack' = while_stack
            \/ while_stack' = SubSeq(while_stack, 1, Len(while_stack) - 1)
            \/ /\ while_stack' = Append(while_stack, counters.while + 1) /\ Len(while_stack) < WhileCapacity
               /\ counters'.while = counters.while + 1
         /\ counters'.while \in Nat /\ counters'.while >= counters.while
<1>1. counters \in Counters /\ counters.while \in Nat
  BY DEF Typed, Counters
<1>2. Typed' /\ Offsets'
  BY WalkNext
<1>3. instructions \in Seq(Code(Names)) /\ instructions' \in Seq(Code(Names))
  BY <1>2 DEF Typed
<1> DEFINE Longer == /\ Len(instructions') \in Nat /\ Len(instructions') >= Len(instructions)
                     /\ \A i \in 1 .. Len(instructions) : instructions'[i] = instructions[i]
<1>13. ASSUME NEW code \in Seq(Code(Names)), instructions' = instructions \o code
       PROVE  Longer
  <2>1. /\ Len(instructions') = Len(instructions) + Len(code)
        /\ \A i \in 1 .. Len(instructions) : instructions'[i] = instructions[i]
    BY <1>3, <1>13, TwoParts
  <2>2. Len(instructions) \in Nat /\ Len(code) \in Nat
    BY <1>3
  <2> QED
    BY <2>1, <2>2
<1>14. ASSUME instructions' = instructions
       PROVE  Longer
  BY <1>3, <1>14
<1> HIDE DEF Longer
<1>4. CASE EmitCode
  <2>1. Task \in Tasks(Nodes[functions]) /\ Task.do = "emit"
    BY <1>4 DEF EmitCode, Doing, Typed, Task
  <2>2. Task.code \in Seq(Code(Names))
    BY <2>1, TaskFields
  <2>3. instructions' = instructions \o Task.code /\ UNCHANGED <<labels, counters, while_stack>>
    BY <1>4 DEF EmitCode, instruction_list_push_back
  <2>4. Longer
    BY <2>2, <2>3, <1>13
  <2> QED
    BY <1>1, <2>3, <2>4 DEF Longer
<1>5. CASE PlaceLabel
  BY <1>1, <1>5, <1>14 DEF PlaceLabel, Longer
<1>6. CASE gen_rsp \/ gen_break
  <2>1. PICK i : instructions' = instructions \o <<i>>
    BY <1>6 DEF gen_rsp, gen_break, instruction_list_push_back
  <2>2. i \in Code(Names)
    <3>1. Len(instructions') = Len(instructions) + 1 /\ instructions'[Len(instructions) + 1] = i
      BY <1>3, <2>1
    <3> QED
      BY <1>3, <3>1
  <2>3. <<i>> \in Seq(Code(Names))
    BY <2>2
  <2>4. counters'.while = counters.while
    <3>1. counters' = counters \/ counters' = [counters EXCEPT !.stack_offset = OffsetAfter(Task.bytes)]
      BY <1>6 DEF gen_rsp, gen_break
    <3> QED
      BY <1>1, <3>1 DEF Counters
  <2>5. Longer
    BY <2>1, <2>3, <1>13
  <2>6. UNCHANGED <<labels, while_stack>>
    BY <1>6 DEF gen_rsp, gen_break
  <2> QED
    BY <1>1, <2>4, <2>5, <2>6 DEF Longer
<1>7. CASE gen_func
  <2>1. counters' = [counters EXCEPT !.func = Task.func.id, !.stack_offset = 0]
        /\ UNCHANGED <<functions, instructions, labels, rodata, while_stack, status>>
    BY <1>7, FuncTasks
  <2>2. counters'.while = counters.while
    BY <1>1, <2>1 DEF Counters
  <2> QED
    BY <1>1, <1>14, <2>1, <2>2 DEF Longer
<1>8. CASE gen_exit
  <2>1. PICK code \in Seq(Code({})) : instructions' = instructions \o code
    BY <1>8, ExitTypes
  <2>2. Seq(Code({})) \subseteq Seq(Code(Names))
    BY CodeMonotone, SeqWider
  <2>3. Longer
    BY <2>1, <2>2, <1>13
  <2>4. UNCHANGED <<counters, while_stack>>
    BY <1>8 DEF gen_exit
  <2> QED
    BY <1>1, <1>8, <2>3, <2>4 DEF Longer
<1>9. CASE EndOfWhile
  BY <1>1, <1>9, <1>14 DEF EndOfWhile, Longer
<1>10. CASE Abort \/ UNCHANGED vars
  BY <1>1, <1>10, <1>14 DEF Abort, vars, Longer
<1>11. CASE WalkStep
  <2>1. counters'.while = counters.while
    <3>1. counters' = counters \/ counters' = [counters EXCEPT !.const = @ + 1]
      BY <1>11 DEF WalkStep, NewConstant
    <3> QED
      BY <1>1, <3>1 DEF Counters
  <2> QED
    BY <1>1, <1>11, <1>14, <2>1 DEF WalkStep, Longer
<1>12. ASSUME NEW kind \in Kinds, ConstructStep(kind)
       PROVE  /\ instructions' = instructions /\ labels' = labels
              /\ \/ while_stack' = while_stack
                 \/ /\ while_stack' = Append(while_stack, counters.while + 1) /\ Len(while_stack) < WhileCapacity
                    /\ counters'.while = counters.while + 1
              /\ counters'.while \in Nat /\ counters'.while >= counters.while
  <2>1. counters' = [counters EXCEPT ![kind] = @ + 1]
    BY <1>12 DEF ConstructStep
  <2>2. /\ kind = "while" => counters'.while = counters.while + 1
        /\ kind # "while" => counters'.while = counters.while
    BY <1>1, <2>1 DEF Counters, Kinds
  <2> QED
    BY <1>1, <1>12, <2>2 DEF ConstructStep
<1> QED
  BY <1>4, <1>5, <1>6, <1>7, <1>8, <1>9, <1>10, <1>11, <1>12, <1>14, StepCases DEF Longer

(* The open loops have been numbered and fit, and a label stands in the code *)
(* that there is.                                                            *)
Bounds ==
  /\ while_stack \in Seq(1 .. counters.while) /\ Len(while_stack) <= WhileCapacity
  /\ \A i \in 1 .. Len(labels) : labels[i].index \in 0 .. Len(instructions)

LEMMA BoundsNext ==
  ASSUME Typed, Offsets, Bounds, [Next]_vars
  PROVE  Bounds'
<1>1. /\ counters.while \in Nat /\ instructions \in Seq(Code(Names)) /\ labels \in Seq(Marks)
      /\ Len(instructions) \in Nat /\ Len(labels) \in Nat
  BY DEF Typed, Counters
<1>2. /\ while_stack \in Seq(1 .. counters.while) /\ Len(while_stack) <= WhileCapacity
      /\ \A i \in 1 .. Len(labels) : labels[i].index \in 0 .. Len(instructions)
  BY DEF Bounds
<1>3. counters'.while \in Nat /\ counters'.while >= counters.while
  BY Growth
<1>4. while_stack' \in Seq(1 .. counters'.while) /\ Len(while_stack') <= WhileCapacity
  <2> DEFINE S == 1 .. counters.while
             T == 1 .. counters'.while
  <2>1. S \subseteq T
    BY <1>1, <1>3
  <2>2. while_stack \in Seq(T)
    BY <1>2, <2>1, SeqWider
  <2>3. CASE while_stack' = while_stack
    BY <1>2, <2>2, <2>3
  <2>4. CASE while_stack' = SubSeq(while_stack, 1, Len(while_stack) - 1)
    <3> HIDE DEF T
    <3>1. while_stack' \in Seq(T) /\ Len(while_stack') <= Len(while_stack)
      BY <2>2, <2>4
    <3>2. Len(while_stack) \in Nat /\ Len(while_stack') \in Nat
      BY <2>2, <3>1
    <3> QED
      BY <1>2, <3>1, <3>2, CapacityAssumption DEF T
  <2>5. CASE /\ while_stack' = Append(while_stack, counters.while + 1) /\ Len(while_stack) < WhileCapacity
             /\ counters'.while = counters.while + 1
    <3>1. counters.while + 1 \in T
      BY <1>1, <2>5
    <3> HIDE DEF T
    <3>2. while_stack' \in Seq(T) /\ Len(while_stack') = Len(while_stack) + 1 /\ Len(while_stack) \in Nat
      BY <2>2, <2>5, <3>1
    <3> QED
      BY <2>5, <3>2, CapacityAssumption DEF T
  <2> QED
    BY <2>3, <2>4, <2>5, Growth
<1>5. Len(instructions') \in Nat /\ Len(instructions') >= Len(instructions)
  BY Growth
<1>6. \A i \in 1 .. Len(labels) : labels[i].index \in 0 .. Len(instructions')
  BY <1>1, <1>2, <1>5
<1>7. \A i \in 1 .. Len(labels') : labels'[i].index \in 0 .. Len(instructions')
  <2>1. CASE labels' = labels
    BY <1>6, <2>1
  <2>2. CASE PlaceLabel
    <3> DEFINE new == [label |-> Task.label, index |-> Len(instructions)]
    <3>1. labels' = labels \o <<new>> /\ instructions' = instructions
      BY <2>2 DEF PlaceLabel, label_list_push_back
    <3>2. labels' = Append(labels, new) /\ new.index = Len(instructions)
      BY <1>1, <3>1
    <3> HIDE DEF new
    <3>3. /\ Len(labels') = Len(labels) + 1 /\ labels'[Len(labels) + 1] = new
          /\ \A i \in 1 .. Len(labels) : labels'[i] = labels[i]
      BY <1>1, <3>2
    <3>4. new.index \in 0 .. Len(instructions')
      BY <1>1, <3>1, <3>2
    <3> SUFFICES ASSUME NEW i \in 1 .. Len(labels') PROVE labels'[i].index \in 0 .. Len(instructions')
      OBVIOUS
    <3>5. i \in 1 .. Len(labels) \/ i = Len(labels) + 1
      BY <1>1, <3>3
    <3> QED
      BY <1>6, <3>3, <3>4, <3>5
  <2>3. CASE gen_exit
    <3>1. PICK code \in Seq(Code({})), new \in Seq(Marks) :
            /\ instructions' = instructions \o code /\ Len(code) = Len(rodata) + 3
            /\ labels' = labels \o new /\ Len(new) = Len(rodata) + 1 /\ new[1].index = Len(instructions)
            /\ \A i \in 1 .. Len(rodata) : new[i + 1].index = Len(instructions) + i + 2
      BY <2>3, ExitTypes
    <3>2. /\ Len(labels') = Len(labels) + Len(new)
          /\ \A i \in 1 .. Len(labels) : labels'[i] = labels[i]
          /\ \A i \in 1 .. Len(new) : labels'[Len(labels) + i] = new[i]
      <4>1. labels \in Seq(Marks) /\ new \in Seq(Marks) /\ labels' = labels \o new
        BY <1>1, <3>1
      <4> QED
        BY <4>1, TwoParts
    <3>3. Len(instructions') = Len(instructions) + Len(rodata) + 3
      <4>1. code \in Seq(Code(Names))
        BY CodeMonotone, SeqWider
      <4>2. instructions \in Seq(Code(Names)) /\ instructions' = instructions \o code
        BY <1>1, <3>1
      <4>3. Len(instructions') = Len(instructions) + Len(code)
        BY <4>1, <4>2, TwoParts
      <4> QED
        BY <1>1, <3>1, <4>3 DEF Typed
    <3>4. Len(rodata) \in Nat
      BY DEF Typed
    <3>5. ASSUME NEW i \in 1 .. Len(new)
          PROVE  new[i].index \in 0 .. Len(instructions')
      <4>1. CASE i = 1
        BY <1>1, <3>1, <3>3, <3>4, <4>1
      <4>2. CASE i > 1
        <5>1. i - 1 \in 1 .. Len(rodata) /\ i = (i - 1) + 1
          BY <3>1, <3>4, <4>2
        <5>2. new[i].index = Len(instructions) + (i - 1) + 2
          BY <3>1, <5>1
        <5> QED
          BY <1>1, <3>3, <3>4, <5>1, <5>2
      <4> QED
        BY <4>1, <4>2
    <3> SUFFICES ASSUME NEW i \in 1 .. Len(labels') PROVE labels'[i].index \in 0 .. Len(instructions')
      OBVIOUS
    <3>6. i \in 1 .. Len(labels) \/ (i - Len(labels) \in 1 .. Len(new) /\ i = Len(labels) + (i - Len(labels)))
      BY <1>1, <3>1, <3>2, <3>4
    <3> QED
      BY <1>6, <3>2, <3>5, <3>6
  <2> QED
    BY <2>1, <2>2, <2>3, Growth
<1> QED
  BY <1>4, <1>7 DEF Bounds

LEMMA BoundsInit == Init => Bounds
<1> SUFFICES ASSUME Init PROVE Bounds
  OBVIOUS
<1> QED
  BY CapacityAssumption DEF Init, Bounds

(* The counters count, the open loops fit in while_stack and have been       *)
(* numbered, a label stands in the code that there is.                       *)
THEOREM TypesKept == Spec => []TypeOK
<1>1. Init => Bounds
  BY BoundsInit
<1>2. Typed /\ Offsets /\ Bounds /\ [Next]_vars => Bounds'
  BY BoundsNext
<1>3. Typed /\ Offsets /\ Bounds => TypeOK
  <2> SUFFICES ASSUME Typed, Offsets, Bounds PROVE TypeOK
    OBVIOUS
  <2>1. \A i \in 1 .. Len(todo) : todo[i].do \in Things
    <3>1. \A i \in 1 .. Len(todo) : todo[i] \in Tasks(Nodes[functions])
      BY DEF Typed
    <3> QED
      BY <3>1, TaskFields
  <2>2. \A kind \in DOMAIN counters : counters[kind] \in Nat
    <3>1. counters.stack_offset \in Nat
      BY DEF Offsets, Balanced
    <3> QED
      BY <3>1 DEF Typed, Counters
  <2> QED
    BY <2>1, <2>2 DEF TypeOK, Typed, Bounds
<1> QED
  BY <1>1, <1>2, <1>3, WalkInvariant, PTL DEF Spec

-----------------------------------------------------------------------------
(* The constants of .rodata. *)

(* They are numbered in the order in which they were met, after the two that *)
(* every program has.                                                        *)
DataInOrder ==
  /\ Len(rodata) = counters.const + 2
  /\ rodata[1] = [label |-> ConstTrue, value |-> Unit] /\ rodata[2] = [label |-> ConstFalse, value |-> 0]
  /\ \A i \in 3 .. Len(rodata) : rodata[i].label = <<"const", i - 3>>

LEMMA DataSteps ==
  ASSUME Typed, Offsets, [Next]_vars
  PROVE  (rodata' = rodata /\ counters'.const = counters.const) \/ NewConstant
<1>1. counters \in Counters
  BY DEF Typed
<1>2. CASE EmitCode \/ PlaceLabel \/ gen_exit \/ EndOfWhile \/ gen_break \/ Abort \/ UNCHANGED vars
  BY <1>2 DEF EmitCode, PlaceLabel, gen_exit, EndOfWhile, gen_break, Abort, vars
<1>3. CASE gen_rsp
  BY <1>1, <1>3 DEF gen_rsp, Counters
<1>4. CASE gen_func
  <2>1. counters' = [counters EXCEPT !.func = Task.func.id, !.stack_offset = 0] /\ rodata' = rodata
    BY <1>4, FuncTasks
  <2> QED
    BY <1>1, <2>1 DEF Counters
<1>5. CASE WalkStep
  BY <1>5 DEF WalkStep
<1>6. ASSUME NEW kind \in Kinds, ConstructStep(kind)
      PROVE  rodata' = rodata /\ counters'.const = counters.const
  <2>1. rodata' = rodata /\ counters' = [counters EXCEPT ![kind] = @ + 1] /\ kind # "const"
    BY <1>6 DEF ConstructStep, Kinds
  <2> QED
    BY <1>1, <2>1 DEF Counters
<1> QED
  BY <1>2, <1>3, <1>4, <1>5, <1>6, StepCases

LEMMA DataNext ==
  ASSUME Typed, Offsets, DataInOrder, ConstantsDistinct, [Next]_vars
  PROVE  DataInOrder' /\ ConstantsDistinct'
<1>1. /\ counters.const \in Nat /\ rodata \in Seq(Constant) /\ Len(rodata) \in Nat /\ Len(rodata) = counters.const + 2
      /\ rodata[1] = [label |-> ConstTrue, value |-> Unit] /\ rodata[2] = [label |-> ConstFalse, value |-> 0]
      /\ \A i \in 3 .. Len(rodata) : rodata[i].label = <<"const", i - 3>>
      /\ \A i, j \in 1 .. Len(rodata) : rodata[i].value = rodata[j].value => i = j
  <2>1. counters.const \in Nat /\ rodata \in Seq(Constant)
    BY DEF Typed, Counters
  <2>2. Len(rodata) \in Nat
    BY <2>1
  <2>3. /\ Len(rodata) = counters.const + 2
        /\ rodata[1] = [label |-> ConstTrue, value |-> Unit] /\ rodata[2] = [label |-> ConstFalse, value |-> 0]
        /\ \A i \in 3 .. Len(rodata) : rodata[i].label = <<"const", i - 3>>
    BY DEF DataInOrder
  <2>4. \A i, j \in 1 .. Len(rodata) : rodata[i].value = rodata[j].value => i = j
    BY DEF ConstantsDistinct
  <2> QED
    BY <2>1, <2>2, <2>3, <2>4
<1>2. CASE rodata' = rodata /\ counters'.const = counters.const
  BY <1>2 DEF DataInOrder, ConstantsDistinct
<1>3. CASE NewConstant
  <2> DEFINE new == [label |-> <<"const", counters.const>>, value |-> Task.node.num]
             n == Len(rodata)
  <2>1. /\ rodata' = Append(rodata, new) /\ counters' = [counters EXCEPT !.const = @ + 1]
        /\ \A i \in 1 .. n : rodata[i].value # new.value
    BY <1>3 DEF NewConstant, Holders
  <2>2. counters'.const = counters.const + 1
    BY <2>1 DEF Typed, Counters
  <2>3. new.label = <<"const", counters.const>>
    OBVIOUS
  <2> HIDE DEF new
  <2>4. /\ Len(rodata') = n + 1 /\ rodata'[n + 1] = new
        /\ \A i \in 1 .. n : rodata'[i] = rodata[i]
    BY <1>1, <2>1
  <2> HIDE DEF n
  <2>5. n \in Nat /\ n = counters.const + 2 /\ n = Len(rodata) /\ 1 \in 1 .. n /\ 2 \in 1 .. n
    BY <1>1 DEF n
  <2>6. DataInOrder'
    <3>1. Len(rodata') = counters'.const + 2
      BY <1>1, <2>2, <2>4, <2>5
    <3>2. rodata'[1] = rodata[1] /\ rodata'[2] = rodata[2]
      BY <2>4, <2>5
    <3>3. ASSUME NEW i \in 3 .. n + 1
          PROVE  rodata'[i].label = <<"const", i - 3>>
      <4>1. CASE i <= n
        <5>1. i \in 1 .. n /\ i \in 3 .. Len(rodata)
          BY <2>5, <4>1
        <5> QED
          BY <1>1, <2>4, <5>1
      <4>2. CASE i = n + 1
        <5>1. i - 3 = counters.const
          BY <1>1, <2>5, <4>2
        <5> QED
          BY <2>3, <2>4, <4>2, <5>1
      <4> QED
        BY <2>5, <4>1, <4>2
    <3> QED
      BY <1>1, <2>4, <3>1, <3>2, <3>3 DEF DataInOrder
  <2>7. ConstantsDistinct'
    <3> SUFFICES ASSUME NEW i \in 1 .. n + 1, NEW j \in 1 .. n + 1, rodata'[i].value = rodata'[j].value
                 PROVE  i = j
      BY <2>4 DEF ConstantsDistinct
    <3>1. (i \in 1 .. n \/ i = n + 1) /\ (j \in 1 .. n \/ j = n + 1)
      BY <2>5
    <3>2. \A k \in 1 .. n : rodata'[k].value = rodata[k].value /\ rodata[k].value # new.value
      BY <2>1, <2>4 DEF n
    <3>3. \A k, l \in 1 .. n : rodata[k].value = rodata[l].value => k = l
      BY <1>1 DEF n
    <3> QED
      BY <2>4, <3>1, <3>2, <3>3
  <2> QED
    BY <2>6, <2>7
<1> QED
  BY <1>2, <1>3, DataSteps

LEMMA DataInit == Init => DataInOrder /\ ConstantsDistinct
<1> SUFFICES ASSUME Init PROVE DataInOrder /\ ConstantsDistinct
  OBVIOUS
<1>1. /\ Len(rodata) = 2 /\ counters.const = 0
      /\ rodata[1] = [label |-> ConstTrue, value |-> Unit] /\ rodata[2] = [label |-> ConstFalse, value |-> 0]
  BY DEF Init
<1>2. DataInOrder
  BY <1>1 DEF DataInOrder
<1>3. rodata[1].value # rodata[2].value
  BY <1>1, UnitAssumption
<1>4. ConstantsDistinct
  BY <1>1, <1>3 DEF ConstantsDistinct
<1> QED
  BY <1>2, <1>4

LEMMA DataInvariant ==
  Spec => [](DataInOrder /\ ConstantsDistinct)
<1>1. Init => DataInOrder /\ ConstantsDistinct
  BY DataInit
<1>2. Typed /\ Offsets /\ DataInOrder /\ ConstantsDistinct /\ [Next]_vars => (DataInOrder /\ ConstantsDistinct)'
  BY DataNext
<1> QED
  BY <1>1, <1>2, WalkInvariant, PTL DEF Spec

(* README 399: .rodata holds no constant twice.                              *)
THEOREM ConstantsShared == Spec => []ConstantsDistinct
<1> QED
  BY DataInvariant, PTL

-----------------------------------------------------------------------------
(* The loops that are open. *)

(* The loops of while_stack, innermost last, and the ends still to come: the *)
(* kth loop is closed at one of them, before those of the loops around it,   *)
(* and right after its end has been placed.                                  *)
ClosedAt(at) ==
  /\ \A k \in 1 .. Len(while_stack) : at[k] \in Ends
  /\ \A k, l \in 1 .. Len(while_stack) : k < l => at[l] < at[k]
  /\ \A i \in Ends : \E k \in 1 .. Len(while_stack) : at[k] = i
  /\ \A k \in 1 .. Len(while_stack) :
       at[k] > 1 => todo[at[k] - 1] = Place(<<".while_end", while_stack[k]>>)
Loops == \E at \in [1 .. Len(while_stack) -> Nat] : ClosedAt(at)

(* What comes in the place of a task moves the ends of the loops along. *)
LEMMA EndsMoved ==
  ASSUME NEW T, todo \in Seq(T), todo # <<>>, Task.do # "end_while",
         NEW tasks \in Seq(T), Then(tasks), \A i \in 1 .. Len(tasks) : tasks[i].do # "end_while"
  PROVE  /\ \A i \in Ends : i >= 2 /\ i + Len(tasks) - 1 \in Ends'
         /\ \A i \in Ends' : i - Len(tasks) + 1 \in Ends
<1> DEFINE n == Len(tasks)
<1>1. /\ Len(todo') = n + Len(todo) - 1
      /\ \A i \in 2 .. Len(todo) : todo'[i + n - 1] = todo[i]
      /\ \A i \in 1 .. Len(todo') :
           \/ i <= n /\ todo'[i] = tasks[i]
           \/ i > n /\ i - n + 1 \in 2 .. Len(todo) /\ todo'[i] = todo[i - n + 1]
  BY Splice
<1>2. n \in Nat /\ Len(todo) \in Nat
  OBVIOUS
<1>3. todo[1].do # "end_while"
  BY DEF Task
<1> HIDE DEF n
<1>4. ASSUME NEW i \in Ends
      PROVE  i >= 2 /\ i + n - 1 \in Ends'
  <2>1. i \in 1 .. Len(todo) /\ todo[i].do = "end_while"
    BY DEF Ends
  <2>2. i \in 2 .. Len(todo)
    BY <1>2, <1>3, <2>1
  <2>3. i + n - 1 \in 1 .. Len(todo') /\ todo'[i + n - 1].do = "end_while"
    BY <1>1, <1>2, <2>1, <2>2
  <2> QED
    BY <2>2, <2>3 DEF Ends
<1>5. ASSUME NEW i \in Ends'
      PROVE  i - n + 1 \in Ends
  <2>1. i \in 1 .. Len(todo') /\ todo'[i].do = "end_while"
    BY DEF Ends
  <2>2. i > n /\ i - n + 1 \in 2 .. Len(todo) /\ todo'[i] = todo[i - n + 1]
    <3>1. i <= n => i \in 1 .. Len(tasks)
      BY <1>2, <2>1 DEF n
    <3>2. ~(i <= n /\ todo'[i] = tasks[i])
      BY <2>1, <3>1
    <3> QED
      BY <1>1, <2>1, <3>2
  <2>3. i - n + 1 \in 1 .. Len(todo)
    BY <1>2, <2>2
  <2> QED
    BY <2>1, <2>2, <2>3 DEF Ends
<1> QED
  BY <1>4, <1>5 DEF n

(* A step that opens and closes no loop. *)
LEMMA LoopsMoved ==
  ASSUME NEW T, todo \in Seq(T), todo # <<>>, Task.do # "end_while", while_stack \in Seq(Nat),
         NEW tasks \in Seq(T), Then(tasks), \A i \in 1 .. Len(tasks) : tasks[i].do # "end_while",
         Task.do = "place" => tasks = <<>>,
         Loops, while_stack' = while_stack
  PROVE  Loops'
<1> DEFINE n == Len(tasks)
           m == Len(while_stack)
<1>1. /\ \A i \in Ends : i >= 2 /\ i + n - 1 \in Ends'
      /\ \A i \in Ends' : i - n + 1 \in Ends
  BY EndsMoved
<1>2. /\ \A i \in 2 .. Len(todo) : todo'[i + n - 1] = todo[i]
  BY Splice
<1>3. n \in Nat /\ m \in Nat /\ Len(todo) \in Nat
  OBVIOUS
<1>4. Task.do = "place" => n = 0
  OBVIOUS
<1>5. PICK at \in [1 .. m -> Nat] : ClosedAt(at)
  BY DEF Loops
<1>6. \A i \in Ends : i \in Int /\ i <= Len(todo)
  BY DEF Ends
<1>7. /\ \A k \in 1 .. m : at[k] \in Ends
      /\ \A k, l \in 1 .. m : k < l => at[l] < at[k]
      /\ \A i \in Ends : \E k \in 1 .. m : at[k] = i
      /\ \A k \in 1 .. m : at[k] > 1 => todo[at[k] - 1] = Place(<<".while_end", while_stack[k]>>)
  BY <1>5 DEF ClosedAt
<1> HIDE DEF n, m
<1>8. \A k \in 1 .. m : at[k] \in Nat /\ at[k] >= 2 /\ at[k] <= Len(todo)
  BY <1>1, <1>5, <1>6, <1>7
<1>9. PICK moved \in [1 .. m -> Nat] : \A k \in 1 .. m : moved[k] = at[k] + n - 1
  <2> DEFINE shifted == [k \in 1 .. m |-> at[k] + n - 1]
  <2>1. shifted \in [1 .. m -> Nat] /\ \A k \in 1 .. m : shifted[k] = at[k] + n - 1
    BY <1>3, <1>8
  <2> HIDE DEF shifted
  <2> QED
    BY <2>1
<1>10. \A k \in 1 .. m : moved[k] \in Ends'
  BY <1>1, <1>7, <1>8, <1>9
<1>11. \A k, l \in 1 .. m : k < l => moved[l] < moved[k]
  BY <1>3, <1>7, <1>8, <1>9
<1>12. ASSUME NEW i \in Ends'
       PROVE  \E k \in 1 .. m : moved[k] = i
  <2>1. i - n + 1 \in Ends /\ i \in Int
    BY <1>1 DEF Ends
  <2>2. PICK k \in 1 .. m : at[k] = i - n + 1
    BY <1>7, <2>1
  <2>3. moved[k] = at[k] + n - 1
    BY <1>9
  <2>4. moved[k] = i
    BY <1>3, <2>1, <2>2, <2>3
  <2> QED
    BY <2>4
<1>13. ASSUME NEW k \in 1 .. m, moved[k] > 1
       PROVE  todo'[moved[k] - 1] = Place(<<".while_end", while_stack[k]>>)
  <2>1. todo[at[k] - 1] = Place(<<".while_end", while_stack[k]>>)
    BY <1>7, <1>8
  <2>2. at[k] - 1 >= 2
    <3> SUFFICES ASSUME at[k] = 2 PROVE FALSE
      BY <1>8
    <3>1. todo[1] = Place(<<".while_end", while_stack[k]>>)
      BY <2>1
    <3>2. Task.do = "place"
      BY <3>1, PlaceFields DEF Task
    <3> QED
      BY <1>4, <1>8, <1>9, <1>13, <3>2
  <2>3. at[k] - 1 \in 2 .. Len(todo) /\ moved[k] - 1 = (at[k] - 1) + n - 1
    <3>1. at[k] \in Int /\ moved[k] \in Int /\ at[k] <= Len(todo) /\ moved[k] = at[k] + n - 1
      BY <1>3, <1>8, <1>9
    <3>2. \A a, b \in Int : a - 1 >= 2 /\ a <= Len(todo) /\ b = a + n - 1
                            => a - 1 \in 2 .. Len(todo) /\ b - 1 = (a - 1) + n - 1
      BY <1>3
    <3> QED
      BY <2>2, <3>1, <3>2, Zenon
  <2>4. todo'[moved[k] - 1] = todo[at[k] - 1]
    BY <1>2, <2>3
  <2> QED
    BY <2>1, <2>4
<1>14. Len(while_stack') = m /\ while_stack' = while_stack
  BY DEF m
<1>15. ClosedAt(moved)'
  BY <1>10, <1>11, <1>12, <1>13, <1>14 DEF ClosedAt
<1> QED
  BY <1>14, <1>15 DEF Loops

(* A loop that is entered is the innermost. *)
LEMMA LoopOpened ==
  ASSUME NEW T, todo \in Seq(T), todo # <<>>, Task.do \notin {"end_while", "place"}, while_stack \in Seq(Nat),
         NEW tasks \in Seq(T), Then(tasks), Len(tasks) = 8, NEW id,
         \A i \in 1 .. 7 : tasks[i].do # "end_while",
         tasks[7] = Place(<<".while_end", id>>), tasks[8] = EndWhile,
         Loops, while_stack' = Append(while_stack, id)
  PROVE  Loops'
<1> DEFINE m == Len(while_stack)
<1>1. /\ Len(todo') = Len(todo) + 7
      /\ \A i \in 1 .. 8 : todo'[i] = tasks[i]
      /\ \A i \in 2 .. Len(todo) : todo'[i + 7] = todo[i]
      /\ \A i \in 1 .. Len(todo') :
           \/ i <= 8 /\ todo'[i] = tasks[i]
           \/ i > 8 /\ i - 7 \in 2 .. Len(todo) /\ todo'[i] = todo[i - 7]
  <2>1. /\ Len(todo') = Len(tasks) + Len(todo) - 1
        /\ \A i \in 1 .. Len(tasks) : todo'[i] = tasks[i]
        /\ \A i \in 2 .. Len(todo) : todo'[i + Len(tasks) - 1] = todo[i]
        /\ \A i \in 1 .. Len(todo') :
             \/ i <= Len(tasks) /\ todo'[i] = tasks[i]
             \/ i > Len(tasks) /\ i - Len(tasks) + 1 \in 2 .. Len(todo) /\ todo'[i] = todo[i - Len(tasks) + 1]
    BY Splice
  <2>2. Len(todo) \in Nat /\ Len(todo') \in Nat
    <3>1. Len(todo) \in Nat /\ Len(tasks) \in Nat /\ Len(todo) >= 1
      OBVIOUS
    <3> QED
      BY <2>1, <3>1
  <2>3. \A i \in 2 .. Len(todo) : i + 8 - 1 = i + 7
    OBVIOUS
  <2>4. \A i \in 1 .. Len(todo') : i - 8 + 1 = i - 7
    OBVIOUS
  <2>5. /\ Len(todo') = Len(todo) + 7
        /\ \A i \in 1 .. 8 : todo'[i] = tasks[i]
    BY <2>1, <2>2
  <2>6. \A i \in 2 .. Len(todo) : todo'[i + 7] = todo[i]
    BY <2>1, <2>3
  <2>7. \A i \in 1 .. Len(todo') :
           \/ i <= 8 /\ todo'[i] = tasks[i]
           \/ i > 8 /\ i - 7 \in 2 .. Len(todo) /\ todo'[i] = todo[i - 7]
    <3> SUFFICES ASSUME NEW i \in 1 .. Len(todo')
                 PROVE  \/ i <= 8 /\ todo'[i] = tasks[i]
                        \/ i > 8 /\ i - 7 \in 2 .. Len(todo) /\ todo'[i] = todo[i - 7]
      OBVIOUS
    <3>1. \/ i <= 8 /\ todo'[i] = tasks[i]
          \/ i > 8 /\ i - 8 + 1 \in 2 .. Len(todo) /\ todo'[i] = todo[i - 8 + 1]
      BY <2>1
    <3>2. i - 8 + 1 = i - 7
      BY <2>4
    <3> QED
      BY <3>1, <3>2, Zenon
  <2> QED
    BY <2>5, <2>6, <2>7
<1>2. m \in Nat /\ Len(todo) \in Nat /\ Len(todo) >= 1
  OBVIOUS
<1>3. /\ Len(while_stack') = m + 1 /\ while_stack'[m + 1] = id
      /\ \A k \in 1 .. m : while_stack'[k] = while_stack[k]
  OBVIOUS
<1>4. PICK at \in [1 .. m -> Nat] : ClosedAt(at)
  BY DEF Loops
<1>5. /\ \A k \in 1 .. m : at[k] \in Ends
      /\ \A k, l \in 1 .. m : k < l => at[l] < at[k]
      /\ \A i \in Ends : \E k \in 1 .. m : at[k] = i
      /\ \A k \in 1 .. m : at[k] > 1 => todo[at[k] - 1] = Place(<<".while_end", while_stack[k]>>)
  BY <1>4 DEF ClosedAt
<1>6. \A i \in Ends : i \in 2 .. Len(todo) /\ todo[i].do = "end_while"
  BY <1>2 DEF Ends, Task
<1>7. EndWhile.do = "end_while"
  BY DEF EndWhile
<1> HIDE DEF m
<1>8. PICK moved \in [1 .. m + 1 -> Nat] :
        moved[m + 1] = 8 /\ \A k \in 1 .. m : moved[k] = at[k] + 7
  <2> DEFINE shifted == [k \in 1 .. m + 1 |-> IF k = m + 1 THEN 8 ELSE at[k] + 7]
  <2>1. \A k \in 1 .. m + 1 : shifted[k] \in Nat
    <3> SUFFICES ASSUME NEW k \in 1 .. m + 1 PROVE shifted[k] \in Nat
      OBVIOUS
    <3>1. CASE k = m + 1
      BY <3>1
    <3>2. CASE k # m + 1
      <4>1. k \in 1 .. m
        BY <1>2, <3>2
      <4>2. at[k] \in Nat
        BY <4>1
      <4>3. at[k] + 7 \in Nat
        BY <4>2
      <4> QED
        BY <3>2, <4>3
    <3> QED
      BY <3>1, <3>2
  <2>2. m + 1 \in 1 .. m + 1 /\ \A k \in 1 .. m : k \in 1 .. m + 1 /\ k # m + 1
    BY <1>2
  <2>3. shifted[m + 1] = 8 /\ \A k \in 1 .. m : shifted[k] = at[k] + 7
    BY <2>2
  <2>4. shifted \in [1 .. m + 1 -> Nat]
    BY <2>1
  <2> HIDE DEF shifted
  <2> QED
    BY <2>3, <2>4
<1>9. \A k \in 1 .. m : at[k] \in 2 .. Len(todo) /\ moved[k] = at[k] + 7 /\ moved[k] \in 9 .. Len(todo')
  <2> SUFFICES ASSUME NEW k \in 1 .. m
               PROVE  at[k] \in 2 .. Len(todo) /\ moved[k] = at[k] + 7 /\ moved[k] \in 9 .. Len(todo')
    OBVIOUS
  <2>1. at[k] \in 2 .. Len(todo) /\ moved[k] = at[k] + 7
    BY <1>5, <1>6, <1>8
  <2>2. \A a, b \in Int : a \in 2 .. Len(todo) /\ b = Len(todo) + 7 => a + 7 \in 9 .. b
    BY <1>2
  <2>3. at[k] \in Int /\ Len(todo') \in Int /\ Len(todo') = Len(todo) + 7
    BY <1>1, <1>2, <2>1
  <2> QED
    BY <2>1, <2>2, <2>3, Zenon
<1>10. \A k \in 1 .. m + 1 : k \in 1 .. m \/ k = m + 1
  BY <1>2
<1>11. 8 \in Ends'
  BY <1>1, <1>2, <1>7 DEF Ends
<1>12. \A k \in 1 .. m + 1 : moved[k] \in Ends'
  <2> SUFFICES ASSUME NEW k \in 1 .. m PROVE moved[k] \in Ends'
    BY <1>8, <1>10, <1>11
  <2>1. todo'[moved[k]] = todo[at[k]]
    BY <1>1, <1>9
  <2>2. moved[k] \in 1 .. Len(todo')
    BY <1>9
  <2> QED
    BY <1>5, <1>6, <2>1, <2>2 DEF Ends
<1>13. \A k, l \in 1 .. m + 1 : k < l => moved[l] < moved[k]
  <2> SUFFICES ASSUME NEW k \in 1 .. m + 1, NEW l \in 1 .. m + 1, k < l PROVE moved[l] < moved[k]
    OBVIOUS
  <2>1. k \in 1 .. m
    BY <1>2
  <2>2. CASE l = m + 1
    BY <1>8, <1>9, <2>1, <2>2
  <2>3. CASE l \in 1 .. m
    <3>1. at[l] < at[k] /\ moved[l] = at[l] + 7 /\ moved[k] = at[k] + 7 /\ at[l] \in Int /\ at[k] \in Int
      BY <1>5, <1>9, <2>1, <2>3
    <3> QED
      BY <3>1
  <2> QED
    BY <1>10, <2>2, <2>3
<1>14. ASSUME NEW i \in Ends'
       PROVE  \E k \in 1 .. m + 1 : moved[k] = i
  <2>1. i \in 1 .. Len(todo') /\ todo'[i].do = "end_while"
    BY DEF Ends
  <2>2. CASE i = 8
    BY <1>2, <1>8, <2>2
  <2>3. CASE i < 8
    <3>1. i \in 1 .. 7 /\ i \in 1 .. 8
      BY <2>1, <2>3
    <3> QED
      BY <1>1, <2>1, <3>1
  <2>4. CASE i > 8
    <3>1. i - 7 \in 2 .. Len(todo) /\ todo'[i] = todo[i - 7] /\ i \in Int
      BY <1>1, <2>1, <2>4
    <3>2. i - 7 \in Ends
      BY <1>2, <2>1, <3>1 DEF Ends
    <3>3. PICK k \in 1 .. m : at[k] = i - 7
      BY <1>5, <3>2
    <3>4. moved[k] = i /\ k \in 1 .. m + 1
      BY <1>2, <1>9, <3>1, <3>3
    <3> QED
      BY <3>4
  <2> QED
    BY <2>1, <2>2, <2>3, <2>4
<1>15. ASSUME NEW k \in 1 .. m + 1, moved[k] > 1
       PROVE  todo'[moved[k] - 1] = Place(<<".while_end", while_stack'[k]>>)
  <2>1. CASE k = m + 1
    <3>1. moved[k] - 1 = 7 /\ 7 \in 1 .. 8
      BY <1>8, <2>1
    <3>2. todo'[7] = tasks[7] /\ while_stack'[k] = id
      BY <1>1, <1>3, <2>1, <3>1
    <3> QED
      BY <3>1, <3>2, Zenon
  <2>2. CASE k \in 1 .. m
    <3>0. at[k] \in 2 .. Len(todo) /\ moved[k] = at[k] + 7
      BY <1>9, <2>2
    <3>7. at[k] > 1
      BY <1>2, <3>0
    <3>1. todo[at[k] - 1] = Place(<<".while_end", while_stack[k]>>) /\ at[k] \in 2 .. Len(todo) /\ moved[k] = at[k] + 7
      BY <1>5, <2>2, <3>0, <3>7
    <3>2. at[k] # 2
      <4>1. at[k] = 2 => todo[1] = Place(<<".while_end", while_stack[k]>>)
        BY <3>1
      <4>2. todo[1] # Place(<<".while_end", while_stack[k]>>)
        BY PlaceFields DEF Task
      <4> QED
        BY <4>1, <4>2
    <3>3. at[k] - 1 \in 2 .. Len(todo) /\ moved[k] - 1 = (at[k] - 1) + 7
      <4>1. \A a, b \in Int : a \in 2 .. Len(todo) /\ a # 2 /\ b = a + 7
                              => a - 1 \in 2 .. Len(todo) /\ b - 1 = (a - 1) + 7
        BY <1>2
      <4>2. at[k] \in Int /\ moved[k] \in Int
        BY <1>2, <3>0
      <4> QED
        BY <3>0, <3>2, <4>1, <4>2, Zenon
    <3>4. todo'[moved[k] - 1] = todo[at[k] - 1]
      BY <1>1, <3>3
    <3> QED
      BY <1>3, <2>2, <3>1, <3>4
  <2> QED
    BY <1>10, <2>1, <2>2
<1>16. ClosedAt(moved)'
  BY <1>3, <1>12, <1>13, <1>14, <1>15 DEF ClosedAt
<1> QED
  BY <1>3, <1>16 DEF Loops

LEMMA Front ==
  ASSUME NEW s \in Seq(Nat), NEW m \in Nat, m <= Len(s)
  PROVE  /\ SubSeq(s, 1, m) \in Seq(Nat)
         /\ Len(SubSeq(s, 1, m)) = m
         /\ \A k \in 1 .. m : SubSeq(s, 1, m)[k] = s[k]
<1>1. Len(s) \in Nat
  OBVIOUS
<1>2. m - 1 + 1 = m /\ 1 .. m \subseteq 1 .. Len(s)
  BY <1>1
<1>3. \A i \in 1 .. m : i \in 1 .. Len(s)
  BY <1>2
<1>4. \A i \in 1 .. m : s[i] \in Nat
  BY <1>3
<1> QED
  BY <1>1, <1>2, <1>3, <1>4, SubSeqProperties

(* The loop that is left is the innermost. *)
LEMMA LoopClosed ==
  ASSUME NEW T, todo \in Seq(T), todo # <<>>, Task.do = "end_while", while_stack \in Seq(Nat), Then(<<>>),
         Loops, while_stack' = SubSeq(while_stack, 1, Len(while_stack) - 1)
  PROVE  while_stack # <<>> /\ Loops'
<1> DEFINE m == Len(while_stack)
<1>1. /\ Len(todo') = Len(todo) - 1
      /\ \A i \in 1 .. Len(todo') : i + 1 \in 2 .. Len(todo) /\ todo'[i] = todo[i + 1]
  BY DEF Then
<1>2. m \in Nat /\ Len(todo) \in Nat /\ Len(todo) >= 1
  OBVIOUS
<1>3. PICK at \in [1 .. m -> Nat] : ClosedAt(at)
  BY DEF Loops
<1>4. /\ \A k \in 1 .. m : at[k] \in Ends
      /\ \A k, l \in 1 .. m : k < l => at[l] < at[k]
      /\ \A i \in Ends : \E k \in 1 .. m : at[k] = i
      /\ \A k \in 1 .. m : at[k] > 1 => todo[at[k] - 1] = Place(<<".while_end", while_stack[k]>>)
  BY <1>3 DEF ClosedAt
<1>5. 1 \in Ends /\ \A i \in Ends : i \in 1 .. Len(todo) /\ todo[i].do = "end_while"
  BY <1>2 DEF Ends, Task
<1>6. PICK last \in 1 .. m : at[last] = 1
  BY <1>4, <1>5
<1>7. m >= 1
  BY <1>2, <1>6
<1>8. /\ Len(while_stack') = m - 1
      /\ \A k \in 1 .. m - 1 : while_stack'[k] = while_stack[k]
  <2>1. m - 1 \in Nat /\ m - 1 <= Len(while_stack)
    BY <1>2, <1>7
  <2> QED
    BY <2>1, Front
<1> HIDE DEF m
<1>9. last = m
  <2> SUFFICES ASSUME last < m PROVE FALSE
    BY <1>2, <1>6
  <2>1. m \in 1 .. m
    BY <1>2, <1>7
  <2>2. at[m] < 1 /\ at[m] \in 1 .. Len(todo)
    BY <1>4, <1>5, <1>6, <2>1
  <2> QED
    BY <1>2, <2>2
<1>10. \A k \in 1 .. m - 1 : k \in 1 .. m /\ at[k] \in 2 .. Len(todo)
  <2> SUFFICES ASSUME NEW k \in 1 .. m - 1 PROVE k \in 1 .. m /\ at[k] \in 2 .. Len(todo)
    OBVIOUS
  <2>1. k \in 1 .. m /\ m \in 1 .. m /\ k < m
    BY <1>2, <1>7
  <2>2. at[m] < at[k] /\ at[m] = 1 /\ at[k] \in 1 .. Len(todo)
    BY <1>4, <1>5, <1>6, <1>9, <2>1
  <2> QED
    BY <1>2, <2>1, <2>2
<1>11. PICK moved \in [1 .. m - 1 -> Nat] : \A k \in 1 .. m - 1 : moved[k] = at[k] - 1
  <2> DEFINE shifted == [k \in 1 .. m - 1 |-> at[k] - 1]
  <2>1. shifted \in [1 .. m - 1 -> Nat] /\ \A k \in 1 .. m - 1 : shifted[k] = at[k] - 1
    BY <1>2, <1>10
  <2> HIDE DEF shifted
  <2> QED
    BY <2>1
<1>12. \A k \in 1 .. m - 1 : moved[k] \in 1 .. Len(todo') /\ todo'[moved[k]] = todo[at[k]]
  <2> SUFFICES ASSUME NEW k \in 1 .. m - 1
               PROVE  moved[k] \in 1 .. Len(todo') /\ todo'[moved[k]] = todo[at[k]]
    OBVIOUS
  <2>1. at[k] \in 2 .. Len(todo) /\ moved[k] = at[k] - 1
    BY <1>10, <1>11
  <2>2. moved[k] \in 1 .. Len(todo') /\ moved[k] + 1 = at[k]
    <3>1. \A a, b \in Int : a \in 2 .. Len(todo) /\ b = a - 1
                            => b \in 1 .. Len(todo) - 1 /\ b + 1 = a
      BY <1>2
    <3>2. at[k] \in Int /\ moved[k] \in Int
      BY <1>2, <2>1
    <3>3. moved[k] \in 1 .. Len(todo) - 1 /\ moved[k] + 1 = at[k]
      BY <2>1, <3>1, <3>2, Zenon
    <3> QED
      BY <1>1, <3>3
  <2> QED
    BY <1>1, <2>2
<1>13. \A k \in 1 .. m - 1 : moved[k] \in Ends'
  <2> SUFFICES ASSUME NEW k \in 1 .. m - 1 PROVE moved[k] \in Ends'
    OBVIOUS
  <2>1. todo[at[k]].do = "end_while"
    BY <1>4, <1>5, <1>10
  <2> QED
    BY <1>12, <2>1 DEF Ends
<1>14. \A k, l \in 1 .. m - 1 : k < l => moved[l] < moved[k]
  <2> SUFFICES ASSUME NEW k \in 1 .. m - 1, NEW l \in 1 .. m - 1, k < l PROVE moved[l] < moved[k]
    OBVIOUS
  <2>1. at[l] < at[k] /\ at[l] \in Int /\ at[k] \in Int /\ moved[k] = at[k] - 1 /\ moved[l] = at[l] - 1
    BY <1>4, <1>10, <1>11
  <2> QED
    BY <2>1
<1>15. ASSUME NEW i \in Ends'
       PROVE  \E k \in 1 .. m - 1 : moved[k] = i
  <2>1. i \in 1 .. Len(todo') /\ i + 1 \in 2 .. Len(todo) /\ todo[i + 1].do = "end_while"
    BY <1>1 DEF Ends
  <2>2. i + 1 \in Ends
    BY <1>2, <2>1 DEF Ends
  <2>3. PICK k \in 1 .. m : at[k] = i + 1
    BY <1>4, <2>2
  <2>4. k # m
    BY <1>6, <1>9, <2>1, <2>3
  <2>5. k \in 1 .. m - 1
    BY <1>2, <2>4
  <2>6. moved[k] = i
    BY <1>11, <2>1, <2>3, <2>5
  <2> QED
    BY <2>5, <2>6
<1>16. ASSUME NEW k \in 1 .. m - 1, moved[k] > 1
       PROVE  todo'[moved[k] - 1] = Place(<<".while_end", while_stack'[k]>>)
  <2>1. at[k] \in 2 .. Len(todo) /\ moved[k] = at[k] - 1 /\ k \in 1 .. m
    BY <1>10, <1>11
  <2>2. moved[k] - 1 \in 1 .. Len(todo') /\ (moved[k] - 1) + 1 = at[k] - 1
    <3>1. \A a, b \in Int : a \in 2 .. Len(todo) /\ b = a - 1 /\ b > 1
                            => b - 1 \in 1 .. Len(todo) - 1 /\ (b - 1) + 1 = a - 1
      BY <1>2
    <3>2. at[k] \in Int /\ moved[k] \in Int
      BY <1>2, <2>1
    <3>3. moved[k] - 1 \in 1 .. Len(todo) - 1 /\ (moved[k] - 1) + 1 = at[k] - 1
      BY <1>16, <2>1, <3>1, <3>2, Zenon
    <3> QED
      BY <1>1, <3>3
  <2>3. todo'[moved[k] - 1] = todo[at[k] - 1]
    BY <1>1, <2>2
  <2>4. todo[at[k] - 1] = Place(<<".while_end", while_stack[k]>>)
    BY <1>4, <2>1
  <2> QED
    BY <1>8, <2>3, <2>4
<1>17. ClosedAt(moved)'
  BY <1>8, <1>13, <1>14, <1>15, <1>16 DEF ClosedAt
<1>18. while_stack # <<>>
  BY <1>7 DEF m
<1> QED
  BY <1>8, <1>17, <1>18 DEF Loops

(* Every step keeps the loops in order. *)
LEMMA LoopsNext ==
  ASSUME Typed, Offsets, Loops, [Next]_vars
  PROVE  Loops'
<1> DEFINE N == Nodes[functions]
           T == Tasks(N)
<1>1. todo \in Seq(T) /\ while_stack \in Seq(Nat)
  BY DEF Typed
<1>2. CASE UNCHANGED vars \/ Abort
  <2>1. todo' = todo /\ while_stack' = while_stack
    BY <1>2 DEF vars, Abort
  <2>2. Ends' = Ends
    BY <2>1 DEF Ends
  <2> QED
    BY <2>1, <2>2 DEF Loops, ClosedAt
<1>3. CASE EmitCode \/ PlaceLabel \/ gen_rsp \/ gen_exit \/ gen_break
  <2>1. todo # <<>> /\ Task.do # "end_while" /\ Then(<<>>) /\ while_stack' = while_stack
    BY <1>3 DEF EmitCode, PlaceLabel, gen_rsp, gen_exit, gen_break, DoingStmt, Doing
  <2>2. <<>> \in Seq(T) /\ \A i \in 1 .. Len(<<>>) : <<>>[i].do # "end_while"
    OBVIOUS
  <2> HIDE DEF T
  <2> QED
    BY <1>1, <2>1, <2>2, LoopsMoved
<1>4. CASE gen_func
  <2>1. /\ todo # <<>> /\ Task.do = "func" /\ while_stack' = while_stack
        /\ \E tasks : Then(tasks) /\ FuncBody(Task.func, tasks)
    BY <1>4, FuncTasks DEF gen_func, Doing
  <2>2. PICK tasks : Then(tasks) /\ FuncBody(Task.func, tasks)
    BY <2>1
  <2> DEFINE S == Stmts(N) \cup Emits(Standing(rodata)) \cup Places(OwnOf(Task.func))
  <2>3. tasks \in Seq(S)
    BY <2>2 DEF FuncBody
  <2>4. \A t \in S : t.do # "end_while"
    BY DEF Stmts, Emits, Places
  <2>5. \A i \in 1 .. Len(tasks) : tasks[i].do # "end_while"
    <3> HIDE DEF S
    <3> QED
      BY <2>3, <2>4
  <2> HIDE DEF S, T
  <2> DEFINE B == S \cup T
  <2>6. tasks \in Seq(B) /\ todo \in Seq(B)
    BY <1>1, <2>3, SeqWider
  <2> HIDE DEF B
  <2> QED
    BY <1>1, <2>1, <2>2, <2>5, <2>6, LoopsMoved
<1>5. CASE WalkStep
  <2>1. todo # <<>> /\ Task.do \notin {"end_while", "place"} /\ while_stack' = while_stack
    BY <1>5 DEF WalkStep, Doing
  <2> DEFINE S == Stmts(N) \cup Plain(N) \cup Emits(Standing(rodata) \cup {EndLabel}) \cup Emits(Standing(rodata')) \cup Moves
  <2>2. PICK tasks : /\ Then(tasks)
                     /\ \/ tasks \in Seq(Stmts(N))
                        \/ tasks \in Seq(Plain(N) \cup Emits(Standing(rodata) \cup {EndLabel}))
                        \/ tasks \in Seq(Plain(N) \cup Emits(Standing(rodata')) \cup Moves)
    BY <1>5 DEF WalkStep
  <2>3. tasks \in Seq(S)
    <3>1. /\ Stmts(N) \subseteq S /\ Plain(N) \cup Emits(Standing(rodata) \cup {EndLabel}) \subseteq S
          /\ Plain(N) \cup Emits(Standing(rodata')) \cup Moves \subseteq S
      OBVIOUS
    <3> HIDE DEF S
    <3> QED
      BY <2>2, <3>1, SeqWider
  <2>4. \A t \in S : t.do # "end_while"
    BY DEF Stmts, Plain, Exprs, Compares, LibraryCalls, Emits, Moves
  <2>5. \A i \in 1 .. Len(tasks) : tasks[i].do # "end_while"
    <3> HIDE DEF S
    <3> QED
      BY <2>3, <2>4
  <2> HIDE DEF S, T
  <2> DEFINE B == S \cup T
  <2>6. tasks \in Seq(B) /\ todo \in Seq(B)
    BY <1>1, <2>3, SeqWider
  <2> HIDE DEF B
  <2> QED
    BY <1>1, <2>1, <2>2, <2>5, <2>6, LoopsMoved
<1>6. ASSUME NEW kind \in Kinds, ConstructStep(kind)
      PROVE  Loops'
  <2>1. todo # <<>> /\ Task.do \notin {"end_while", "place"}
    BY <1>6 DEF ConstructStep, Doing
  <2>2. PICK own, tasks :
          /\ Then(tasks) /\ Construct(tasks, own)
          /\ \/ /\ while_stack' = while_stack
                /\ \A i \in 1 .. Len(tasks) : tasks[i].do # "end_while"
             \/ /\ while_stack' = Append(while_stack, counters.while + 1)
                /\ Len(tasks) = 8 /\ tasks[7] = Place(<<".while_end", counters.while + 1>>) /\ tasks[8] = EndWhile
                /\ \A i \in 1 .. 7 : tasks[i].do # "end_while"
    BY <1>6 DEF ConstructStep
  <2> DEFINE S == Plain(N) \cup Stmts(N) \cup Moves \cup Closing \cup Emits(Standing(rodata) \cup own) \cup Places(own)
  <2>3. tasks \in Seq(S)
    BY <2>2 DEF Construct
  <2> HIDE DEF S, T
  <2> DEFINE B == S \cup T
  <2>4. tasks \in Seq(B) /\ todo \in Seq(B)
    BY <1>1, <2>3, SeqWider
  <2> HIDE DEF B
  <2> QED
    BY <1>1, <2>1, <2>2, <2>4, LoopsMoved, LoopOpened
<1>7. CASE EndOfWhile
  <2>1. /\ todo # <<>> /\ Task.do = "end_while" /\ Then(<<>>)
        /\ while_stack' = SubSeq(while_stack, 1, Len(while_stack) - 1)
    BY <1>7 DEF EndOfWhile, Doing
  <2> HIDE DEF T
  <2> QED
    BY <1>1, <2>1, LoopClosed
<1> QED
  BY <1>2, <1>3, <1>4, <1>5, <1>6, <1>7, StepCases

LEMMA LoopsInit == Init => Loops
<1> SUFFICES ASSUME Init PROVE Loops
  OBVIOUS
<1>1. Typed
  BY WalkInit
<1>2. functions \in Seq(FuncOf(Nodes[functions])) /\ Len(functions) \in Nat
  BY <1>1, ProgramsAssumption DEF Typed, Analysed
<1>3. todo = [i \in 1 .. Len(functions) |-> Func(functions[i])] \o <<Exit>> /\ while_stack = <<>>
  BY DEF Init
<1>4. \A i \in 1 .. Len(functions) : Func(functions[i]).do = "func"
  BY DEF Func
<1>5. Exit.do = "exit"
  BY DEF Exit
<1>6. \A i \in 1 .. Len(todo) : todo[i] = Exit \/ \E j \in 1 .. Len(functions) : todo[i] = Func(functions[j])
  BY <1>2, <1>3
<1>7. Ends = {}
  BY <1>4, <1>5, <1>6 DEF Ends
<1>8. ClosedAt(<<>>)
  BY <1>3, <1>7 DEF ClosedAt
<1>9. <<>> \in [1 .. Len(while_stack) -> Nat]
  BY <1>3
<1> QED
  BY <1>8, <1>9 DEF Loops

LEMMA LoopsInvariant == Spec => []Loops
<1>1. Typed /\ Offsets /\ Loops /\ [Next]_vars => Loops'
  BY LoopsNext
<1> QED
  BY <1>1, LoopsInit, WalkInvariant, PTL DEF Spec

(* As many as a decreasing function counts. *)
LEMMA CountDown ==
  ASSUME NEW m \in Nat, NEW f \in [1 .. m -> Nat], NEW S,
         \A k \in 1 .. m : f[k] \in S, \A i \in S : \E k \in 1 .. m : f[k] = i,
         \A k, l \in 1 .. m : k < l => f[l] < f[k]
  PROVE  Cardinality(S) = m
<1>1. f \in [1 .. m -> S]
  OBVIOUS
<1>2. \A k, l \in 1 .. m : f[k] = f[l] => k = l
  <2> SUFFICES ASSUME NEW k \in 1 .. m, NEW l \in 1 .. m, f[k] = f[l], k # l PROVE FALSE
    OBVIOUS
  <2>1. k < l \/ l < k
    OBVIOUS
  <2>2. f[k] \in Nat /\ f[l] \in Nat
    OBVIOUS
  <2> QED
    BY <2>1, <2>2
<1>3. f \in Bijection(1 .. m, S)
  BY <1>1, <1>2, Zenon DEF Bijection, Injection, Surjection, IsInjective
<1>4. ExistsBijection(1 .. m, S)
  BY <1>3 DEF ExistsBijection
<1> QED
  BY <1>4, FS_CountingElements

(* while_stack holds the numbers of the loops the walk is inside, innermost  *)
(* last: a break, which jumps to the end of the last one, leaves the loop    *)
(* around it that is closed first.                                           *)
THEOREM BreaksLeaveTheirLoop == Spec => []BreakLeavesInnermostLoop
<1>1. ASSUME Typed, Loops
      PROVE  BreakLeavesInnermostLoop
  <2> DEFINE m == Len(while_stack)
  <2>1. PICK at \in [1 .. m -> Nat] : ClosedAt(at)
    BY <1>1 DEF Loops
  <2>2. /\ \A k \in 1 .. m : at[k] \in Ends
        /\ \A k, l \in 1 .. m : k < l => at[l] < at[k]
        /\ \A i \in Ends : \E k \in 1 .. m : at[k] = i
        /\ \A k \in 1 .. m : at[k] > 1 => todo[at[k] - 1] = Place(<<".while_end", while_stack[k]>>)
    BY <2>1 DEF ClosedAt
  <2>3. m \in Nat /\ while_stack \in Seq(Nat) /\ m = Len(while_stack)
    BY <1>1 DEF Typed
  <2> HIDE DEF m
  <2>4. Cardinality(Ends) = m
    <3>1. /\ \A k \in 1 .. m : at[k] \in Ends
          /\ \A i \in Ends : \E k \in 1 .. m : at[k] = i
          /\ \A k, l \in 1 .. m : k < l => at[l] < at[k]
      BY <2>2
    <3>2. m \in Nat /\ at \in [1 .. m -> Nat]
      BY <2>1, <2>3
    <3> QED
      BY <3>1, <3>2, CountDown
  <2>5. ASSUME NEW i \in Ends, i > 1
        PROVE  LET inside == Cardinality({j \in Ends : j < i})
                   around == SubSeq(while_stack, 1, Len(while_stack) - inside)
               IN  todo[i - 1] = Place(<<".while_end", BreakTarget(around)>>)
    <3>1. PICK k \in 1 .. m : at[k] = i
      BY <2>2
    <3> DEFINE n == m - k
               inner == {j \in Ends : j < i}
    <3>2. n \in Nat /\ \A x \in 1 .. n : k + x \in 1 .. m
      BY <2>3
    <3>3. PICK f \in [1 .. n -> Nat] : \A x \in 1 .. n : f[x] = at[k + x]
      <4> DEFINE g == [x \in 1 .. n |-> at[k + x]]
      <4>1. g \in [1 .. n -> Nat] /\ \A x \in 1 .. n : g[x] = at[k + x]
        BY <3>2
      <4> HIDE DEF g
      <4> QED
        BY <4>1
    <3>4. \A x \in 1 .. n : f[x] \in inner
      <4> SUFFICES ASSUME NEW x \in 1 .. n PROVE f[x] \in inner
        OBVIOUS
      <4>1. k + x \in 1 .. m /\ k < k + x
        BY <2>3, <3>2
      <4> QED
        BY <2>2, <3>1, <3>3, <4>1
    <3>5. \A j \in inner : \E x \in 1 .. n : f[x] = j
      <4> SUFFICES ASSUME NEW j \in inner PROVE \E x \in 1 .. n : f[x] = j
        OBVIOUS
      <4>1. PICK l \in 1 .. m : at[l] = j
        BY <2>2
      <4>2. l > k
        <5>1. at[l] < at[k] /\ at[l] \in Nat /\ at[k] \in Nat
          BY <3>1, <4>1
        <5>2. l # k /\ ~(l < k)
          BY <2>2, <5>1
        <5> QED
          BY <5>2
      <4>3. l - k \in 1 .. n /\ k + (l - k) = l
        BY <2>3, <4>2
      <4> QED
        BY <3>3, <4>1, <4>3
    <3>6. \A x, y \in 1 .. n : x < y => f[y] < f[x]
      <4> SUFFICES ASSUME NEW x \in 1 .. n, NEW y \in 1 .. n, x < y PROVE f[y] < f[x]
        OBVIOUS
      <4>1. k + x \in 1 .. m /\ k + y \in 1 .. m /\ k + x < k + y
        BY <2>3, <3>2
      <4> QED
        BY <2>2, <3>3, <4>1
    <3> HIDE DEF n, inner
    <3>7. Cardinality(inner) = n
      BY <3>2, <3>4, <3>5, <3>6, CountDown
    <3>8. Len(while_stack) - n = k /\ k \in Nat /\ k <= Len(while_stack)
      BY <2>3 DEF n
    <3>9. /\ Len(SubSeq(while_stack, 1, k)) = k
          /\ SubSeq(while_stack, 1, k)[k] = while_stack[k]
      BY <2>3, <3>8, Front
    <3>10. todo[i - 1] = Place(<<".while_end", while_stack[k]>>)
      BY <2>2, <2>5, <3>1
    <3> QED
      BY <3>7, <3>8, <3>9, <3>10 DEF BreakTarget, inner
  <2> QED
    BY <2>3, <2>4, <2>5 DEF BreakLeavesInnermostLoop
<1> QED
  BY <1>1, LoopsInvariant, WalkInvariant, PTL
=============================================================================
