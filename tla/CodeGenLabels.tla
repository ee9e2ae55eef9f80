---------------------------- MODULE CodeGenLabels ----------------------------
(***************************************************************************)
(* Theorems about the labels of CodeGen, for every set of analysed         *)
(* programs: none is defined twice, all that are named are defined, and    *)
(* those that begin with a dot are used in the function that defines them. *)
(***************************************************************************)
EXTENDS CodeGenProofs

-----------------------------------------------------------------------------
(* The labels that stand in the code already, and those that the tasks will  *)
(* place.                                                                    *)
Made == {labels[i].label : i \in 1 .. Len(labels)}
Placing == {i \in 1 .. Len(todo) : todo[i].do = "place"}
Pending == {todo[i].label : i \in Placing}
Defined == Made \cup Pending

(* Functions are generated one after the other, and then the end.            *)
InOrder ==
  /\ \A i, j \in 1 .. Len(todo) :
       i < j /\ todo[i].do \in {"func", "exit"} => todo[j].do \in {"func", "exit"}
  /\ \A i \in 1 .. Len(todo) : todo[i].do = "exit" => i = Len(todo)

(* A label is placed once.  Those with a number of their own have one that   *)
(* was taken, those of a function belong to one function only, and those of  *)
(* the data and of the exit come last.                                       *)
Unique ==
  /\ \A i, j \in 1 .. Len(labels) : labels[i].label = labels[j].label => i = j
  /\ \A i, j \in Placing : todo[i].label = todo[j].label => i = j
  /\ Made \cap Pending = {}
  /\ \A kind \in Kinds : \A label \in Defined :
       label[1] \in NamesOf[kind] => label[2] <= counters[kind]
  /\ \A i \in 1 .. Len(todo) : todo[i].do = "func" => OwnOf(todo[i].func) \cap Defined = {}
  /\ \A i, j \in 1 .. Len(todo) :
       todo[i].do = "func" /\ todo[j].do = "func" /\ i # j => OwnOf(todo[i].func) \cap OwnOf(todo[j].func) = {}
  /\ status = "generating" => \A label \in Defined : label[1] \in LocalNames \cup GlobalNames

(* What an instruction names is defined or will be.  The end of the function *)
(* in hand is placed after its statements, and the functions that calls name *)
(* are defined or still to be generated.                                     *)
Known == Defined \cup Standing(rodata)
NamesResolved ==
  /\ instructions \in Seq(Code(Known))
  /\ \A i \in 1 .. Len(todo) : todo[i].do = "emit" => todo[i].code \in Seq(Code(Known))
  /\ \A label \in FuncLabels :
       \/ label \in Defined
       \/ \E i \in 1 .. Len(todo) : todo[i].do = "func" /\ label = <<"func", todo[i].func.id>>
  /\ \A i \in 1 .. Len(todo) :
       todo[i].do = "stmt" => \E j \in i + 1 .. Len(todo) : todo[j] = Place(EndLabel)
  /\ status = "done" => Known \ {<<"__out", 0>>, <<"__in", 0>>} \subseteq Made

(* The last label without a dot among the first n, and among those before    *)
(* the ith instruction: they tell in which function a label and a jump are.  *)
(* A task that places or names a label with a dot comes before the next one  *)
(* without; a jump and its label are in the same function, whichever of the  *)
(* two comes first.                                                          *)
Within(n) == FunctionAt(1 .. n)
Here == Within(Len(labels))
Emitted(i) == {k \in 1 .. Len(labels) : labels[k].index < i}
Fits(code) ==
  \A q \in 1 .. Len(code) : code[q].dst.l \in LocalNames =>
    \A j \in 1 .. Len(labels) : labels[j].label = LabelOf(code[q].dst) => Within(j) = Here
Opens(task) == task.do = "place" /\ task.label[1] \notin LocalNames
Local(task) ==
  \/ task.do = "place" /\ task.label[1] \in LocalNames
  \/ task.do = "emit" /\ \E q \in 1 .. Len(task.code) : task.code[q].dst.l \in LocalNames
InRegion ==
  /\ \A i, j \in 1 .. Len(todo) : i < j /\ Local(todo[j]) => ~Opens(todo[i])
  /\ \A i \in 1 .. Len(instructions) : instructions[i].dst.l \in LocalNames =>
       /\ \A j \in 1 .. Len(labels) :
            labels[j].label = LabelOf(instructions[i].dst) => Within(j) = FunctionAt(Emitted(i))
       /\ LabelOf(instructions[i].dst) \in Pending => Here = FunctionAt(Emitted(i))
  /\ \A p \in 1 .. Len(todo) : todo[p].do = "emit" => Fits(todo[p].code)

-----------------------------------------------------------------------------
(* The steps, by the labels of the tasks they leave. *)

(* Tasks that take the place of one and place these labels. *)
Replaces(tasks, own) ==
  /\ todo # <<>> /\ Task.do \notin {"place", "exit"} /\ Then(tasks)
  /\ tasks \in Seq(Tasks(Nodes[functions]))
  /\ UNCHANGED <<functions, labels, status>> /\ status = "generating"
  /\ PlaceOnce(tasks, own)
  /\ \A i \in 1 .. Len(tasks) :
       tasks[i].do \notin {"func", "exit"} /\ (tasks[i].do = "place" => tasks[i].label \in own)

(* They are none, those of a construct, which have a new number, or those of *)
(* a function.                                                               *)
NumbersKept == \A kind \in Kinds : counters'[kind] = counters[kind]
Fresh(own) ==
  \/ Task.do # "func" /\ own = {} /\ NumbersKept
  \/ /\ Task.do # "func"
     /\ \E kind \in Kinds : /\ own \in SUBSET Own(NamesOf[kind], counters[kind] + 1)
                            /\ counters' = [counters EXCEPT ![kind] = @ + 1]
  \/ Task.do = "func" /\ own = OwnOf(Task.func) /\ NumbersKept

LEMMA NothingReplaces ==
  ASSUME Typed, todo # <<>>, Task.do \notin {"place", "exit"}, Then(<<>>),
         UNCHANGED <<functions, labels, status>>, status = "generating"
  PROVE  Replaces(<<>>, {})
  BY DEF Replaces, PlaceOnce

LEMMA WalkReplaces ==
  ASSUME Typed, WalkStep
  PROVE  \E tasks : /\ Replaces(tasks, {}) /\ Fresh({})
                    /\ \/ Doing("stmt") /\ tasks \in Seq(Stmts(Nodes[functions]))
                       \/ Doing("stmt") /\ tasks \in Seq(Plain(Nodes[functions]) \cup Emits(Standing(rodata) \cup {EndLabel}))
                       \/ tasks \in Seq(Plain(Nodes[functions]) \cup Emits(Standing(rodata')) \cup Moves)
<1> DEFINE N == Nodes[functions]
           A == Stmts(N)
           B == Plain(N) \cup Emits(Standing(rodata) \cup {EndLabel})
           C == Plain(N) \cup Emits(Standing(rodata')) \cup Moves
           S == A \cup B \cup C
<1>1. /\ todo # <<>> /\ Task.do \notin {"place", "exit", "func"} /\ status = "generating"
      /\ UNCHANGED <<functions, labels, status>>
  BY DEF WalkStep, Doing
<1>2. PICK tasks : /\ Then(tasks)
                   /\ \/ Doing("stmt") /\ tasks \in Seq(A)
                      \/ Doing("stmt") /\ tasks \in Seq(B)
                      \/ tasks \in Seq(C)
  BY DEF WalkStep
<1>3. S \subseteq Tasks(N)
  <2>1. /\ Standing(rodata) \in SUBSET Names /\ EndLabel \in Names
        /\ Standing(rodata') \in SUBSET Names
    BY StandingTypes DEF WalkStep, Typed
  <2>2. Standing(rodata) \cup {EndLabel} \in SUBSET Names
    BY <2>1
  <2> QED
    BY <2>1, <2>2, TaskKinds
<1>4. \A t \in S : t.do \notin {"func", "exit", "place"}
  BY DEF Stmts, Plain, Exprs, Compares, LibraryCalls, Emits, Moves
<1>5. tasks \in Seq(S)
  <2>1. A \subseteq S /\ B \subseteq S /\ C \subseteq S
    OBVIOUS
  <2> HIDE DEF A, B, C, S
  <2> QED
    BY <1>2, <2>1, SeqWider
<1>6. tasks \in Seq(Tasks(N)) /\ \A i \in 1 .. Len(tasks) : tasks[i].do \notin {"func", "exit", "place"}
  <2> HIDE DEF S
  <2> QED
    BY <1>3, <1>4, <1>5, SeqWider
<1>7. Replaces(tasks, {})
  BY <1>1, <1>2, <1>6 DEF Replaces, PlaceOnce
<1>8. NumbersKept
  <2>1. counters' = counters \/ counters' = [counters EXCEPT !.const = @ + 1]
    BY DEF WalkStep, NewConstant
  <2>2. counters \in Counters
    BY DEF Typed
  <2> QED
    BY <2>1, <2>2 DEF NumbersKept, Kinds, Counters
<1>9. Fresh({})
  BY <1>1, <1>8 DEF Fresh
<1> QED
  BY <1>2, <1>7, <1>9

LEMMA ConstructReplaces ==
  ASSUME Typed, NEW kind \in Kinds, ConstructStep(kind)
  PROVE  \E own \in SUBSET Own(NamesOf[kind], counters[kind] + 1) : \E tasks :
           /\ Replaces(tasks, own) /\ Fresh(own) /\ Construct(tasks, own)
           /\ Doing("stmt") \/ \A i \in 1 .. Len(tasks) : tasks[i].do # "stmt"
<1> DEFINE N == Nodes[functions]
<1>1. /\ todo # <<>> /\ Task.do \notin {"place", "exit", "func"} /\ status = "generating"
      /\ UNCHANGED <<functions, labels, rodata, status>>
      /\ counters' = [counters EXCEPT ![kind] = @ + 1]
  BY DEF ConstructStep, Doing
<1>2. PICK own \in SUBSET Own(NamesOf[kind], counters[kind] + 1) : \E tasks :
        /\ Then(tasks) /\ Construct(tasks, own)
        /\ Doing("stmt") \/ \A i \in 1 .. Len(tasks) : tasks[i].do # "stmt"
        /\ \/ \A i \in 1 .. Len(tasks) : tasks[i].do # "exit"
           \/ /\ Len(tasks) = 8 /\ tasks[8] = EndWhile
              /\ \A i \in 1 .. 7 : tasks[i].do # "exit"
  BY DEF ConstructStep
<1>3. PICK tasks :
        /\ Then(tasks) /\ Construct(tasks, own)
        /\ Doing("stmt") \/ \A i \in 1 .. Len(tasks) : tasks[i].do # "stmt"
        /\ \/ \A i \in 1 .. Len(tasks) : tasks[i].do # "exit"
           \/ /\ Len(tasks) = 8 /\ tasks[8] = EndWhile
              /\ \A i \in 1 .. 7 : tasks[i].do # "exit"
  BY <1>2
<1>4. \A i \in 1 .. Len(tasks) : tasks[i].do # "exit"
  <2>1. EndWhile.do # "exit"
    BY DEF EndWhile
  <2>2. ASSUME Len(tasks) = 8
        PROVE  \A i \in 1 .. Len(tasks) : i \in 1 .. 7 \/ i = 8
    BY <2>2
  <2> QED
    BY <1>3, <2>1, <2>2
<1> DEFINE S == Plain(N) \cup Stmts(N) \cup Moves \cup Closing \cup Emits(Standing(rodata) \cup own) \cup Places(own)
<1>5. tasks \in Seq(S) /\ PlaceOnce(tasks, own)
  BY <1>3 DEF Construct
<1>6. S \subseteq Tasks(N)
  <2>1. own \in SUBSET Names
    <3>1. counters[kind] + 1 \in Int
      BY DEF Typed, Counters, Kinds
    <3>2. Own(NamesOf[kind], counters[kind] + 1) \subseteq Names
      BY <3>1, OwnTypes DEF NamesOf, Kinds
    <3> QED
      BY <3>2
  <2>2. Standing(rodata) \cup own \in SUBSET Names
    BY <2>1, StandingTypes DEF Typed
  <2> QED
    BY <2>1, <2>2, TaskKinds
<1>7. \A t \in S : t.do # "func" /\ (t.do = "place" => t.label \in own)
  BY DEF Plain, Exprs, Compares, LibraryCalls, Stmts, Moves, Closing, Emits, Places
<1>8. tasks \in Seq(Tasks(N)) /\ \A i \in 1 .. Len(tasks) : tasks[i].do # "func" /\ (tasks[i].do = "place" => tasks[i].label \in own)
  <2> HIDE DEF S
  <2> QED
    BY <1>5, <1>6, <1>7, SeqWider
<1>9. Replaces(tasks, own)
  BY <1>1, <1>3, <1>4, <1>5, <1>8 DEF Replaces
<1>10. Fresh(own)
  BY <1>1 DEF Fresh
<1> QED
  BY <1>3, <1>9, <1>10

LEMMA FuncReplaces ==
  ASSUME Typed, gen_func
  PROVE  /\ Task.do = "func" /\ Task.func \in FuncOf(Nodes[functions])
         /\ UNCHANGED <<instructions, rodata>> /\ counters'.func = Task.func.id
         /\ \E tasks : /\ Replaces(tasks, OwnOf(Task.func)) /\ Fresh(OwnOf(Task.func))
                       /\ FuncBody(Task.func, tasks)
<1> DEFINE N == Nodes[functions]
           own == OwnOf(Task.func)
           S == Stmts(N) \cup Emits(Standing(rodata)) \cup Places(own)
<1>1. /\ Task \in Funcs(N) /\ counters' = [counters EXCEPT !.func = Task.func.id, !.stack_offset = 0]
      /\ UNCHANGED <<functions, instructions, labels, rodata, while_stack, status>>
      /\ \E tasks : Then(tasks) /\ FuncBody(Task.func, tasks)
  BY FuncTasks
<1>2. todo # <<>> /\ Task.do = "func" /\ status = "generating"
  BY DEF gen_func, Doing
<1>3. Task.func \in FuncOf(N) /\ Task.func.id \in Nat
  BY <1>1 DEF Funcs, FuncOf
<1>4. NumbersKept /\ counters'.func = Task.func.id
  BY <1>1 DEF NumbersKept, Kinds, Typed, Counters
<1>5. PICK tasks : Then(tasks) /\ FuncBody(Task.func, tasks)
  BY <1>1
<1>6. tasks \in Seq(S) /\ PlaceOnce(tasks, own)
  BY <1>5 DEF FuncBody
<1>7. S \subseteq Tasks(N)
  <2>1. own \in SUBSET Names
    BY <1>3 DEF OwnOf, Names, LabelNames, GlobalNames
  <2>2. Standing(rodata) \in SUBSET Names
    BY StandingTypes DEF Typed
  <2> HIDE DEF own
  <2> QED
    BY <2>1, <2>2, TaskKinds
<1>8. \A t \in S : t.do \notin {"func", "exit"} /\ (t.do = "place" => t.label \in own)
  <2> HIDE DEF own
  <2> QED
    BY DEF Stmts, Emits, Places
<1>9. tasks \in Seq(Tasks(N))
      /\ \A i \in 1 .. Len(tasks) : tasks[i].do \notin {"func", "exit"} /\ (tasks[i].do = "place" => tasks[i].label \in own)
  <2> HIDE DEF S, own
  <2> QED
    BY <1>6, <1>7, <1>8, SeqWider
<1>10. Replaces(tasks, own)
  BY <1>1, <1>2, <1>5, <1>6, <1>9 DEF Replaces
<1>11. Fresh(own)
  BY <1>2, <1>4 DEF Fresh
<1> QED
  BY <1>1, <1>2, <1>3, <1>4, <1>5, <1>10, <1>11

(* Every other step places a label, ends the program, or changes no label. *)
LEMMA LabelSteps ==
  ASSUME Typed, Offsets, [Next]_vars
  PROVE  \/ PlaceLabel \/ gen_exit \/ Abort \/ UNCHANGED vars
         \/ \E own, tasks : Replaces(tasks, own) /\ Fresh(own)
<1>1. CASE EmitCode \/ gen_rsp \/ EndOfWhile \/ gen_break
  <2>1. /\ todo # <<>> /\ Task.do \notin {"place", "exit", "func"} /\ status = "generating"
        /\ Then(<<>>) /\ UNCHANGED <<functions, labels, status>>
    BY <1>1 DEF EmitCode, gen_rsp, EndOfWhile, gen_break, DoingStmt, Doing
  <2>2. Replaces(<<>>, {})
    BY <2>1, NothingReplaces
  <2>3. counters' = counters \/ counters' = [counters EXCEPT !.stack_offset = OffsetAfter(Task.bytes)]
    BY <1>1 DEF EmitCode, gen_rsp, EndOfWhile, gen_break
  <2>4. NumbersKept
    BY <2>3 DEF NumbersKept, Kinds, Typed, Counters
  <2>5. Fresh({})
    BY <2>1, <2>4 DEF Fresh
  <2> QED
    BY <2>2, <2>5
<1> QED
  BY <1>1, StepCases, WalkReplaces, ConstructReplaces, FuncReplaces

-----------------------------------------------------------------------------
(* The order of the tasks. *)

LEMMA OrderKept ==
  ASSUME NEW T, todo \in Seq(T), todo # <<>>, NEW tasks \in Seq(T), Then(tasks),
         \A i \in 1 .. Len(tasks) : tasks[i].do \notin {"func", "exit"}, InOrder
  PROVE  InOrder'
<1> DEFINE n == Len(tasks)
<1>1. /\ Len(todo') = n + Len(todo) - 1
      /\ \A i \in 1 .. Len(todo') :
           \/ i <= n /\ todo'[i] = tasks[i]
           \/ i > n /\ i - n + 1 \in 2 .. Len(todo) /\ todo'[i] = todo[i - n + 1]
  BY Splice
<1>2. n \in Nat /\ Len(todo) \in Nat
  OBVIOUS
<1>3. \A i \in 1 .. n : tasks[i].do \notin {"func", "exit"}
  OBVIOUS
<1>4. /\ \A i, j \in 1 .. Len(todo) : i < j /\ todo[i].do \in {"func", "exit"} => todo[j].do \in {"func", "exit"}
      /\ \A i \in 1 .. Len(todo) : todo[i].do = "exit" => i = Len(todo)
  BY DEF InOrder
<1> HIDE DEF n
<1>5. ASSUME NEW i \in 1 .. Len(todo'), todo'[i].do \in {"func", "exit"}
      PROVE  i > n /\ i - n + 1 \in 1 .. Len(todo) /\ todo'[i] = todo[i - n + 1] /\ i \in Int
  <2>1. i <= n => i \in 1 .. n
    BY <1>2
  <2> QED
    BY <1>1, <1>2, <1>3, <1>5, <2>1
<1>6. ASSUME NEW i \in 1 .. Len(todo'), NEW j \in 1 .. Len(todo'), i < j, todo'[i].do \in {"func", "exit"}
      PROVE  todo'[j].do \in {"func", "exit"}
  <2>1. i > n /\ i - n + 1 \in 1 .. Len(todo) /\ todo'[i] = todo[i - n + 1]
    BY <1>5, <1>6
  <2>2. j > n /\ i - n + 1 < j - n + 1
    BY <1>2, <1>6, <2>1
  <2>3. j - n + 1 \in 1 .. Len(todo) /\ todo'[j] = todo[j - n + 1]
    BY <1>1, <1>2, <2>2
  <2> QED
    BY <1>4, <1>6, <2>1, <2>2, <2>3
<1>7. ASSUME NEW i \in 1 .. Len(todo'), todo'[i].do = "exit"
      PROVE  i = Len(todo')
  <2>1. i - n + 1 \in 1 .. Len(todo) /\ todo'[i] = todo[i - n + 1] /\ i \in Int
    BY <1>5, <1>7
  <2>2. i - n + 1 = Len(todo)
    BY <1>4, <1>7, <2>1
  <2> QED
    BY <1>1, <1>2, <2>1, <2>2
<1> QED
  BY <1>6, <1>7 DEF InOrder

LEMMA OrderNext ==
  ASSUME Typed, Offsets, InOrder, [Next]_vars
  PROVE  InOrder'
<1> DEFINE T == Tasks(Nodes[functions])
<1>1. todo \in Seq(T)
  BY DEF Typed
<1>2. CASE Abort \/ UNCHANGED vars
  BY <1>2 DEF Abort, vars, InOrder
<1>3. CASE PlaceLabel \/ gen_exit
  <2>1. todo # <<>> /\ Then(<<>>)
    BY <1>3 DEF PlaceLabel, gen_exit, Doing
  <2>2. <<>> \in Seq(T) /\ \A i \in 1 .. Len(<<>>) : <<>>[i].do \notin {"func", "exit"}
    OBVIOUS
  <2> HIDE DEF T
  <2> QED
    BY <1>1, <2>1, <2>2, OrderKept
<1>4. ASSUME NEW own, NEW tasks, Replaces(tasks, own)
      PROVE  InOrder'
  <2>1. /\ todo # <<>> /\ Then(tasks) /\ tasks \in Seq(T)
        /\ \A i \in 1 .. Len(tasks) : tasks[i].do \notin {"func", "exit"}
    BY <1>4 DEF Replaces
  <2> HIDE DEF T
  <2> QED
    BY <1>1, <2>1, OrderKept
<1> QED
  BY <1>2, <1>3, <1>4, LabelSteps

LEMMA OrderInit == Init => InOrder
<1> SUFFICES ASSUME Init PROVE InOrder
  OBVIOUS
<1>1. Typed
  BY WalkInit
<1>2. functions \in Seq(FuncOf(Nodes[functions])) /\ Len(functions) \in Nat
  BY <1>1, ProgramsAssumption DEF Typed, Analysed
<1>3. todo = [i \in 1 .. Len(functions) |-> Func(functions[i])] \o <<Exit>>
  BY DEF Init
<1>4. /\ Len(todo) = Len(functions) + 1 /\ todo[Len(functions) + 1] = Exit
      /\ \A i \in 1 .. Len(functions) : todo[i] = Func(functions[i])
  BY <1>2, <1>3
<1>5. /\ \A i \in 1 .. Len(functions) : todo[i].do = "func"
      /\ todo[Len(functions) + 1].do = "exit"
  <2>1. Exit.do = "exit" /\ \A i \in 1 .. Len(functions) : Func(functions[i]).do = "func"
    BY DEF Func, Exit
  <2> QED
    BY <1>4, <2>1
<1>6. \A i \in 1 .. Len(todo) : i \in 1 .. Len(functions) \/ i = Len(functions) + 1
  BY <1>2, <1>4
<1> QED
  BY <1>4, <1>5, <1>6 DEF InOrder

LEMMA OrderInvariant == Spec => []InOrder
<1>1. Init => InOrder
  BY OrderInit
<1>2. Typed /\ Offsets /\ InOrder /\ [Next]_vars => InOrder'
  BY OrderNext
<1> QED
  BY <1>1, <1>2, WalkInvariant, PTL DEF Spec

(* When a function or the end of the program is begun, there is nothing but  *)
(* such tasks.                                                               *)
LEMMA OnlyFunctionsLeft ==
  ASSUME NEW T, todo \in Seq(T), todo # <<>>, InOrder, Task.do \in {"func", "exit"}
  PROVE  /\ \A i \in 1 .. Len(todo) : todo[i].do \in {"func", "exit"}
         /\ Task.do = "exit" => Len(todo) = 1
<1>1. 1 \in 1 .. Len(todo) /\ todo[1].do \in {"func", "exit"} /\ (Task.do = "exit" => todo[1].do = "exit")
  BY DEF Task
<1>2. \A i \in 1 .. Len(todo) : i = 1 \/ 1 < i
  OBVIOUS
<1> QED
  BY <1>1, <1>2 DEF InOrder

-----------------------------------------------------------------------------
(* No label is placed twice. *)

(* Labels made and pending after a step that makes none. *)
LEMMA ReplacedLabels ==
  ASSUME Typed, NEW own, NEW tasks, Replaces(tasks, own)
  PROVE  /\ Made' = Made /\ Pending' = Pending \cup own /\ Defined' = Defined \cup own
         /\ \A i \in Placing' :
              \/ i \in 1 .. Len(tasks) /\ todo'[i] = tasks[i]
              \/ i > Len(tasks) /\ i - Len(tasks) + 1 \in Placing /\ todo'[i] = todo[i - Len(tasks) + 1]
         /\ \A i \in 1 .. Len(todo') : todo'[i].do = "func" =>
              /\ i > Len(tasks) /\ i - Len(tasks) + 1 \in 2 .. Len(todo)
              /\ todo'[i] = todo[i - Len(tasks) + 1]
<1> DEFINE n == Len(tasks)
           T == Tasks(Nodes[functions])
<1>0. /\ todo # <<>> /\ todo \in Seq(T) /\ tasks \in Seq(T) /\ Then(tasks) /\ Task.do # "place" /\ labels' = labels
      /\ \A i \in 1 .. n : tasks[i].do # "func" /\ (tasks[i].do = "place" => tasks[i].label \in own)
      /\ \A label \in own : \E i \in 1 .. n : tasks[i] = Place(label)
  BY DEF Replaces, Typed, PlaceOnce
<1> HIDE DEF T
<1>1. /\ Len(todo') = n + Len(todo) - 1
      /\ \A i \in 1 .. n : todo'[i] = tasks[i]
      /\ \A i \in 2 .. Len(todo) : todo'[i + n - 1] = todo[i]
      /\ \A i \in 1 .. Len(todo') :
           \/ i <= n /\ todo'[i] = tasks[i]
           \/ i > n /\ i - n + 1 \in 2 .. Len(todo) /\ todo'[i] = todo[i - n + 1]
  BY <1>0, Splice
<1>2. n \in Nat /\ Len(todo) \in Nat /\ Len(todo) >= 1
  BY <1>0
<1>3. \A i \in Placing : i \in 2 .. Len(todo)
  BY <1>0, <1>2 DEF Placing, Task
<1> HIDE DEF n
<1>4. \A i \in Placing' :
        \/ i \in 1 .. n /\ todo'[i] = tasks[i] /\ tasks[i].do = "place"
        \/ i > n /\ i - n + 1 \in Placing /\ todo'[i] = todo[i - n + 1]
  <2> SUFFICES ASSUME NEW i \in Placing'
               PROVE  \/ i \in 1 .. n /\ todo'[i] = tasks[i] /\ tasks[i].do = "place"
                      \/ i > n /\ i - n + 1 \in Placing /\ todo'[i] = todo[i - n + 1]
    OBVIOUS
  <2>1. i \in 1 .. Len(todo') /\ todo'[i].do = "place"
    BY DEF Placing
  <2>2. CASE i <= n /\ todo'[i] = tasks[i]
    BY <1>2, <2>1, <2>2
  <2>3. CASE i > n /\ i - n + 1 \in 2 .. Len(todo) /\ todo'[i] = todo[i - n + 1]
    <3>1. i - n + 1 \in 1 .. Len(todo) /\ todo[i - n + 1].do = "place"
      BY <1>2, <2>1, <2>3
    <3> QED
      BY <2>3, <3>1 DEF Placing
  <2> QED
    BY <1>1, <2>1, <2>2, <2>3
<1>5. Pending' \subseteq Pending \cup own
  <2> SUFFICES ASSUME NEW i \in Placing' PROVE todo'[i].label \in Pending \cup own
    BY DEF Pending
  <2> QED
    BY <1>0, <1>4 DEF Pending
<1>6. Pending \subseteq Pending'
  <2> SUFFICES ASSUME NEW i \in Placing PROVE todo[i].label \in Pending'
    BY DEF Pending
  <2>1. todo[i].do = "place" /\ i \in 2 .. Len(todo)
    BY <1>3 DEF Placing
  <2>2. i + n - 1 \in 1 .. Len(todo') /\ todo'[i + n - 1] = todo[i]
    BY <1>1, <1>2, <2>1
  <2>3. i + n - 1 \in Placing'
    BY <2>1, <2>2 DEF Placing
  <2> QED
    BY <2>2, <2>3 DEF Pending
<1>7. own \subseteq Pending'
  <2> SUFFICES ASSUME NEW label \in own PROVE label \in Pending'
    OBVIOUS
  <2>1. PICK i \in 1 .. n : tasks[i] = Place(label)
    BY <1>0
  <2>2. i \in 1 .. Len(todo') /\ todo'[i] = Place(label)
    BY <1>1, <1>2, <2>1
  <2>3. i \in Placing' /\ todo'[i].label = label
    BY <2>2, PlaceFields DEF Placing
  <2> QED
    BY <2>3 DEF Pending
<1>8. \A i \in 1 .. Len(todo') : todo'[i].do = "func" =>
        i > n /\ i - n + 1 \in 2 .. Len(todo) /\ todo'[i] = todo[i - n + 1]
  <2>1. \A i \in 1 .. Len(todo') : i <= n => i \in 1 .. n
    BY <1>2
  <2> QED
    BY <1>0, <1>1, <2>1
<1>9. Made' = Made
  BY <1>0 DEF Made
<1>10. Pending' = Pending \cup own
  BY <1>5, <1>6, <1>7
<1> QED
  BY <1>4, <1>8, <1>9, <1>10 DEF Defined, n

(* Labels made and pending after one has been placed. *)
LEMMA PlacedLabels ==
  ASSUME Typed, PlaceLabel, \A i, j \in Placing : todo[i].label = todo[j].label => i = j
  PROVE  /\ Task.label \in Pending /\ 1 \in Placing
         /\ Made' = Made \cup {Task.label} /\ Pending' = Pending \ {Task.label} /\ Defined' = Defined
         /\ Len(labels') = Len(labels) + 1
         /\ labels'[Len(labels) + 1] = [label |-> Task.label, index |-> Len(instructions)]
         /\ \A i \in 1 .. Len(labels) : labels'[i] = labels[i]
         /\ Len(todo') = Len(todo) - 1
         /\ \A i \in 1 .. Len(todo') : i + 1 \in 2 .. Len(todo) /\ todo'[i] = todo[i + 1]
         /\ \A i \in Placing' : i + 1 \in Placing /\ i + 1 # 1
<1> DEFINE T == Tasks(Nodes[functions])
           new == [label |-> Task.label, index |-> Len(instructions)]
<1>0. /\ todo # <<>> /\ todo \in Seq(T) /\ Then(<<>>) /\ Task.do = "place"
      /\ labels \in Seq(Marks) /\ labels' = labels \o <<new>>
  BY DEF PlaceLabel, Doing, Typed, label_list_push_back
<1> HIDE DEF T
<1>1. /\ Len(todo') = Len(todo) - 1
      /\ \A i \in 1 .. Len(todo') : i + 1 \in 2 .. Len(todo) /\ todo'[i] = todo[i + 1]
  BY <1>0 DEF Then
<1>2. Len(todo) \in Nat /\ Len(todo) >= 1 /\ Len(labels) \in Nat
  BY <1>0
<1>3. 1 \in Placing
  BY <1>0, <1>2 DEF Placing, Task
<1>4. Task.label \in Pending
  BY <1>3 DEF Pending, Task
<1>5. /\ Len(labels') = Len(labels) + 1 /\ labels'[Len(labels) + 1] = new
      /\ \A i \in 1 .. Len(labels) : labels'[i] = labels[i]
  BY <1>0
<1>6. Made' = Made \cup {Task.label}
  <2>1. \A i \in 1 .. Len(labels') : i \in 1 .. Len(labels) \/ i = Len(labels) + 1
    BY <1>2, <1>5
  <2>2. \A i \in 1 .. Len(labels) : i \in 1 .. Len(labels')
    BY <1>2, <1>5
  <2>3. Len(labels) + 1 \in 1 .. Len(labels') /\ new.label = Task.label
    BY <1>2, <1>5
  <2> HIDE DEF new
  <2> QED
    BY <1>5, <2>1, <2>2, <2>3 DEF Made
<1>7. \A i \in Placing' : i + 1 \in Placing /\ i + 1 # 1 /\ todo'[i] = todo[i + 1]
  <2> SUFFICES ASSUME NEW i \in Placing' PROVE i + 1 \in Placing /\ i + 1 # 1 /\ todo'[i] = todo[i + 1]
    OBVIOUS
  <2>1. i \in 1 .. Len(todo') /\ todo'[i].do = "place"
    BY DEF Placing
  <2>2. i + 1 \in 2 .. Len(todo) /\ todo'[i] = todo[i + 1]
    BY <1>1, <2>1
  <2>3. i + 1 \in 1 .. Len(todo) /\ i + 1 # 1
    BY <1>2, <2>2
  <2> QED
    BY <2>1, <2>2, <2>3 DEF Placing
<1>8. Pending' = Pending \ {Task.label}
  <2>1. Pending' \subseteq Pending \ {Task.label}
    <3> SUFFICES ASSUME NEW i \in Placing' PROVE todo'[i].label \in Pending /\ todo'[i].label # Task.label
      BY DEF Pending
    <3> QED
      BY <1>3, <1>7 DEF Pending, Task
  <2>2. Pending \ {Task.label} \subseteq Pending'
    <3> SUFFICES ASSUME NEW i \in Placing, todo[i].label # Task.label PROVE todo[i].label \in Pending'
      BY DEF Pending
    <3>1. i \in 1 .. Len(todo) /\ todo[i].do = "place" /\ i # 1
      BY DEF Placing, Task
    <3>2. i - 1 \in 1 .. Len(todo') /\ (i - 1) + 1 = i
      BY <1>1, <1>2, <3>1
    <3>3. todo'[i - 1] = todo[i]
      BY <1>1, <3>2
    <3>4. i - 1 \in Placing'
      BY <3>1, <3>2, <3>3 DEF Placing
    <3> QED
      BY <3>3, <3>4 DEF Pending
  <2> QED
    BY <2>1, <2>2
<1>9. Defined' = Defined
  BY <1>4, <1>6, <1>8 DEF Defined
<1> QED
  BY <1>1, <1>3, <1>4, <1>5, <1>6, <1>7, <1>8, <1>9

LEMMA NameKinds ==
  /\ \A kind \in Kinds : NamesOf[kind] \subseteq LocalNames
  /\ \A kind, other \in Kinds : kind # other => NamesOf[kind] \cap NamesOf[other] = {}
  /\ LocalNames \cap GlobalNames = {}
  /\ \A f : \A label \in OwnOf(f) : label[1] \in GlobalNames
  /\ \A names, id : \A label \in Own(names, id) : label[1] \in names /\ label[2] = id
<1>1. \A kind \in Kinds : NamesOf[kind] \subseteq LocalNames
  BY DEF Kinds, NamesOf, IfNames, WhileNames, CmpNames, LogicNames, LocalNames
<1>2. \A kind, other \in Kinds : kind # other => NamesOf[kind] \cap NamesOf[other] = {}
  BY DEF Kinds, NamesOf, IfNames, WhileNames, CmpNames, LogicNames
<1>3. LocalNames \cap GlobalNames = {}
  BY DEF LocalNames, GlobalNames
<1>4. \A f : \A label \in OwnOf(f) : label[1] \in GlobalNames
  BY DEF OwnOf, GlobalNames
<1>5. \A names, id : \A label \in Own(names, id) : label[1] \in names /\ label[2] = id
  BY DEF Own
<1> QED
  BY <1>1, <1>2, <1>3, <1>4, <1>5

LEMMA DefinedTypes ==
  ASSUME Typed
  PROVE  Made \subseteq Names /\ Pending \subseteq Names /\ Defined \subseteq Names
<1>1. Made \subseteq Names
  <2> SUFFICES ASSUME NEW i \in 1 .. Len(labels) PROVE labels[i].label \in Names
    BY DEF Made
  <2>1. labels[i] \in Marks
    BY DEF Typed
  <2> QED
    BY <2>1 DEF Marks
<1>2. Pending \subseteq Names
  <2> SUFFICES ASSUME NEW i \in Placing PROVE todo[i].label \in Names
    BY DEF Pending
  <2>1. todo[i] \in Tasks(Nodes[functions]) /\ todo[i].do = "place"
    BY DEF Placing, Typed
  <2> QED
    BY <2>1, TaskFields
<1> QED
  BY <1>1, <1>2 DEF Defined

(* Numbers are taken, never given back. *)
LEMMA NumbersGrow ==
  ASSUME Typed, NEW own, Fresh(own), NEW kind \in Kinds
  PROVE  counters[kind] \in Nat /\ counters'[kind] \in Nat /\ counters[kind] <= counters'[kind]
<1>1. counters \in Counters
  BY DEF Typed
<1>2. counters[kind] \in Nat
  BY <1>1 DEF Counters, Kinds
<1>3. CASE NumbersKept
  BY <1>2, <1>3 DEF NumbersKept
<1>4. ASSUME NEW other \in Kinds, counters' = [counters EXCEPT ![other] = @ + 1]
      PROVE  counters'[kind] = counters[kind] \/ counters'[kind] = counters[kind] + 1
  BY <1>1, <1>4 DEF Counters, Kinds
<1> QED
  BY <1>2, <1>3, <1>4 DEF Fresh

LEMMA FreshNotDefined ==
  ASSUME Typed, Unique, NEW own, NEW tasks, Replaces(tasks, own), Fresh(own)
  PROVE  /\ own \cap Defined = {}
         /\ \A label \in own : label[1] \in LocalNames \cup GlobalNames
         /\ \A kind \in Kinds : \A label \in own : label[1] \in NamesOf[kind] => label[2] <= counters'[kind]
         /\ \A i \in 2 .. Len(todo) : todo[i].do = "func" => OwnOf(todo[i].func) \cap own = {}
<1>1. CASE own = {}
  BY <1>1
<1>2. ASSUME NEW kind \in Kinds, own \in SUBSET Own(NamesOf[kind], counters[kind] + 1),
             counters' = [counters EXCEPT ![kind] = @ + 1]
      PROVE  /\ own \cap Defined = {}
             /\ \A label \in own : label[1] \in LocalNames
             /\ \A other \in Kinds : \A label \in own : label[1] \in NamesOf[other] => label[2] <= counters'[other]
  <2>1. counters[kind] \in Nat /\ counters'[kind] = counters[kind] + 1
    BY <1>2, CounterTypes DEF Typed
  <2>2. \A label \in own : label[1] \in NamesOf[kind] /\ label[2] = counters[kind] + 1
    BY <1>2, NameKinds
  <2>3. \A label \in Defined : label[1] \in NamesOf[kind] => label[2] <= counters[kind]
    BY DEF Unique
  <2>4. own \cap Defined = {}
    <3> SUFFICES ASSUME NEW label \in own, label \in Defined PROVE FALSE
      OBVIOUS
    <3>1. counters[kind] + 1 <= counters[kind]
      BY <2>2, <2>3
    <3> QED
      BY <2>1, <3>1
  <2>5. \A label \in own : label[1] \in LocalNames
    BY <2>2, NameKinds
  <2>6. ASSUME NEW other \in Kinds, NEW label \in own, label[1] \in NamesOf[other]
        PROVE  label[2] <= counters'[other]
    <3>1. other = kind
      BY <2>2, <2>6, NameKinds
    <3>2. label[2] = counters'[other]
      BY <2>1, <2>2, <3>1
    <3> QED
      BY <2>1, <3>1, <3>2
  <2> QED
    BY <2>4, <2>5, <2>6
<1>3. CASE Task.do = "func" /\ own = OwnOf(Task.func)
  <2>1. 1 \in 1 .. Len(todo) /\ todo[1].do = "func" /\ own = OwnOf(todo[1].func)
    BY <1>3 DEF Replaces, Task, Typed
  <2>2. own \cap Defined = {}
    BY <2>1 DEF Unique
  <2>3. \A label \in own : label[1] \in GlobalNames
    BY <1>3, NameKinds
  <2>4. \A kind \in Kinds : \A label \in own : label[1] \notin NamesOf[kind]
    BY <2>3, NameKinds
  <2>5. \A i \in 2 .. Len(todo) : i \in 1 .. Len(todo) /\ i # 1
    BY DEF Typed
  <2>6. \A i \in 2 .. Len(todo) : todo[i].do = "func" => OwnOf(todo[i].func) \cap own = {}
    BY <2>1, <2>5 DEF Unique
  <2> QED
    BY <2>2, <2>3, <2>4, <2>6
<1>4. ASSUME \A label \in own : label[1] \in LocalNames
      PROVE  \A i \in 2 .. Len(todo) : todo[i].do = "func" => OwnOf(todo[i].func) \cap own = {}
  <2> SUFFICES ASSUME NEW i \in 2 .. Len(todo), NEW label \in OwnOf(todo[i].func), label \in own PROVE FALSE
    OBVIOUS
  <2>1. label[1] \in LocalNames /\ label[1] \in GlobalNames
    BY <1>4, NameKinds
  <2> QED
    BY <2>1, NameKinds
<1> QED
  BY <1>1, <1>2, <1>3, <1>4 DEF Fresh

LEMMA UniqueKept ==
  ASSUME Typed, Unique, NEW own, NEW tasks, Replaces(tasks, own), Fresh(own)
  PROVE  Unique'
<1> DEFINE n == Len(tasks)
<1>1. /\ \A i, j \in 1 .. Len(labels) : labels[i].label = labels[j].label => i = j
      /\ \A i, j \in Placing : todo[i].label = todo[j].label => i = j
      /\ Made \cap Pending = {}
      /\ \A kind \in Kinds : \A label \in Defined : label[1] \in NamesOf[kind] => label[2] <= counters[kind]
      /\ \A i \in 1 .. Len(todo) : todo[i].do = "func" => OwnOf(todo[i].func) \cap Defined = {}
      /\ \A i, j \in 1 .. Len(todo) :
           todo[i].do = "func" /\ todo[j].do = "func" /\ i # j => OwnOf(todo[i].func) \cap OwnOf(todo[j].func) = {}
      /\ status = "generating" => \A label \in Defined : label[1] \in LocalNames \cup GlobalNames
  BY DEF Unique
<1>2. /\ own \cap Defined = {}
      /\ \A label \in own : label[1] \in LocalNames \cup GlobalNames
      /\ \A kind \in Kinds : \A label \in own : label[1] \in NamesOf[kind] => label[2] <= counters'[kind]
      /\ \A i \in 2 .. Len(todo) : todo[i].do = "func" => OwnOf(todo[i].func) \cap own = {}
  BY FreshNotDefined
<1>3. /\ Made' = Made /\ Pending' = Pending \cup own /\ Defined' = Defined \cup own
      /\ \A i \in Placing' :
           \/ i \in 1 .. n /\ todo'[i] = tasks[i]
           \/ i > n /\ i - n + 1 \in Placing /\ todo'[i] = todo[i - n + 1]
      /\ \A i \in 1 .. Len(todo') : todo'[i].do = "func" =>
           i > n /\ i - n + 1 \in 2 .. Len(todo) /\ todo'[i] = todo[i - n + 1]
  BY ReplacedLabels
<1>4. /\ labels' = labels /\ n \in Nat /\ Len(todo) \in Nat /\ status = "generating"
      /\ \A i \in 1 .. n : tasks[i].do = "place" => tasks[i].label \in own
      /\ \A i, j \in 1 .. n :
           tasks[i].do = "place" /\ tasks[j].do = "place" /\ tasks[i].label = tasks[j].label => i = j
  BY DEF Replaces, Typed, PlaceOnce
<1> HIDE DEF n
<1>5. \A i \in Placing' : i \in Int /\ todo'[i].do = "place"
  BY DEF Placing
<1>6. \A i, j \in Placing' : todo'[i].label = todo'[j].label => i = j
  <2> SUFFICES ASSUME NEW i \in Placing', NEW j \in Placing', todo'[i].label = todo'[j].label PROVE i = j
    OBVIOUS
  <2>1. \A k \in Placing' :
          \/ k \in 1 .. n /\ todo'[k] = tasks[k] /\ tasks[k].do = "place" /\ todo'[k].label \in own
          \/ k - n + 1 \in Placing /\ todo'[k] = todo[k - n + 1] /\ todo'[k].label \in Defined
    <3> SUFFICES ASSUME NEW k \in Placing'
                 PROVE  \/ k \in 1 .. n /\ todo'[k] = tasks[k] /\ tasks[k].do = "place" /\ todo'[k].label \in own
                        \/ k - n + 1 \in Placing /\ todo'[k] = todo[k - n + 1] /\ todo'[k].label \in Defined
      OBVIOUS
    <3>1. CASE k \in 1 .. n /\ todo'[k] = tasks[k]
      BY <1>4, <1>5, <3>1
    <3>2. CASE k > n /\ k - n + 1 \in Placing /\ todo'[k] = todo[k - n + 1]
      <4>1. todo[k - n + 1].label \in Pending
        BY <3>2 DEF Pending
      <4> QED
        BY <3>2, <4>1 DEF Defined
    <3> QED
      BY <1>3, <3>1, <3>2
  <2>2. CASE i \in 1 .. n /\ todo'[i] = tasks[i] /\ j \in 1 .. n /\ todo'[j] = tasks[j]
             /\ tasks[i].do = "place" /\ tasks[j].do = "place"
    BY <1>4, <2>2
  <2>3. CASE i - n + 1 \in Placing /\ todo'[i] = todo[i - n + 1] /\ j - n + 1 \in Placing /\ todo'[j] = todo[j - n + 1]
    <3>1. i - n + 1 = j - n + 1
      BY <1>1, <2>3
    <3> QED
      BY <1>4, <1>5, <3>1
  <2>4. ~(todo'[i].label \in own /\ todo'[j].label \in Defined) /\ ~(todo'[j].label \in own /\ todo'[i].label \in Defined)
    BY <1>2
  <2> QED
    BY <2>1, <2>2, <2>3, <2>4
<1>7. (Made \cap Pending = {})'
  BY <1>1, <1>2, <1>3 DEF Defined
<1>8. \A kind \in Kinds : \A label \in Defined' : label[1] \in NamesOf[kind] => label[2] <= counters'[kind]
  <2> SUFFICES ASSUME NEW kind \in Kinds, NEW label \in Defined, label[1] \in NamesOf[kind]
               PROVE  label[2] <= counters'[kind]
    BY <1>2, <1>3
  <2>1. counters[kind] \in Nat /\ counters'[kind] \in Nat /\ counters[kind] <= counters'[kind]
    BY NumbersGrow
  <2>2. label[2] <= counters[kind] /\ label[2] \in Int
    <3>1. label \in Names
      BY DefinedTypes
    <3> QED
      BY <1>1, <3>1 DEF Names
  <2> QED
    BY <2>1, <2>2
<1>9. \A i \in 1 .. Len(todo') : todo'[i].do = "func" => OwnOf(todo'[i].func) \cap Defined' = {}
  <2> SUFFICES ASSUME NEW i \in 1 .. Len(todo'), todo'[i].do = "func"
               PROVE  OwnOf(todo'[i].func) \cap Defined' = {}
    OBVIOUS
  <2>1. i - n + 1 \in 2 .. Len(todo) /\ todo'[i] = todo[i - n + 1]
    BY <1>3
  <2>2. i - n + 1 \in 1 .. Len(todo)
    BY <1>4, <2>1
  <2>3. OwnOf(todo[i - n + 1].func) \cap Defined = {} /\ OwnOf(todo[i - n + 1].func) \cap own = {}
    BY <1>1, <1>2, <2>1, <2>2
  <2> QED
    BY <1>3, <2>1, <2>3
<1>10. \A i, j \in 1 .. Len(todo') :
         todo'[i].do = "func" /\ todo'[j].do = "func" /\ i # j => OwnOf(todo'[i].func) \cap OwnOf(todo'[j].func) = {}
  <2> SUFFICES ASSUME NEW i \in 1 .. Len(todo'), NEW j \in 1 .. Len(todo'),
                      todo'[i].do = "func", todo'[j].do = "func", i # j
               PROVE  OwnOf(todo'[i].func) \cap OwnOf(todo'[j].func) = {}
    OBVIOUS
  <2>1. /\ i - n + 1 \in 2 .. Len(todo) /\ todo'[i] = todo[i - n + 1]
        /\ j - n + 1 \in 2 .. Len(todo) /\ todo'[j] = todo[j - n + 1]
    BY <1>3
  <2>2. i - n + 1 \in 1 .. Len(todo) /\ j - n + 1 \in 1 .. Len(todo) /\ i - n + 1 # j - n + 1
    BY <1>4, <2>1
  <2> QED
    BY <1>1, <2>1, <2>2
<1>11. \A label \in Defined' : label[1] \in LocalNames \cup GlobalNames
  BY <1>1, <1>2, <1>3, <1>4
<1> QED
  BY <1>1, <1>4, <1>6, <1>7, <1>8, <1>9, <1>10, <1>11 DEF Unique

(* The labels that gen_exit adds: that of the exit and those of the data.    *)
LEMMA ExitLabels ==
  ASSUME Typed, DataInOrder, gen_exit
  PROVE  \E new \in Seq(Marks) :
           /\ labels' = labels \o new
           /\ \A i \in 1 .. Len(new) : new[i].label[1] \in DataNames \cup {"__exit"}
           /\ \A i, j \in 1 .. Len(new) : new[i].label = new[j].label => i = j
           /\ <<"__exit", 0>> \in {new[i].label : i \in 1 .. Len(new)}
           /\ {ConstTrue, ConstFalse} \cup Constants(rodata) \subseteq {new[i].label : i \in 1 .. Len(new)}
           /\ \A i \in 1 .. Len(new) : new[i].index >= Len(instructions)
<1>1. PICK new \in Seq(Marks) :
        /\ labels' = labels \o new /\ Len(new) = Len(rodata) + 1
        /\ new[1].label = <<"__exit", 0>> /\ new[1].index = Len(instructions)
        /\ \A i \in 1 .. Len(rodata) :
             new[i + 1].label = rodata[i].label /\ new[i + 1].index = Len(instructions) + i + 2
  BY ExitTypes
<1>2. /\ Len(rodata) = counters.const + 2 /\ counters.const \in Nat
      /\ rodata[1].label = ConstTrue /\ rodata[2].label = ConstFalse
      /\ \A i \in 3 .. Len(rodata) : rodata[i].label = <<"const", i - 3>>
      /\ Len(instructions) \in Nat
  <2>1. /\ Len(rodata) = counters.const + 2
        /\ rodata[1].label = ConstTrue /\ rodata[2].label = ConstFalse
        /\ \A i \in 3 .. Len(rodata) : rodata[i].label = <<"const", i - 3>>
    BY DEF DataInOrder
  <2>2. counters.const \in Nat
    BY DEF Typed, Counters
  <2>3. Len(instructions) \in Nat
    BY DEF Typed
  <2> QED
    BY <2>1, <2>2, <2>3
<1> DEFINE size == Len(rodata)
<1>3. size \in Nat /\ size >= 2
  BY <1>2
<1> HIDE DEF size
<1>4. \A i \in 1 .. Len(new) : i = 1 \/ (i - 1 \in 1 .. size /\ i = (i - 1) + 1)
  BY <1>1, <1>3 DEF size
<1>5. ASSUME NEW i \in 1 .. Len(new)
      PROVE  \/ i = 1 /\ new[i].label = <<"__exit", 0>>
             \/ i = 2 /\ new[i].label = <<"const_true", 0>>
             \/ i = 3 /\ new[i].label = <<"const_false", 0>>
             \/ i > 3 /\ new[i].label = <<"const", i - 4>>
  <2>1. CASE i = 1
    BY <1>1, <2>1
  <2>2. CASE i - 1 \in 1 .. size /\ i = (i - 1) + 1
    <3>1. new[i].label = rodata[i - 1].label
      BY <1>1, <2>2 DEF size
    <3>2. CASE i - 1 = 1
      BY <1>2, <3>1, <3>2 DEF ConstTrue
    <3>3. CASE i - 1 = 2
      BY <1>2, <3>1, <3>3 DEF ConstFalse
    <3>4. CASE i - 1 > 2
      <4>1. i - 1 \in 3 .. Len(rodata) /\ (i - 1) - 3 = i - 4
        BY <2>2, <3>4 DEF size
      <4>2. rodata[i - 1].label = <<"const", i - 4>>
        BY <1>2, <4>1
      <4> QED
        BY <3>1, <3>4, <4>2
    <3> QED
      BY <1>3, <2>2, <3>2, <3>3, <3>4
  <2> QED
    BY <1>4, <2>1, <2>2
<1>6. \A i \in 1 .. Len(new) : new[i].label[1] \in DataNames \cup {"__exit"}
  BY <1>5 DEF DataNames
<1>7. \A i, j \in 1 .. Len(new) : new[i].label = new[j].label => i = j
  BY <1>5
<1>8. <<"__exit", 0>> \in {new[i].label : i \in 1 .. Len(new)}
  <2>1. 1 \in 1 .. Len(new)
    BY <1>1, <1>3 DEF size
  <2> QED
    BY <1>1, <2>1
<1>9. ASSUME NEW i \in 1 .. size
      PROVE  rodata[i].label \in {new[j].label : j \in 1 .. Len(new)}
  <2>1. i + 1 \in 1 .. Len(new) /\ i \in 1 .. Len(rodata)
    BY <1>1, <1>3 DEF size
  <2> QED
    BY <1>1, <2>1
<1>10. {ConstTrue, ConstFalse} \cup Constants(rodata) \subseteq {new[i].label : i \in 1 .. Len(new)}
  <2>1. 1 \in 1 .. size /\ 2 \in 1 .. size
    BY <1>3
  <2>2. {ConstTrue, ConstFalse} \subseteq {new[i].label : i \in 1 .. Len(new)}
    BY <1>2, <1>9, <2>1
  <2>3. Constants(rodata) \subseteq {new[i].label : i \in 1 .. Len(new)}
    BY <1>9 DEF Constants, size
  <2> QED
    BY <2>2, <2>3
<1>11. ASSUME NEW i \in 1 .. Len(new)
       PROVE  new[i].index >= Len(instructions)
  <2>1. CASE i = 1
    <3>1. new[i].index = Len(instructions) /\ Len(instructions) \in Nat
      BY <1>1, <1>2, <2>1
    <3> QED
      BY <3>1
  <2>2. CASE i - 1 \in 1 .. size /\ i = (i - 1) + 1
    <3>1. new[i].index = Len(instructions) + (i - 1) + 2
      BY <1>1, <2>2 DEF size
    <3>2. Len(instructions) \in Nat /\ i - 1 >= 1 /\ i \in Int
      BY <1>2, <1>3, <2>2
    <3> QED
      BY <3>1, <3>2
  <2> QED
    BY <1>4, <2>1, <2>2
<1> QED
  BY <1>1, <1>6, <1>7, <1>8, <1>10, <1>11

LEMMA UniquePlaced ==
  ASSUME Typed, Unique, PlaceLabel
  PROVE  Unique'
<1>1. /\ \A i, j \in 1 .. Len(labels) : labels[i].label = labels[j].label => i = j
      /\ \A i, j \in Placing : todo[i].label = todo[j].label => i = j
      /\ Made \cap Pending = {}
      /\ \A kind \in Kinds : \A label \in Defined : label[1] \in NamesOf[kind] => label[2] <= counters[kind]
      /\ \A i \in 1 .. Len(todo) : todo[i].do = "func" => OwnOf(todo[i].func) \cap Defined = {}
      /\ \A i, j \in 1 .. Len(todo) :
           todo[i].do = "func" /\ todo[j].do = "func" /\ i # j => OwnOf(todo[i].func) \cap OwnOf(todo[j].func) = {}
      /\ status = "generating" => \A label \in Defined : label[1] \in LocalNames \cup GlobalNames
  BY DEF Unique
<1>2. /\ Task.label \in Pending /\ 1 \in Placing
      /\ Made' = Made \cup {Task.label} /\ Pending' = Pending \ {Task.label} /\ Defined' = Defined
      /\ Len(labels') = Len(labels) + 1
      /\ labels'[Len(labels) + 1] = [label |-> Task.label, index |-> Len(instructions)]
      /\ \A i \in 1 .. Len(labels) : labels'[i] = labels[i]
      /\ Len(todo') = Len(todo) - 1
      /\ \A i \in 1 .. Len(todo') : i + 1 \in 2 .. Len(todo) /\ todo'[i] = todo[i + 1]
      /\ \A i \in Placing' : i + 1 \in Placing
  BY <1>1, PlacedLabels
<1>3. counters' = counters /\ status' = status /\ Len(labels) \in Nat /\ Len(todo) \in Nat
  BY DEF PlaceLabel, Typed
<1>4. \A i, j \in 1 .. Len(labels') : labels'[i].label = labels'[j].label => i = j
  <2> SUFFICES ASSUME NEW i \in 1 .. Len(labels'), NEW j \in 1 .. Len(labels'), labels'[i].label = labels'[j].label
               PROVE  i = j
    OBVIOUS
  <2>1. /\ i \in 1 .. Len(labels) \/ i = Len(labels) + 1
        /\ j \in 1 .. Len(labels) \/ j = Len(labels) + 1
    BY <1>2, <1>3
  <2>2. \A k \in 1 .. Len(labels) : labels'[k].label = labels[k].label /\ labels[k].label \in Made
    BY <1>2 DEF Made
  <2>3. labels'[Len(labels) + 1].label = Task.label /\ Task.label \notin Made
    BY <1>1, <1>2
  <2> QED
    BY <1>1, <2>1, <2>2, <2>3
<1>5. \A i \in Placing' : i \in 1 .. Len(todo')
  BY DEF Placing
<1>6. \A i, j \in Placing' : todo'[i].label = todo'[j].label => i = j
  <2> SUFFICES ASSUME NEW i \in Placing', NEW j \in Placing', todo'[i].label = todo'[j].label PROVE i = j
    OBVIOUS
  <2>1. i + 1 \in Placing /\ j + 1 \in Placing /\ todo'[i] = todo[i + 1] /\ todo'[j] = todo[j + 1]
    BY <1>2, <1>5
  <2>2. i + 1 = j + 1 /\ i \in Int /\ j \in Int
    BY <1>1, <1>5, <2>1
  <2> QED
    BY <2>2
<1>7. (Made \cap Pending = {})'
  BY <1>1, <1>2
<1>8. \A i \in 1 .. Len(todo') : i + 1 \in 1 .. Len(todo) /\ todo'[i] = todo[i + 1] /\ i \in Int
  BY <1>2, <1>3
<1>9. \A i \in 1 .. Len(todo') : todo'[i].do = "func" => OwnOf(todo'[i].func) \cap Defined' = {}
  <2>1. \A i \in 1 .. Len(todo) : todo[i].do = "func" => OwnOf(todo[i].func) \cap Defined = {}
    BY <1>1
  <2> SUFFICES ASSUME NEW i \in 1 .. Len(todo'), todo'[i].do = "func"
               PROVE  OwnOf(todo'[i].func) \cap Defined' = {}
    OBVIOUS
  <2>2. i + 1 \in 1 .. Len(todo) /\ todo'[i] = todo[i + 1] /\ Defined' = Defined
    BY <1>2, <1>8, Zenon
  <2>3. todo[i + 1].do = "func"
    BY <2>2, Zenon
  <2>4. OwnOf(todo[i + 1].func) \cap Defined = {}
    BY <2>1, <2>2, <2>3, Zenon
  <2> QED
    BY <2>2, <2>4, Zenon
<1>10. \A i, j \in 1 .. Len(todo') :
         todo'[i].do = "func" /\ todo'[j].do = "func" /\ i # j => OwnOf(todo'[i].func) \cap OwnOf(todo'[j].func) = {}
  <2> SUFFICES ASSUME NEW i \in 1 .. Len(todo'), NEW j \in 1 .. Len(todo'),
                      todo'[i].do = "func", todo'[j].do = "func", i # j
               PROVE  OwnOf(todo'[i].func) \cap OwnOf(todo'[j].func) = {}
    OBVIOUS
  <2>1. i + 1 \in 1 .. Len(todo) /\ todo'[i] = todo[i + 1] /\ j + 1 \in 1 .. Len(todo) /\ todo'[j] = todo[j + 1]
    BY <1>8
  <2>2. i + 1 # j + 1
    BY <1>8
  <2> QED
    BY <1>1, <2>1, <2>2
<1> QED
  BY <1>1, <1>2, <1>3, <1>4, <1>6, <1>7, <1>9, <1>10 DEF Unique

LEMMA UniqueAtEnd ==
  ASSUME Typed, InOrder, DataInOrder, Unique, gen_exit
  PROVE  /\ Unique' /\ Pending = {} /\ Pending' = {} /\ Len(todo) = 1 /\ todo' = <<>>
<1> DEFINE T == Tasks(Nodes[functions])
<1>1. /\ todo \in Seq(T) /\ todo # <<>> /\ Task.do = "exit" /\ Then(<<>>) /\ counters' = counters
      /\ status = "generating" /\ status' = "done"
  BY DEF Typed, gen_exit, Doing
<1> HIDE DEF T
<1>2. Len(todo) = 1
  BY <1>1, OnlyFunctionsLeft
<1>3. todo' = <<>>
  BY <1>1, <1>2 DEF Then
<1>4. Placing' = {} /\ Pending' = {}
  BY <1>3 DEF Placing, Pending
<1>5. Placing = {} /\ Pending = {}
  <2>1. \A i \in 1 .. Len(todo) : todo[i].do # "place"
    BY <1>1, <1>2 DEF Task
  <2> QED
    BY <2>1 DEF Placing, Pending
<1>6. /\ \A i, j \in 1 .. Len(labels) : labels[i].label = labels[j].label => i = j
      /\ \A kind \in Kinds : \A label \in Made : label[1] \in NamesOf[kind] => label[2] <= counters[kind]
      /\ \A label \in Made : label[1] \in LocalNames \cup GlobalNames
  BY <1>1 DEF Unique, Defined
<1>7. PICK new \in Seq(Marks) :
        /\ labels' = labels \o new
        /\ \A i \in 1 .. Len(new) : new[i].label[1] \in DataNames \cup {"__exit"}
        /\ \A i, j \in 1 .. Len(new) : new[i].label = new[j].label => i = j
  BY ExitLabels
<1>8. /\ Len(labels') = Len(labels) + Len(new)
      /\ \A i \in 1 .. Len(labels) : labels'[i] = labels[i]
      /\ \A i \in 1 .. Len(new) : labels'[Len(labels) + i] = new[i]
  <2>1. labels \in Seq(Marks) /\ labels' = labels \o new
    BY <1>7 DEF Typed
  <2> QED
    BY <2>1, TwoParts
<1>9. Len(labels) \in Nat /\ Len(new) \in Nat
  BY DEF Typed
<1>10. \A i \in 1 .. Len(labels') :
         \/ i \in 1 .. Len(labels) /\ labels'[i].label = labels[i].label /\ labels'[i].label \in Made
            /\ labels'[i].label[1] \in LocalNames \cup GlobalNames
         \/ i - Len(labels) \in 1 .. Len(new) /\ labels'[i] = new[i - Len(labels)]
            /\ labels'[i].label[1] \in DataNames \cup {"__exit"}
  <2> SUFFICES ASSUME NEW i \in 1 .. Len(labels')
               PROVE  \/ i \in 1 .. Len(labels) /\ labels'[i].label = labels[i].label /\ labels'[i].label \in Made
                         /\ labels'[i].label[1] \in LocalNames \cup GlobalNames
                      \/ i - Len(labels) \in 1 .. Len(new) /\ labels'[i] = new[i - Len(labels)]
                         /\ labels'[i].label[1] \in DataNames \cup {"__exit"}
    OBVIOUS
  <2>1. CASE i \in 1 .. Len(labels)
    <3>1. labels[i].label \in Made
      BY <2>1 DEF Made
    <3> QED
      BY <1>6, <1>8, <2>1, <3>1
  <2>2. CASE i - Len(labels) \in 1 .. Len(new) /\ i = Len(labels) + (i - Len(labels))
    <3>1. labels'[i] = new[i - Len(labels)]
      BY <1>8, <2>2
    <3> QED
      BY <1>7, <2>2, <3>1
  <2> QED
    BY <1>8, <1>9, <2>1, <2>2
<1>11. (LocalNames \cup GlobalNames) \cap (DataNames \cup {"__exit"}) = {}
  BY DEF LocalNames, GlobalNames, DataNames
<1>12. \A i, j \in 1 .. Len(labels') : labels'[i].label = labels'[j].label => i = j
  <2> SUFFICES ASSUME NEW i \in 1 .. Len(labels'), NEW j \in 1 .. Len(labels'), labels'[i].label = labels'[j].label
               PROVE  i = j
    OBVIOUS
  <2>1. CASE i \in 1 .. Len(labels) /\ j \in 1 .. Len(labels)
    BY <1>6, <1>8, <2>1
  <2>2. CASE /\ i - Len(labels) \in 1 .. Len(new) /\ labels'[i] = new[i - Len(labels)]
             /\ j - Len(labels) \in 1 .. Len(new) /\ labels'[j] = new[j - Len(labels)]
    <3>1. i - Len(labels) = j - Len(labels)
      BY <1>7, <2>2
    <3> QED
      BY <1>9, <3>1
  <2> QED
    BY <1>10, <1>11, <2>1, <2>2
<1>13. ASSUME NEW kind \in Kinds, NEW label \in Defined', label[1] \in NamesOf[kind]
       PROVE  label[2] <= counters'[kind]
  <2>1. PICK i \in 1 .. Len(labels') : label = labels'[i].label
    BY <1>4 DEF Defined, Made
  <2>2. label[1] \in LocalNames
    BY <1>13, NameKinds
  <2>3. label \in Made
    BY <1>10, <1>11, <2>1, <2>2
  <2> QED
    BY <1>1, <1>6, <1>13, <2>3
<1>14. (Made \cap Pending = {})'
  BY <1>4
<1>15. \A i \in 1 .. Len(todo') : FALSE
  BY <1>3
<1>16. Unique'
  BY <1>1, <1>4, <1>12, <1>13, <1>14, <1>15 DEF Unique
<1> QED
  BY <1>2, <1>3, <1>4, <1>5, <1>16

LEMMA UniqueInit == Init => Unique
<1> SUFFICES ASSUME Init PROVE Unique
  OBVIOUS
<1>1. /\ functions \in Seq(FuncOf(Nodes[functions])) /\ Len(functions) \in Nat
      /\ \A i, j \in 1 .. Len(functions) :
           \/ functions[i].id = functions[j].id
           \/ Name[functions[i].id] \in EntryNames /\ Name[functions[j].id] \in EntryNames
           => i = j
  BY ProgramsAssumption DEF Init, Analysed
<1>2. todo = [i \in 1 .. Len(functions) |-> Func(functions[i])] \o <<Exit>> /\ labels = <<>>
  BY DEF Init
<1>3. /\ Len(todo) = Len(functions) + 1 /\ todo[Len(functions) + 1] = Exit
      /\ \A i \in 1 .. Len(functions) : todo[i] = Func(functions[i])
  BY <1>1, <1>2
<1>4. Exit.do = "exit" /\ \A f : Func(f).do = "func" /\ Func(f).func = f
  BY DEF Func, Exit
<1>5. \A i \in 1 .. Len(todo) :
        \/ i \in 1 .. Len(functions) /\ todo[i].do = "func" /\ todo[i].func = functions[i]
        \/ todo[i].do = "exit"
  <2>1. \A i \in 1 .. Len(todo) : i \in 1 .. Len(functions) \/ i = Len(functions) + 1
    BY <1>1, <1>3
  <2> QED
    BY <1>3, <1>4, <2>1
<1>6. Placing = {} /\ Pending = {} /\ Made = {} /\ Defined = {}
  <2>1. Placing = {}
    BY <1>5 DEF Placing
  <2>2. Len(labels) = 0
    BY <1>2
  <2>3. 1 .. Len(labels) = {}
    BY <2>2
  <2>4. Made = {}
    BY <2>3 DEF Made
  <2> QED
    BY <2>1, <2>4 DEF Pending, Defined
<1>7. ASSUME NEW i \in 1 .. Len(functions), NEW j \in 1 .. Len(functions), i # j
      PROVE  OwnOf(functions[i]) \cap OwnOf(functions[j]) = {}
  <2>1. /\ functions[i].id # functions[j].id
        /\ ~(IsEntry(functions[i]) /\ IsEntry(functions[j]))
    BY <1>1, <1>7 DEF IsEntry
  <2> QED
    BY <2>1 DEF OwnOf
<1>8. \A i, j \in 1 .. Len(todo) :
        todo[i].do = "func" /\ todo[j].do = "func" /\ i # j => OwnOf(todo[i].func) \cap OwnOf(todo[j].func) = {}
  BY <1>5, <1>7
<1>9. \A i, j \in 1 .. Len(labels) : FALSE
  BY <1>2
<1> QED
  BY <1>6, <1>8, <1>9 DEF Unique

LEMMA UniqueNext == Typed /\ Offsets /\ InOrder /\ DataInOrder /\ Unique /\ [Next]_vars => Unique'
<1> SUFFICES ASSUME Typed, Offsets, InOrder, DataInOrder, Unique, [Next]_vars PROVE Unique'
  OBVIOUS
<1>1. CASE Abort \/ UNCHANGED vars
  <2>1. /\ UNCHANGED <<todo, labels, counters>> /\ (status' = "generating" => status = "generating")
    BY <1>1 DEF Abort, vars
  <2>2. Placing' = Placing /\ Made' = Made /\ Pending' = Pending
    BY <2>1 DEF Placing, Made, Pending
  <2>3. Defined' = Defined
    BY <2>2 DEF Defined
  <2> QED
    BY <2>1, <2>2, <2>3 DEF Unique
<1> QED
  BY <1>1, LabelSteps, UniqueKept, UniquePlaced, UniqueAtEnd

LEMMA UniqueInvariant == Spec => []Unique
<1>1. Init => Unique
  BY UniqueInit
<1>2. Typed /\ Offsets /\ InOrder /\ DataInOrder /\ Unique /\ [Next]_vars => Unique'
  BY UniqueNext
<1> QED
  BY <1>1, <1>2, WalkInvariant, OrderInvariant, DataInvariant, PTL DEF Spec

(* Labels are looked up by name and the first one found is used: no name is  *)
(* defined twice in a program.                                               *)
THEOREM NoLabelTwice == Spec => []LabelsUnique
<1>1. Unique => LabelsUnique
  BY DEF Unique, LabelsUnique
<1> QED
  BY <1>1, UniqueInvariant, PTL

-----------------------------------------------------------------------------
(* What is named is defined. *)

LEMMA StandingGrows ==
  ASSUME functions' = functions, Constants(rodata) \subseteq Constants(rodata')
  PROVE  FuncLabels' = FuncLabels /\ Standing(rodata) \subseteq Standing(rodata)'
<1>1. FuncLabels' = FuncLabels
  BY DEF FuncLabels
<1> QED
  BY <1>1 DEF Standing, Library

LEMMA ResolvedShift ==
  ASSUME Typed, NamesResolved, todo # <<>>, NEW tasks \in Seq(Tasks(Nodes[functions])), Then(tasks),
         functions' = functions, Defined \subseteq Defined', Constants(rodata) \subseteq Constants(rodata'),
         instructions' \in Seq(Code(Known')),
         \A i \in 1 .. Len(tasks) : tasks[i].do = "emit" => tasks[i].code \in Seq(Code(Known')),
         \A i \in 1 .. Len(tasks) : tasks[i].do = "stmt" =>
           \/ \E j \in i + 1 .. Len(tasks) : tasks[j] = Place(EndLabel')
           \/ \E j \in 2 .. Len(todo) : todo[j] = Place(EndLabel'),
         EndLabel' = EndLabel \/ \A i \in 2 .. Len(todo) : todo[i].do # "stmt",
         Task.do = "func" => <<"func", Task.func.id>> \in Defined',
         status' = "done" => Known' \ {<<"__out", 0>>, <<"__in", 0>>} \subseteq Made'
  PROVE  NamesResolved'
<1> DEFINE n == Len(tasks)
           T == Tasks(Nodes[functions])
<1>0. todo \in Seq(T) /\ tasks \in Seq(T)
  BY DEF Typed
<1> HIDE DEF T
<1>1. /\ Len(todo') = n + Len(todo) - 1
      /\ \A i \in 1 .. n : todo'[i] = tasks[i]
      /\ \A i \in 2 .. Len(todo) : todo'[i + n - 1] = todo[i]
      /\ \A i \in 1 .. Len(todo') :
           \/ i <= n /\ todo'[i] = tasks[i]
           \/ i > n /\ i - n + 1 \in 2 .. Len(todo) /\ todo'[i] = todo[i - n + 1]
  BY <1>0, Splice
<1>2. n \in Nat /\ Len(todo) \in Nat /\ Len(todo) >= 1
  BY <1>0
<1>3. /\ \A i \in 1 .. n : tasks[i].do = "emit" => tasks[i].code \in Seq(Code(Known'))
      /\ \A i \in 1 .. n : tasks[i].do = "stmt" =>
           \/ \E j \in i + 1 .. n : tasks[j] = Place(EndLabel')
           \/ \E j \in 2 .. Len(todo) : todo[j] = Place(EndLabel')
  OBVIOUS
<1>4. /\ \A i \in 1 .. Len(todo) : todo[i].do = "emit" => todo[i].code \in Seq(Code(Known))
      /\ \A label \in FuncLabels :
           \/ label \in Defined
           \/ \E i \in 1 .. Len(todo) : todo[i].do = "func" /\ label = <<"func", todo[i].func.id>>
      /\ \A i \in 1 .. Len(todo) :
           todo[i].do = "stmt" => \E j \in i + 1 .. Len(todo) : todo[j] = Place(EndLabel)
  BY DEF NamesResolved
<1> HIDE DEF n
<1>5. Known \subseteq Known' /\ FuncLabels' = FuncLabels
  BY StandingGrows DEF Known
<1>6. Seq(Code(Known)) \subseteq Seq(Code(Known'))
  BY <1>5, CodeMonotone, SeqWider
<1>7. \A i \in 2 .. Len(todo) : i \in 1 .. Len(todo) /\ i + n - 1 \in 1 .. Len(todo')
  BY <1>1, <1>2
<1>8. ASSUME NEW i \in 1 .. Len(todo'), todo'[i].do = "emit"
      PROVE  todo'[i].code \in Seq(Code(Known'))
  <2>1. CASE i <= n /\ todo'[i] = tasks[i]
    <3>1. i \in 1 .. n
      BY <1>2, <2>1
    <3> QED
      BY <1>3, <1>8, <2>1, <3>1
  <2>2. CASE i - n + 1 \in 2 .. Len(todo) /\ todo'[i] = todo[i - n + 1]
    BY <1>4, <1>6, <1>7, <1>8, <2>2
  <2> QED
    BY <1>1, <2>1, <2>2
<1>9. ASSUME NEW label \in FuncLabels
      PROVE  \/ label \in Defined'
             \/ \E i \in 1 .. Len(todo') : todo'[i].do = "func" /\ label = <<"func", todo'[i].func.id>>
  <2> SUFFICES ASSUME NEW i \in 1 .. Len(todo), todo[i].do = "func", label = <<"func", todo[i].func.id>>
               PROVE  \/ label \in Defined'
                      \/ \E k \in 1 .. Len(todo') : todo'[k].do = "func" /\ label = <<"func", todo'[k].func.id>>
    BY <1>4
  <2>1. CASE i = 1
    BY <2>1 DEF Task
  <2>2. CASE i \in 2 .. Len(todo)
    <3>1. i + n - 1 \in 1 .. Len(todo') /\ todo'[i + n - 1] = todo[i]
      BY <1>1, <1>7, <2>2
    <3> QED
      BY <3>1
  <2> QED
    BY <1>2, <2>1, <2>2
<1>10. ASSUME NEW i \in 1 .. Len(todo'), todo'[i].do = "stmt"
       PROVE  \E j \in i + 1 .. Len(todo') : todo'[j] = Place(EndLabel')
  <2>1. CASE i <= n /\ todo'[i] = tasks[i]
    <3>0. i \in 1 .. n /\ i \in Int
      BY <1>2, <2>1
    <3>1. CASE \E j \in i + 1 .. n : tasks[j] = Place(EndLabel')
      <4>1. PICK j \in i + 1 .. n : tasks[j] = Place(EndLabel')
        BY <3>1
      <4>2. j \in 1 .. n /\ j \in i + 1 .. Len(todo')
        BY <1>1, <1>2, <3>0, <4>1
      <4> QED
        BY <1>1, <4>1, <4>2
    <3>2. CASE \E j \in 2 .. Len(todo) : todo[j] = Place(EndLabel')
      <4>1. PICK j \in 2 .. Len(todo) : todo[j] = Place(EndLabel')
        BY <3>2
      <4>2. j + n - 1 \in i + 1 .. Len(todo') /\ todo'[j + n - 1] = todo[j]
        BY <1>1, <1>2, <3>0, <4>1
      <4> QED
        BY <4>1, <4>2
    <3> QED
      BY <1>3, <1>10, <2>1, <3>0, <3>1, <3>2
  <2>2. CASE i > n /\ i - n + 1 \in 2 .. Len(todo) /\ todo'[i] = todo[i - n + 1]
    <3>1. i - n + 1 \in 1 .. Len(todo) /\ todo[i - n + 1].do = "stmt"
      BY <1>7, <1>10, <2>2
    <3>2. EndLabel' = EndLabel
      BY <2>2, <3>1
    <3>3. PICK j \in (i - n + 1) + 1 .. Len(todo) : todo[j] = Place(EndLabel)
      BY <1>4, <3>1
    <3>4. j \in 2 .. Len(todo) /\ j + n - 1 \in i + 1 .. Len(todo')
      BY <1>1, <1>2, <2>2, <3>3
    <3>5. todo'[j + n - 1] = Place(EndLabel')
      BY <1>1, <3>2, <3>3, <3>4
    <3> QED
      BY <3>4, <3>5
  <2> QED
    BY <1>1, <2>1, <2>2
<1> QED
  BY <1>5, <1>8, <1>9, <1>10 DEF NamesResolved

(* A break names the end of the innermost loop, which is still to come.      *)
LEMMA BreakPending ==
  ASSUME Typed, Loops, gen_break
  PROVE  <<".while_end", BreakTarget(while_stack)>> \in Pending
<1> DEFINE m == Len(while_stack)
<1>1. PICK at \in [1 .. m -> Nat] : ClosedAt(at)
  BY DEF Loops
<1>2. m \in 1 .. m /\ todo # <<>> /\ Task.do = "stmt"
  BY DEF gen_break, DoingStmt, Doing, Typed
<1>3. at[m] \in Ends /\ (at[m] > 1 => todo[at[m] - 1] = Place(<<".while_end", while_stack[m]>>))
  BY <1>1, <1>2 DEF ClosedAt
<1>4. at[m] \in 1 .. Len(todo) /\ todo[at[m]].do = "end_while"
  BY <1>3 DEF Ends
<1> HIDE DEF m
<1>5. at[m] > 1
  BY <1>2, <1>4 DEF Task
<1>6. at[m] - 1 \in 1 .. Len(todo)
  BY <1>4, <1>5 DEF Typed
<1>7. at[m] - 1 \in Placing /\ todo[at[m] - 1].label = <<".while_end", while_stack[m]>>
  BY <1>3, <1>5, <1>6, PlaceFields DEF Placing
<1> QED
  BY <1>7 DEF Pending, BreakTarget, m

(* The code of a task that emits. *)
LEMMA EmitFields ==
  ASSUME NEW used, NEW t \in Emits(used)
  PROVE  t.do = "emit" /\ t.code \in Seq(Code(used))
  BY DEF Emits

(* The steps that leave no task. *)
LEMMA ResolvedDropped ==
  ASSUME Typed, NamesResolved, EmitCode \/ gen_rsp \/ EndOfWhile \/ gen_break, Loops
  PROVE  NamesResolved'
<1>1. /\ todo # <<>> /\ Task.do \notin {"place", "exit", "func"} /\ status = "generating"
      /\ Then(<<>>) /\ UNCHANGED <<functions, labels, rodata, status>>
  BY DEF EmitCode, gen_rsp, EndOfWhile, gen_break, DoingStmt, Doing
<1>2. Replaces(<<>>, {})
  BY <1>1, NothingReplaces
<1>3. Defined' = Defined
  <2>1. Defined' = Defined \cup {}
    BY <1>2, ReplacedLabels, Zenon
  <2> QED
    BY <2>1
<1>4. Known' = Known
  BY <1>1, <1>3 DEF Known, Standing, FuncLabels
<1>5. EndLabel' = EndLabel
  <2>1. counters' = counters \/ counters' = [counters EXCEPT !.stack_offset = OffsetAfter(Task.bytes)]
    BY DEF EmitCode, gen_rsp, EndOfWhile, gen_break
  <2> QED
    BY <2>1 DEF EndLabel, Typed, Counters
<1>6. instructions' \in Seq(Code(Known))
  <2>1. instructions \in Seq(Code(Known)) /\ Known \in SUBSET Names /\ ConstFalse \in Known
    BY StandingTypes, DefinedTypes DEF NamesResolved, Known, Typed
  <2>2. CASE EmitCode
    <3>1. Task.code \in Seq(Code(Known))
      <4>1. 1 \in 1 .. Len(todo) /\ todo[1].do = "emit"
        BY <1>1, <2>2 DEF Typed, EmitCode, Doing, Task
      <4> QED
        BY <4>1 DEF NamesResolved, Task
    <3>2. instructions' = instructions \o Task.code
      BY <2>2 DEF EmitCode, instruction_list_push_back
    <3> QED
      BY <2>1, <3>1, <3>2, TwoParts
  <2>3. CASE gen_rsp
    <3> DEFINE move == IF Task.bytes > 0 THEN Instr("sub", rsp, Imm(Task.bytes)) ELSE Instr("add", rsp, Imm(-Task.bytes))
    <3>1. Task \in Tasks(Nodes[functions]) /\ Task.do = "rsp"
      BY <1>1, <2>3 DEF Typed, gen_rsp, Doing, Task
    <3>2. Task.bytes \in Int
      BY <3>1, TaskFields
    <3>3. rsp \in Operands(Known) /\ Imm(Task.bytes) \in Operands(Known) /\ Imm(-Task.bytes) \in Operands(Known)
      BY <2>1, <3>2, CodeTypes, OperandTypes
    <3>4. move \in Code(Known)
      BY <2>1, <3>3, InstructionTypes DEF Mnemonics
    <3>5. instructions' = instructions \o <<move>>
      BY <2>3 DEF gen_rsp, instruction_list_push_back
    <3>6. <<move>> \in Seq(Code(Known))
      BY <3>4
    <3> HIDE DEF move
    <3> QED
      BY <2>1, <3>5, <3>6, TwoParts
  <2>4. CASE EndOfWhile
    BY <2>1, <2>4 DEF EndOfWhile
  <2>5. CASE gen_break
    <3> DEFINE target == <<".while_end", BreakTarget(while_stack)>>
    <3>1. target \in Pending
      BY <2>5, BreakPending
    <3>2. Jump("jmp", target) \in Code(Known)
      <4>1. target \in Known
        BY <3>1 DEF Known, Defined
      <4> HIDE DEF target
      <4> QED
        BY <2>1, <4>1, CodeTypes DEF Mnemonics
    <3>3. instructions' = instructions \o <<Jump("jmp", target)>>
      BY <2>5 DEF gen_break, instruction_list_push_back
    <3>4. <<Jump("jmp", target)>> \in Seq(Code(Known))
      BY <3>2
    <3> HIDE DEF target
    <3> QED
      BY <2>1, <3>3, <3>4, TwoParts
  <2> QED
    BY <2>2, <2>3, <2>4, <2>5
<1>7. <<>> \in Seq(Tasks(Nodes[functions]))
  OBVIOUS
<1>8. \A i \in 1 .. Len(<<>>) : FALSE
  OBVIOUS
<1> QED
  BY <1>1, <1>3, <1>4, <1>5, <1>6, <1>7, <1>8, ResolvedShift

LEMMA ResolvedPlaced ==
  ASSUME Typed, Unique, NamesResolved, PlaceLabel
  PROVE  NamesResolved'
<1>1. /\ todo # <<>> /\ Task.do = "place" /\ status' = "generating" /\ Then(<<>>)
      /\ UNCHANGED <<functions, instructions, rodata, counters>>
  BY DEF PlaceLabel, Doing
<1>2. Defined' = Defined
  BY PlacedLabels DEF Unique
<1>3. Known' = Known /\ EndLabel' = EndLabel
  BY <1>1, <1>2 DEF Known, Standing, FuncLabels, EndLabel
<1>4. instructions' \in Seq(Code(Known'))
  BY <1>1, <1>3 DEF NamesResolved
<1>5. <<>> \in Seq(Tasks(Nodes[functions])) /\ \A i \in 1 .. Len(<<>>) : FALSE
  OBVIOUS
<1> QED
  BY <1>1, <1>2, <1>3, <1>4, <1>5, ResolvedShift

LEMMA ResolvedFunc ==
  ASSUME Typed, InOrder, NamesResolved, gen_func
  PROVE  NamesResolved'
<1> DEFINE N == Nodes[functions]
           own == OwnOf(Task.func)
           S == Stmts(N) \cup Emits(Standing(rodata)) \cup Places(own)
<1>1. /\ Task.do = "func" /\ UNCHANGED <<instructions, rodata>> /\ counters'.func = Task.func.id
      /\ \E tasks : Replaces(tasks, own) /\ FuncBody(Task.func, tasks)
  BY FuncReplaces
<1>2. PICK tasks : Replaces(tasks, own) /\ FuncBody(Task.func, tasks)
  BY <1>1
<1>3. /\ todo # <<>> /\ Then(tasks) /\ tasks \in Seq(Tasks(N)) /\ functions' = functions
      /\ status' = "generating"
  BY <1>2 DEF Replaces
<1>4. Defined' = Defined \cup own
  BY <1>2, ReplacedLabels, Zenon
<1>5. Known \subseteq Known' /\ Standing(rodata) \subseteq Known'
  BY <1>1, <1>3, <1>4 DEF Known, Standing, FuncLabels
<1>6. instructions' \in Seq(Code(Known'))
  <2>1. instructions \in Seq(Code(Known))
    BY DEF NamesResolved
  <2>2. Seq(Code(Known)) \subseteq Seq(Code(Known'))
    BY <1>5, CodeMonotone, SeqWider
  <2> QED
    BY <1>1, <2>1, <2>2
<1>7. tasks \in Seq(S)
      /\ \A i \in 1 .. Len(tasks) :
           tasks[i].do = "stmt" => \E j \in i + 1 .. Len(tasks) : tasks[j] = Place(<<"func_end", Task.func.id>>)
  BY <1>2 DEF FuncBody
<1>8. \A t \in S : t.do = "emit" => t.code \in Seq(Code(Known'))
  <2>1. \A t \in Emits(Standing(rodata)) : t.code \in Seq(Code(Known'))
    <3>1. Seq(Code(Standing(rodata))) \subseteq Seq(Code(Known'))
      BY <1>5, CodeMonotone, SeqWider
    <3> QED
      BY <3>1, EmitFields
  <2>2. \A t \in Stmts(N) \cup Places(own) : t.do # "emit"
    BY DEF Stmts, Places
  <2> HIDE DEF own
  <2> QED
    BY <2>1, <2>2
<1>9. \A i \in 1 .. Len(tasks) : tasks[i].do = "emit" => tasks[i].code \in Seq(Code(Known'))
  <2> HIDE DEF S
  <2> QED
    BY <1>7, <1>8
<1>10. EndLabel' = <<"func_end", Task.func.id>>
  BY <1>1 DEF EndLabel
<1>11. \A i \in 2 .. Len(todo) : todo[i].do # "stmt"
  <2>1. todo \in Seq(Tasks(N))
    BY DEF Typed
  <2>2. \A i \in 1 .. Len(todo) : todo[i].do \in {"func", "exit"}
    BY <1>1, <1>3, <2>1, OnlyFunctionsLeft
  <2>3. \A i \in 2 .. Len(todo) : i \in 1 .. Len(todo)
    OBVIOUS
  <2> QED
    BY <2>2, <2>3
<1>12. <<"func", Task.func.id>> \in Defined'
  BY <1>4 DEF OwnOf
<1>13. Defined \subseteq Defined' /\ Constants(rodata) \subseteq Constants(rodata')
  BY <1>1, <1>4 DEF Constants
<1> HIDE DEF own, S
<1> QED
  BY <1>3, <1>6, <1>7, <1>9, <1>10, <1>11, <1>12, <1>13, ResolvedShift

(* The end of the function in hand is pending while there are statements.    *)
LEMMA EndPending ==
  ASSUME Typed, NamesResolved, Doing("stmt")
  PROVE  EndLabel \in Pending /\ \E j \in 2 .. Len(todo) : todo[j] = Place(EndLabel)
<1>1. 1 \in 1 .. Len(todo) /\ todo[1].do = "stmt" /\ Len(todo) \in Nat
  BY DEF Doing, Task, Typed
<1>2. PICK j \in 1 + 1 .. Len(todo) : todo[j] = Place(EndLabel)
  BY <1>1 DEF NamesResolved
<1>3. j \in 2 .. Len(todo) /\ j \in 1 .. Len(todo)
  BY <1>1
<1>4. j \in Placing /\ todo[j].label = EndLabel
  BY <1>2, <1>3, PlaceFields DEF Placing
<1> QED
  BY <1>2, <1>3, <1>4 DEF Pending

LEMMA ResolvedWalk ==
  ASSUME Typed, NamesResolved, WalkStep
  PROVE  NamesResolved'
<1> DEFINE N == Nodes[functions]
           A == Stmts(N)
           B == Plain(N) \cup Emits(Standing(rodata) \cup {EndLabel})
           C == Plain(N) \cup Emits(Standing(rodata')) \cup Moves
<1>1. PICK tasks : /\ Replaces(tasks, {})
                   /\ \/ Doing("stmt") /\ tasks \in Seq(A)
                      \/ Doing("stmt") /\ tasks \in Seq(B)
                      \/ tasks \in Seq(C)
  BY WalkReplaces
<1>2. /\ todo # <<>> /\ Then(tasks) /\ tasks \in Seq(Tasks(N)) /\ functions' = functions
      /\ status' = "generating"
  BY <1>1 DEF Replaces
<1>3. Defined' = Defined
  <2>1. Defined' = Defined \cup {}
    BY <1>1, ReplacedLabels, Zenon
  <2> QED
    BY <2>1
<1>4. instructions' = instructions /\ Task.do # "func" /\ EndLabel' = EndLabel
  <2>1. counters' = counters \/ counters' = [counters EXCEPT !.const = @ + 1]
    BY DEF WalkStep, NewConstant
  <2> QED
    BY <2>1 DEF WalkStep, Doing, EndLabel, Typed, Counters
<1>5. Constants(rodata) \subseteq Constants(rodata')
  <2>1. CASE rodata' = rodata
    BY <2>1
  <2>2. CASE NewConstant
    <3> DEFINE new == [label |-> <<"const", counters.const>>, value |-> Task.node.num]
    <3>1. rodata' = Append(rodata, new) /\ rodata \in Seq(Constant)
      BY <2>2 DEF NewConstant, Typed
    <3> HIDE DEF new
    <3>2. \A i \in 1 .. Len(rodata) : i \in 1 .. Len(rodata') /\ rodata'[i] = rodata[i]
      BY <3>1
    <3> QED
      BY <3>2 DEF Constants
  <2> QED
    BY <2>1, <2>2 DEF WalkStep
<1>6. Known \subseteq Known' /\ Standing(rodata) \subseteq Known' /\ Standing(rodata') \subseteq Known'
  BY <1>2, <1>3, <1>5 DEF Known, Standing, FuncLabels
<1>7. instructions' \in Seq(Code(Known'))
  <2>1. instructions \in Seq(Code(Known))
    BY DEF NamesResolved
  <2>2. Seq(Code(Known)) \subseteq Seq(Code(Known'))
    BY <1>6, CodeMonotone, SeqWider
  <2> QED
    BY <1>4, <2>1, <2>2
<1>8. \A t \in A : t.do # "emit"
  BY DEF Stmts
<1>9. ASSUME Doing("stmt"), NEW t \in B, t.do = "emit"
      PROVE  t.code \in Seq(Code(Known'))
  <2>1. Standing(rodata) \cup {EndLabel} \subseteq Known'
    BY <1>3, <1>6, <1>9, EndPending DEF Known, Defined
  <2>2. Seq(Code(Standing(rodata) \cup {EndLabel})) \subseteq Seq(Code(Known'))
    BY <2>1, CodeMonotone, SeqWider
  <2>3. t \in Emits(Standing(rodata) \cup {EndLabel})
    BY <1>9 DEF Plain, Exprs, Compares, LibraryCalls
  <2> QED
    BY <2>2, <2>3, EmitFields
<1>10. ASSUME NEW t \in C, t.do = "emit"
       PROVE  t.code \in Seq(Code(Known'))
  <2>1. Seq(Code(Standing(rodata'))) \subseteq Seq(Code(Known'))
    BY <1>6, CodeMonotone, SeqWider
  <2>2. t \in Emits(Standing(rodata'))
    BY <1>10 DEF Plain, Exprs, Compares, LibraryCalls, Moves
  <2> QED
    BY <2>1, <2>2, EmitFields
<1>11. \A t \in B \cup C : t.do # "stmt"
  BY DEF Plain, Exprs, Compares, LibraryCalls, Emits, Moves
<1>12. \A i \in 1 .. Len(tasks) : tasks[i].do = "emit" => tasks[i].code \in Seq(Code(Known'))
  <2> HIDE DEF A, B, C
  <2> QED
    BY <1>1, <1>8, <1>9, <1>10
<1>13. ASSUME NEW i \in 1 .. Len(tasks), tasks[i].do = "stmt"
       PROVE  \E j \in 2 .. Len(todo) : todo[j] = Place(EndLabel')
  <2>1. Doing("stmt")
    <3> HIDE DEF A, B, C
    <3> QED
      BY <1>1, <1>11, <1>13
  <2> QED
    BY <1>4, <2>1, EndPending
<1> HIDE DEF A, B, C
<1> QED
  BY <1>2, <1>3, <1>4, <1>5, <1>7, <1>12, <1>13, ResolvedShift

LEMMA ResolvedConstruct ==
  ASSUME Typed, NamesResolved, NEW kind \in Kinds, ConstructStep(kind)
  PROVE  NamesResolved'
<1> DEFINE N == Nodes[functions]
<1>1. PICK own \in SUBSET Own(NamesOf[kind], counters[kind] + 1) : \E tasks :
        /\ Replaces(tasks, own) /\ Construct(tasks, own)
        /\ Doing("stmt") \/ \A i \in 1 .. Len(tasks) : tasks[i].do # "stmt"
  BY ConstructReplaces
<1>2. PICK tasks :
        /\ Replaces(tasks, own) /\ Construct(tasks, own)
        /\ Doing("stmt") \/ \A i \in 1 .. Len(tasks) : tasks[i].do # "stmt"
  BY <1>1
<1>3. /\ todo # <<>> /\ Then(tasks) /\ tasks \in Seq(Tasks(N)) /\ functions' = functions
      /\ status' = "generating"
  BY <1>2 DEF Replaces
<1>4. Defined' = Defined \cup own
  BY <1>2, ReplacedLabels, Zenon
<1>5. /\ UNCHANGED <<instructions, rodata>> /\ Task.do # "func"
      /\ counters' = [counters EXCEPT ![kind] = @ + 1]
  BY DEF ConstructStep, Doing
<1>6. EndLabel' = EndLabel
  BY <1>5, CounterTypes DEF EndLabel, Typed
<1>7. Known \subseteq Known' /\ Standing(rodata) \cup own \subseteq Known'
  BY <1>3, <1>4, <1>5 DEF Known, Standing, FuncLabels
<1>8. instructions' \in Seq(Code(Known'))
  <2>1. instructions \in Seq(Code(Known))
    BY DEF NamesResolved
  <2>2. Seq(Code(Known)) \subseteq Seq(Code(Known'))
    BY <1>7, CodeMonotone, SeqWider
  <2> QED
    BY <1>5, <2>1, <2>2
<1> DEFINE S == Plain(N) \cup Stmts(N) \cup Moves \cup Closing \cup Emits(Standing(rodata) \cup own) \cup Places(own)
<1>9. tasks \in Seq(S)
  BY <1>2 DEF Construct
<1>10. ASSUME NEW t \in S, t.do = "emit"
       PROVE  t.code \in Seq(Code(Known'))
  <2>1. Seq(Code(Standing(rodata) \cup own)) \subseteq Seq(Code(Known'))
    BY <1>7, CodeMonotone, SeqWider
  <2>2. t \in Emits(Standing(rodata) \cup own)
    BY <1>10 DEF Plain, Exprs, Compares, LibraryCalls, Stmts, Moves, Closing, Places
  <2> QED
    BY <2>1, <2>2, EmitFields
<1>11. \A i \in 1 .. Len(tasks) : tasks[i].do = "emit" => tasks[i].code \in Seq(Code(Known'))
  <2> HIDE DEF S
  <2> QED
    BY <1>9, <1>10
<1>12. \A i \in 1 .. Len(tasks) : tasks[i].do = "stmt" => \E j \in 2 .. Len(todo) : todo[j] = Place(EndLabel')
  BY <1>2, <1>6, EndPending
<1>13. Defined \subseteq Defined' /\ Constants(rodata) \subseteq Constants(rodata')
  BY <1>4, <1>5 DEF Constants
<1> HIDE DEF S
<1> QED
  BY <1>3, <1>5, <1>6, <1>8, <1>11, <1>12, <1>13, ResolvedShift

LEMMA ResolvedAtEnd ==
  ASSUME Typed, InOrder, DataInOrder, Unique, NamesResolved, gen_exit
  PROVE  NamesResolved'
<1>1. /\ todo # <<>> /\ Task.do = "exit" /\ Then(<<>>) /\ UNCHANGED <<functions, rodata, counters>>
      /\ status' = "done"
  BY DEF gen_exit, Doing
<1>2. Pending = {} /\ Pending' = {} /\ Len(todo) = 1
  BY UniqueAtEnd
<1>3. PICK new \in Seq(Marks) :
        /\ labels' = labels \o new
        /\ <<"__exit", 0>> \in {new[i].label : i \in 1 .. Len(new)}
        /\ {ConstTrue, ConstFalse} \cup Constants(rodata) \subseteq {new[i].label : i \in 1 .. Len(new)}
  BY ExitLabels
<1>4. Made' = Made \cup {new[i].label : i \in 1 .. Len(new)}
  <2>1. /\ Len(labels') = Len(labels) + Len(new)
        /\ \A i \in 1 .. Len(labels) : labels'[i] = labels[i]
        /\ \A i \in 1 .. Len(new) : labels'[Len(labels) + i] = new[i]
    <3>1. labels \in Seq(Marks) /\ labels' = labels \o new
      BY <1>3 DEF Typed
    <3> QED
      BY <3>1, TwoParts
  <2>2. Len(labels) \in Nat /\ Len(new) \in Nat
    BY DEF Typed
  <2>3. ASSUME NEW i \in 1 .. Len(labels')
        PROVE  labels'[i].label \in Made \cup {new[k].label : k \in 1 .. Len(new)}
    <3>1. i \in 1 .. Len(labels) \/ (i - Len(labels) \in 1 .. Len(new) /\ i = Len(labels) + (i - Len(labels)))
      BY <2>1, <2>2
    <3>2. CASE i \in 1 .. Len(labels)
      BY <2>1, <3>2 DEF Made
    <3>3. CASE i - Len(labels) \in 1 .. Len(new) /\ i = Len(labels) + (i - Len(labels))
      <4>1. labels'[i] = new[i - Len(labels)]
        BY <2>1, <3>3
      <4> QED
        BY <3>3, <4>1
    <3> QED
      BY <3>1, <3>2, <3>3
  <2>4. ASSUME NEW i \in 1 .. Len(labels)
        PROVE  labels[i].label \in Made'
    <3>1. i \in 1 .. Len(labels')
      BY <2>1, <2>2
    <3> QED
      BY <2>1, <3>1 DEF Made
  <2>5. ASSUME NEW i \in 1 .. Len(new)
        PROVE  new[i].label \in Made'
    <3>1. Len(labels) + i \in 1 .. Len(labels')
      BY <2>1, <2>2
    <3> QED
      BY <2>1, <3>1 DEF Made
  <2>6. Made' \subseteq Made \cup {new[k].label : k \in 1 .. Len(new)}
    BY <2>3 DEF Made
  <2>7. Made \subseteq Made'
    BY <2>4 DEF Made
  <2> QED
    BY <2>5, <2>6, <2>7
<1>5. Defined = Made /\ Defined' = Made' /\ Made \subseteq Made'
  BY <1>2, <1>4 DEF Defined
<1>6. Known \subseteq Known' /\ EndLabel' = EndLabel
  BY <1>1, <1>5 DEF Known, Standing, FuncLabels, EndLabel
<1>7. instructions' \in Seq(Code(Known'))
  <2>1. PICK code \in Seq(Code({})) : instructions' = instructions \o code
    BY ExitTypes
  <2>2. Seq(Code(Known)) \subseteq Seq(Code(Known')) /\ Seq(Code({})) \subseteq Seq(Code(Known'))
    BY <1>6, CodeMonotone, SeqWider
  <2>3. instructions \in Seq(Code(Known')) /\ code \in Seq(Code(Known'))
    BY <2>2 DEF NamesResolved
  <2> QED
    BY <2>1, <2>3, TwoParts
<1>8. FuncLabels \subseteq Made'
  <2> SUFFICES ASSUME NEW label \in FuncLabels PROVE label \in Made
    BY <1>5
  <2>1. \A i \in 1 .. Len(todo) : todo[i].do # "func"
    BY <1>1, <1>2 DEF Task
  <2> QED
    BY <1>5, <2>1 DEF NamesResolved
<1>9. Known' \ {<<"__out", 0>>, <<"__in", 0>>} \subseteq Made'
  <2>1. FuncLabels' = FuncLabels /\ Standing(rodata)' = Standing(rodata)
    BY <1>1 DEF Standing, FuncLabels
  <2> QED
    BY <1>3, <1>4, <1>5, <1>8, <2>1 DEF Known, Standing, Library
<1>10. <<>> \in Seq(Tasks(Nodes[functions])) /\ \A i \in 1 .. Len(<<>>) : FALSE
  OBVIOUS
<1>11. Constants(rodata) \subseteq Constants(rodata')
  BY <1>1
<1> QED
  BY <1>1, <1>5, <1>6, <1>7, <1>9, <1>10, <1>11, ResolvedShift

LEMMA ResolvedInit == Init => NamesResolved
<1> SUFFICES ASSUME Init PROVE NamesResolved
  OBVIOUS
<1>1. functions \in Seq(FuncOf(Nodes[functions])) /\ Len(functions) \in Nat
  BY ProgramsAssumption DEF Init, Analysed
<1>2. todo = [i \in 1 .. Len(functions) |-> Func(functions[i])] \o <<Exit>> /\ instructions = <<>>
      /\ status = "generating"
  BY DEF Init
<1>3. /\ Len(todo) = Len(functions) + 1 /\ todo[Len(functions) + 1] = Exit
      /\ \A i \in 1 .. Len(functions) : todo[i] = Func(functions[i])
  BY <1>1, <1>2
<1>4. Exit.do = "exit" /\ \A f : Func(f).do = "func" /\ Func(f).func = f
  BY DEF Func, Exit
<1>5. \A i \in 1 .. Len(todo) : todo[i].do \notin {"stmt", "emit"}
  <2>1. \A i \in 1 .. Len(todo) : i \in 1 .. Len(functions) \/ i = Len(functions) + 1
    BY <1>1, <1>3
  <2> QED
    BY <1>3, <1>4, <2>1
<1>6. ASSUME NEW i \in 1 .. Len(functions)
      PROVE  i \in 1 .. Len(todo) /\ todo[i].do = "func" /\ todo[i].func.id = functions[i].id
  <2>1. i \in 1 .. Len(todo)
    BY <1>1, <1>3
  <2> QED
    BY <1>3, <1>4, <2>1
<1>7. \A label \in FuncLabels :
        \E i \in 1 .. Len(todo) : todo[i].do = "func" /\ label = <<"func", todo[i].func.id>>
  BY <1>6 DEF FuncLabels
<1>8. instructions \in Seq(Code(Known))
  BY <1>2
<1> QED
  BY <1>2, <1>5, <1>7, <1>8 DEF NamesResolved

LEMMA ResolvedNext ==
  Typed /\ Offsets /\ Loops /\ InOrder /\ DataInOrder /\ Unique /\ NamesResolved /\ [Next]_vars => NamesResolved'
<1> SUFFICES ASSUME Typed, Offsets, Loops, InOrder, DataInOrder, Unique, NamesResolved, [Next]_vars PROVE NamesResolved'
  OBVIOUS
<1>1. CASE Abort \/ UNCHANGED vars
  <2>1. /\ UNCHANGED <<functions, todo, instructions, labels, rodata, counters>>
        /\ status' = "done" => status = "done"
    BY <1>1 DEF Abort, vars
  <2>2. Made' = Made /\ Pending' = Pending /\ FuncLabels' = FuncLabels /\ EndLabel' = EndLabel
    BY <2>1 DEF Placing, Made, Pending, FuncLabels, EndLabel
  <2>3. Defined' = Defined /\ Known' = Known
    BY <2>1, <2>2 DEF Defined, Known, Standing
  <2> QED
    BY <2>1, <2>2, <2>3 DEF NamesResolved
<1> QED
  BY <1>1, StepCases, ResolvedDropped, ResolvedPlaced, ResolvedFunc, ResolvedWalk, ResolvedConstruct, ResolvedAtEnd

LEMMA ResolvedInvariant == Spec => []NamesResolved
BY ResolvedInit, ResolvedNext, WalkInvariant, LoopsInvariant, OrderInvariant, DataInvariant, UniqueInvariant, PTL DEF Spec

(* Every jump, call and constant names a label that exists, except the two   *)
(* functions of the library.                                                 *)
THEOREM EveryLabelExists == Spec => []LabelsResolve
<1>1. ASSUME Typed, NamesResolved
      PROVE  LabelsResolve
  <2> SUFFICES ASSUME status = "done", NEW o \in References
               PROVE  \/ o.l \in {"__out", "__in"}
                      \/ \E i \in 1 .. Len(labels) : labels[i].label = <<o.l, o.v>>
    BY DEF LabelsResolve
  <2>1. PICK i \in 1 .. Len(instructions) : o = instructions[i].dst \/ o = instructions[i].src
    BY DEF References
  <2>2. instructions[i] \in Code(Known)
    BY <1>1, <2>1 DEF NamesResolved
  <2>3. o \in Operands(Known)
    BY <2>1, <2>2 DEF Code
  <2>4. <<o.l, o.v>> \in Known
    BY <2>3 DEF Operands, References, LabelOf
  <2>5. CASE o.l \notin {"__out", "__in"}
    <3>1. <<o.l, o.v>> \in Made
      BY <1>1, <2>4, <2>5 DEF NamesResolved
    <3> QED
      BY <3>1 DEF Made
  <2> QED
    BY <2>5
<1> QED
  BY <1>1, ResolvedInvariant, WalkInvariant, PTL

-----------------------------------------------------------------------------
(* Jumps to local labels stay in their function. *)

(* An instruction that names a local label names one of those it may. *)
LEMMA LocalTarget ==
  ASSUME NEW used, NEW c \in Code(used), c.dst.l \in LocalNames
  PROVE  LabelOf(c.dst) \in used /\ LabelOf(c.dst)[1] = c.dst.l
<1>1. c.dst \in Operands(used)
  BY DEF Code
<1>2. RegisterNames \cap LocalNames = {}
  BY DEF RegisterNames, LocalNames
<1>3. c.dst.k \in Named
  BY <1>1, <1>2 DEF Operands
<1> QED
  BY <1>1, <1>3 DEF Operands, LabelOf

LEMMA StandingNotLocal ==
  ASSUME NEW data, data[1].label = ConstTrue, data[2].label = ConstFalse,
         \A i \in 3 .. Len(data) : data[i].label = <<"const", i - 3>>
  PROVE  \A label \in Standing(data) \cup {EndLabel} : label[1] \notin LocalNames
<1> DEFINE Others == DataNames \cup GlobalNames \cup {"__exit", "__out", "__in"}
<1>1. Others \cap LocalNames = {}
  BY DEF DataNames, GlobalNames, LocalNames
<1>2. \A label \in {ConstTrue, ConstFalse, EndLabel} \cup Library \cup FuncLabels : label[1] \in Others
  BY DEF ConstTrue, ConstFalse, EndLabel, Library, FuncLabels, DataNames, GlobalNames
<1>3. ASSUME NEW i \in 1 .. Len(data)
      PROVE  data[i].label[1] \in Others
  <2>1. CASE i = 1 \/ i = 2
    BY <2>1 DEF ConstTrue, ConstFalse, DataNames
  <2>2. CASE i \in 3 .. Len(data)
    <3>1. data[i].label = <<"const", i - 3>>
      BY <2>2
    <3> QED
      BY <3>1 DEF DataNames
  <2> QED
    BY <2>1, <2>2
<1> QED
  BY <1>1, <1>2, <1>3 DEF Standing, Constants

LEMMA DataNotLocal ==
  ASSUME DataInOrder
  PROVE  \A label \in Standing(rodata) \cup {EndLabel} : label[1] \notin LocalNames
<1>1. rodata[1].label = ConstTrue /\ rodata[2].label = ConstFalse
      /\ \A i \in 3 .. Len(rodata) : rodata[i].label = <<"const", i - 3>>
  BY DEF DataInOrder
<1> QED
  BY <1>1, StandingNotLocal

(* No instruction names a label that is new. *)
LEMMA OwnUnused ==
  ASSUME Typed, DataInOrder, Unique, NamesResolved, NEW own, NEW tasks, Replaces(tasks, own), Fresh(own),
         NEW i \in 1 .. Len(instructions), instructions[i].dst.l \in LocalNames
  PROVE  LabelOf(instructions[i].dst) \notin own
<1>1. instructions[i] \in Code(Known)
  BY DEF NamesResolved
<1>2. LabelOf(instructions[i].dst) \in Known /\ LabelOf(instructions[i].dst)[1] \in LocalNames
  BY <1>1, LocalTarget
<1>3. LabelOf(instructions[i].dst) \in Defined
  BY <1>2, DataNotLocal DEF Known
<1> QED
  BY <1>3, FreshNotDefined

LEMMA RegionKept ==
  ASSUME Typed, Bounds, DataInOrder, Unique, NamesResolved, InRegion,
         NEW own, NEW tasks, Replaces(tasks, own), Fresh(own),
         NEW code \in Seq(Code(Names)), instructions' = instructions \o code, Fits(code),
         \A i \in 1 .. Len(tasks) : tasks[i].do = "emit" => Fits(tasks[i].code),
         \/ \A i \in 1 .. Len(tasks) : ~Opens(tasks[i])
         \/ (\A i \in 1 .. Len(tasks) : ~Local(tasks[i])) /\ (\A i \in 2 .. Len(todo) : ~Local(todo[i]))
  PROVE  InRegion'
<1> DEFINE n == Len(tasks)
           T == Tasks(Nodes[functions])
<1>0. todo \in Seq(T) /\ tasks \in Seq(T) /\ todo # <<>> /\ Then(tasks) /\ labels' = labels
  BY DEF Replaces, Typed
<1> HIDE DEF T
<1>1. /\ Len(todo') = n + Len(todo) - 1
      /\ \A i \in 1 .. Len(todo') :
           \/ i <= n /\ todo'[i] = tasks[i]
           \/ i > n /\ i - n + 1 \in 2 .. Len(todo) /\ todo'[i] = todo[i - n + 1]
  BY <1>0, Splice
<1>2. n \in Nat /\ Len(todo) \in Nat /\ Len(todo) >= 1
  BY <1>0
<1>3. /\ \A i \in 1 .. n : tasks[i].do = "emit" => Fits(tasks[i].code)
      /\ \/ \A i \in 1 .. n : ~Opens(tasks[i])
         \/ (\A i \in 1 .. n : ~Local(tasks[i])) /\ (\A i \in 2 .. Len(todo) : ~Local(todo[i]))
  OBVIOUS
<1>4. /\ \A i, j \in 1 .. Len(todo) : i < j /\ Local(todo[j]) => ~Opens(todo[i])
      /\ \A i \in 1 .. Len(instructions) : instructions[i].dst.l \in LocalNames =>
           /\ \A j \in 1 .. Len(labels) :
                labels[j].label = LabelOf(instructions[i].dst) => Within(j) = FunctionAt(Emitted(i))
           /\ LabelOf(instructions[i].dst) \in Pending => Here = FunctionAt(Emitted(i))
      /\ \A p \in 1 .. Len(todo) : todo[p].do = "emit" => Fits(todo[p].code)
  BY DEF InRegion
<1> HIDE DEF n
<1>5. /\ \A j : Within(j)' = Within(j)
      /\ \A i : FunctionAt(Emitted(i))' = FunctionAt(Emitted(i))
      /\ Here' = Here
  BY <1>0 DEF Within, FunctionAt, Global, Emitted, Here
<1>6. \A c : Fits(c)' <=> Fits(c)
  BY <1>0, <1>5 DEF Fits
<1>7. \A i \in 1 .. Len(todo') :
        \/ i \in 1 .. n /\ todo'[i] = tasks[i]
        \/ i > n /\ i - n + 1 \in 2 .. Len(todo) /\ i - n + 1 \in 1 .. Len(todo) /\ todo'[i] = todo[i - n + 1]
  BY <1>1, <1>2
<1>8. ASSUME NEW i \in 1 .. Len(todo'), NEW j \in 1 .. Len(todo'), i < j, Local(todo'[j]), Opens(todo'[i])
      PROVE  FALSE
  <2>1. CASE i \in 1 .. n /\ todo'[i] = tasks[i]
    <3>1. (\A k \in 1 .. n : ~Local(tasks[k])) /\ (\A k \in 2 .. Len(todo) : ~Local(todo[k]))
      BY <1>3, <1>8, <2>1
    <3> QED
      BY <1>7, <1>8, <3>1
  <2>2. CASE i > n /\ i - n + 1 \in 2 .. Len(todo) /\ i - n + 1 \in 1 .. Len(todo) /\ todo'[i] = todo[i - n + 1]
    <3>1. ~(j \in 1 .. n)
      BY <1>2, <1>8, <2>2
    <3>2. j - n + 1 \in 1 .. Len(todo) /\ todo'[j] = todo[j - n + 1]
      BY <1>7, <3>1
    <3>3. i - n + 1 < j - n + 1
      BY <1>2, <1>8, <2>2
    <3> QED
      BY <1>4, <1>8, <2>2, <3>2, <3>3
  <2> QED
    BY <1>7, <2>1, <2>2
<1>9. ASSUME NEW p \in 1 .. Len(todo'), todo'[p].do = "emit"
      PROVE  Fits(todo'[p].code)
  BY <1>3, <1>4, <1>7, <1>9
<1>10. /\ Len(instructions') = Len(instructions) + Len(code)
       /\ \A i \in 1 .. Len(instructions) : instructions'[i] = instructions[i]
       /\ \A i \in 1 .. Len(code) : instructions'[Len(instructions) + i] = code[i]
  <2>1. instructions \in Seq(Code(Names)) /\ code \in Seq(Code(Names)) /\ instructions' = instructions \o code
    BY DEF Typed
  <2> QED
    BY <2>1, TwoParts
<1>11. Len(instructions) \in Nat /\ Len(code) \in Nat
  BY DEF Typed
<1>12. Pending' = Pending \cup own
  BY ReplacedLabels
<1>13. ASSUME NEW i \in 1 .. Len(instructions'), instructions'[i].dst.l \in LocalNames
       PROVE  /\ \A j \in 1 .. Len(labels) :
                   labels[j].label = LabelOf(instructions'[i].dst) => Within(j) = FunctionAt(Emitted(i))
              /\ LabelOf(instructions'[i].dst) \in Pending' => Here = FunctionAt(Emitted(i))
  <2>1. CASE i \in 1 .. Len(instructions)
    <3>1. instructions'[i] = instructions[i]
      BY <1>10, <2>1
    <3>2. LabelOf(instructions[i].dst) \notin own
      BY <1>13, <2>1, <3>1, OwnUnused
    <3> QED
      BY <1>4, <1>12, <1>13, <2>1, <3>1, <3>2
  <2>2. CASE i - Len(instructions) \in 1 .. Len(code) /\ i = Len(instructions) + (i - Len(instructions))
    <3>1. instructions'[i] = code[i - Len(instructions)]
      BY <1>10, <2>2
    <3>2. Emitted(i) = 1 .. Len(labels)
      <4>1. \A k \in 1 .. Len(labels) : labels[k].index \in 0 .. Len(instructions)
        BY DEF Bounds
      <4>2. \A k \in 1 .. Len(labels) : labels[k].index < i
        BY <1>11, <2>2, <4>1
      <4> QED
        BY <4>2 DEF Emitted
    <3>3. FunctionAt(Emitted(i)) = Here
      BY <3>2 DEF Here, Within
    <3> QED
      BY <1>13, <2>2, <3>1, <3>3 DEF Fits
  <2> QED
    BY <1>10, <1>11, <2>1, <2>2
<1>14. (\A i, j \in 1 .. Len(todo) : i < j /\ Local(todo[j]) => ~Opens(todo[i]))'
  BY <1>8 DEF Local, Opens
<1>15. (\A i \in 1 .. Len(instructions) : instructions[i].dst.l \in LocalNames =>
          /\ \A j \in 1 .. Len(labels) :
               labels[j].label = LabelOf(instructions[i].dst) => Within(j) = FunctionAt(Emitted(i))
          /\ LabelOf(instructions[i].dst) \in Pending => Here = FunctionAt(Emitted(i)))'
  <2>1. labels' = labels
    BY <1>0
  <2> QED
    BY <1>5, <1>13, <2>1
<1>16. (\A p \in 1 .. Len(todo) : todo[p].do = "emit" => Fits(todo[p].code))'
  BY <1>6, <1>9
<1> QED
  BY <1>14, <1>15, <1>16 DEF InRegion

(* Code fits that names no local label that is placed already. *)
LEMMA NothingToFit ==
  ASSUME NEW used, NEW code \in Seq(Code(used)),
         \A label \in used : label[1] \in LocalNames => label \notin Made
  PROVE  Fits(code)
<1> SUFFICES ASSUME NEW q \in 1 .. Len(code), code[q].dst.l \in LocalNames, NEW j \in 1 .. Len(labels),
                    labels[j].label = LabelOf(code[q].dst)
             PROVE  FALSE
  BY DEF Fits
<1>1. code[q] \in Code(used)
  OBVIOUS
<1>2. LabelOf(code[q].dst) \in used /\ LabelOf(code[q].dst)[1] \in LocalNames
  BY <1>1, LocalTarget
<1>3. labels[j].label \in Made
  BY DEF Made
<1> QED
  BY <1>2, <1>3

LEMMA RegionDropped ==
  ASSUME Typed, Bounds, Loops, DataInOrder, Unique, NamesResolved, InRegion,
         EmitCode \/ gen_rsp \/ EndOfWhile \/ gen_break
  PROVE  InRegion'
<1>1. /\ todo # <<>> /\ Task.do \notin {"place", "exit", "func"} /\ status = "generating"
      /\ Then(<<>>) /\ UNCHANGED <<functions, labels, status>>
  BY DEF EmitCode, gen_rsp, EndOfWhile, gen_break, DoingStmt, Doing
<1>2. Replaces(<<>>, {})
  BY <1>1, NothingReplaces
<1>3. Fresh({})
  <2>1. counters' = counters \/ counters' = [counters EXCEPT !.stack_offset = OffsetAfter(Task.bytes)]
    BY DEF EmitCode, gen_rsp, EndOfWhile, gen_break
  <2>2. NumbersKept
    BY <2>1 DEF NumbersKept, Kinds, Typed, Counters
  <2> QED
    BY <1>1, <2>2 DEF Fresh
<1>4. \E code \in Seq(Code(Names)) : instructions' = instructions \o code /\ Fits(code)
  <2>1. CASE EmitCode
    <3>1. 1 \in 1 .. Len(todo) /\ todo[1].do = "emit" /\ Task = todo[1] /\ todo[1] \in Tasks(Nodes[functions])
      BY <1>1, <2>1 DEF Typed, EmitCode, Doing, Task
    <3>2. Task.code \in Seq(Code(Names))
      BY <3>1, TaskFields
    <3>3. Fits(Task.code)
      BY <3>1 DEF InRegion
    <3>4. instructions' = instructions \o Task.code
      BY <2>1 DEF EmitCode, instruction_list_push_back
    <3> QED
      BY <3>2, <3>3, <3>4
  <2>2. CASE gen_rsp
    <3> DEFINE move == IF Task.bytes > 0 THEN Instr("sub", rsp, Imm(Task.bytes)) ELSE Instr("add", rsp, Imm(-Task.bytes))
               used == {ConstFalse}
    <3>1. Task \in Tasks(Nodes[functions]) /\ Task.do = "rsp"
      BY <1>1, <2>2 DEF Typed, gen_rsp, Doing, Task
    <3>2. Task.bytes \in Int /\ -Task.bytes \in Int
      BY <3>1, TaskFields
    <3>3. used \in SUBSET Names /\ used \subseteq Names /\ ConstFalse \in used
          /\ \A label \in used : label[1] \notin LocalNames
      BY DEF ConstFalse, Names, LabelNames, DataNames, LocalNames
    <3> HIDE DEF used
    <3>4. rsp \in Operands(used) /\ Imm(Task.bytes) \in Operands(used) /\ Imm(-Task.bytes) \in Operands(used)
      BY <3>2, <3>3, CodeTypes, OperandTypes
    <3>5. move \in Code(used)
      BY <3>3, <3>4, InstructionTypes DEF Mnemonics
    <3>6. instructions' = instructions \o <<move>>
      BY <2>2 DEF gen_rsp, instruction_list_push_back
    <3> HIDE DEF move
    <3>7. <<move>> \in Seq(Code(used))
      BY <3>5
    <3>8. Fits(<<move>>)
      BY <3>3, <3>7, NothingToFit
    <3>9. Seq(Code(used)) \subseteq Seq(Code(Names))
      BY <3>3, CodeMonotone, SeqWider
    <3> QED
      BY <3>6, <3>7, <3>8, <3>9
  <2>3. CASE EndOfWhile
    <3>1. instructions \in Seq(Code(Names)) /\ instructions' = instructions
      BY <2>3 DEF Typed, EndOfWhile
    <3>2. <<>> \in Seq(Code(Names)) /\ instructions' = instructions \o <<>>
      BY <3>1
    <3>3. Fits(<<>>)
      BY DEF Fits
    <3> QED
      BY <3>2, <3>3
  <2>4. CASE gen_break
    <3> DEFINE target == <<".while_end", BreakTarget(while_stack)>>
               used == {target, ConstFalse}
    <3>1. target \in Pending
      BY <2>4, BreakPending
    <3>2. target \notin Made /\ target \in Names
      BY <3>1, DefinedTypes DEF Unique
    <3>3. ConstFalse \in Names /\ ConstFalse[1] \notin LocalNames
      BY DEF ConstFalse, Names, LabelNames, DataNames, LocalNames
    <3>4. instructions' = instructions \o <<Jump("jmp", target)>>
      BY <2>4 DEF gen_break, instruction_list_push_back
    <3> HIDE DEF target
    <3>5. used \in SUBSET Names /\ used \subseteq Names /\ target \in used /\ ConstFalse \in used
      BY <3>2, <3>3
    <3>6. Jump("jmp", target) \in Code(used)
      BY <3>5, CodeTypes DEF Mnemonics
    <3>7. <<Jump("jmp", target)>> \in Seq(Code(used))
      BY <3>6
    <3>8. \A label \in used : label[1] \in LocalNames => label \notin Made
      BY <3>2, <3>3
    <3> HIDE DEF used
    <3>9. Fits(<<Jump("jmp", target)>>)
      BY <3>7, <3>8, NothingToFit
    <3>10. Seq(Code(used)) \subseteq Seq(Code(Names))
      BY <3>5, CodeMonotone, SeqWider
    <3> QED
      BY <3>4, <3>7, <3>9, <3>10
  <2> QED
    BY <2>1, <2>2, <2>3, <2>4
<1>5. <<>> \in Seq(Tasks(Nodes[functions])) /\ \A i \in 1 .. Len(<<>>) : FALSE
  OBVIOUS
<1> QED
  BY <1>2, <1>3, <1>4, <1>5, RegionKept

LEMMA RegionWalk ==
  ASSUME Typed, Bounds, DataInOrder, DataInOrder', Unique, NamesResolved, InRegion, WalkStep
  PROVE  InRegion'
<1> DEFINE N == Nodes[functions]
           A == Stmts(N)
           B == Plain(N) \cup Emits(Standing(rodata) \cup {EndLabel})
           C == Plain(N) \cup Emits(Standing(rodata')) \cup Moves
           S == A \cup B \cup C
<1>1. PICK tasks : /\ Replaces(tasks, {}) /\ Fresh({})
                   /\ \/ Doing("stmt") /\ tasks \in Seq(A)
                      \/ Doing("stmt") /\ tasks \in Seq(B)
                      \/ tasks \in Seq(C)
  BY WalkReplaces
<1>2. tasks \in Seq(S)
  <2>1. A \subseteq S /\ B \subseteq S /\ C \subseteq S
    OBVIOUS
  <2> HIDE DEF A, B, C, S
  <2> QED
    BY <1>1, <2>1, SeqWider
<1>3. /\ \A label \in Standing(rodata) \cup {EndLabel} : label[1] \notin LocalNames
      /\ \A label \in Standing(rodata') : label[1] \notin LocalNames
  <2>1. rodata'[1].label = ConstTrue /\ rodata'[2].label = ConstFalse
        /\ \A i \in 3 .. Len(rodata') : rodata'[i].label = <<"const", i - 3>>
    BY DEF DataInOrder
  <2>2. \A label \in Standing(rodata') \cup {EndLabel} : label[1] \notin LocalNames
    BY <2>1, StandingNotLocal
  <2> QED
    BY <2>2, DataNotLocal
<1>4. \A t \in S : t.do # "place" /\ (t.do = "emit" => Fits(t.code))
  <2>1. \A t \in Emits(Standing(rodata) \cup {EndLabel}) \cup Emits(Standing(rodata')) :
          t.do = "emit" /\ Fits(t.code)
    BY <1>3, EmitFields, NothingToFit
  <2>2. \A t \in A \cup Plain(N) \cup Moves : t.do \notin {"place", "emit"}
    BY DEF Stmts, Plain, Exprs, Compares, LibraryCalls, Moves
  <2> QED
    BY <2>1, <2>2
<1>5. \A i \in 1 .. Len(tasks) : ~Opens(tasks[i]) /\ (tasks[i].do = "emit" => Fits(tasks[i].code))
  <2> HIDE DEF S
  <2> QED
    BY <1>2, <1>4 DEF Opens
<1>6. <<>> \in Seq(Code(Names)) /\ instructions' = instructions \o <<>> /\ Fits(<<>>)
  BY DEF Typed, WalkStep, Fits
<1> QED
  BY <1>1, <1>5, <1>6, RegionKept

LEMMA RegionConstruct ==
  ASSUME Typed, Bounds, DataInOrder, Unique, NamesResolved, InRegion, NEW kind \in Kinds, ConstructStep(kind)
  PROVE  InRegion'
<1> DEFINE N == Nodes[functions]
<1>1. PICK own \in SUBSET Own(NamesOf[kind], counters[kind] + 1) : \E tasks :
        Replaces(tasks, own) /\ Fresh(own) /\ Construct(tasks, own)
  BY ConstructReplaces
<1>2. PICK tasks : Replaces(tasks, own) /\ Fresh(own) /\ Construct(tasks, own)
  BY <1>1
<1> DEFINE S == Plain(N) \cup Stmts(N) \cup Moves \cup Closing \cup Emits(Standing(rodata) \cup own) \cup Places(own)
<1>3. tasks \in Seq(S)
  BY <1>2 DEF Construct
<1>4. \A label \in own : label[1] \in LocalNames /\ label \notin Made
  <2>1. \A label \in own : label[1] \in NamesOf[kind]
    BY NameKinds
  <2>2. own \cap Defined = {}
    BY <1>2, FreshNotDefined
  <2> QED
    BY <2>1, <2>2, NameKinds DEF Defined
<1>5. \A t \in Emits(Standing(rodata) \cup own) : t.do = "emit" /\ Fits(t.code)
  <2>1. \A label \in Standing(rodata) \cup own : label[1] \in LocalNames => label \notin Made
    BY <1>4, DataNotLocal
  <2> QED
    BY <2>1, EmitFields, NothingToFit
<1>6. \A t \in S : (t.do = "place" => t.label[1] \in LocalNames) /\ (t.do = "emit" => Fits(t.code))
  <2>1. \A t \in Plain(N) \cup Stmts(N) \cup Moves \cup Closing : t.do \notin {"place", "emit"}
    BY DEF Stmts, Plain, Exprs, Compares, LibraryCalls, Moves, Closing
  <2>2. \A t \in Places(own) : t.do = "place" /\ t.label \in own
    BY DEF Places
  <2> QED
    BY <1>4, <1>5, <2>1, <2>2
<1>7. \A i \in 1 .. Len(tasks) : ~Opens(tasks[i]) /\ (tasks[i].do = "emit" => Fits(tasks[i].code))
  <2> HIDE DEF S
  <2> QED
    BY <1>3, <1>6 DEF Opens
<1>8. <<>> \in Seq(Code(Names)) /\ instructions' = instructions \o <<>> /\ Fits(<<>>)
  BY DEF Typed, ConstructStep, Fits
<1> QED
  BY <1>2, <1>7, <1>8, RegionKept

LEMMA RegionFunc ==
  ASSUME Typed, Bounds, InOrder, DataInOrder, Unique, NamesResolved, InRegion, gen_func
  PROVE  InRegion'
<1> DEFINE N == Nodes[functions]
           own == OwnOf(Task.func)
           S == Stmts(N) \cup Emits(Standing(rodata)) \cup Places(own)
<1>1. /\ Task.do = "func" /\ instructions' = instructions
      /\ \E tasks : Replaces(tasks, own) /\ Fresh(own) /\ FuncBody(Task.func, tasks)
  BY FuncReplaces
<1>2. PICK tasks : Replaces(tasks, own) /\ Fresh(own) /\ FuncBody(Task.func, tasks)
  BY <1>1
<1>3. tasks \in Seq(S)
  BY <1>2 DEF FuncBody
<1>4. \A t \in Emits(Standing(rodata)) : /\ t.do = "emit" /\ Fits(t.code)
                                         /\ \A q \in 1 .. Len(t.code) : t.code[q].dst.l \notin LocalNames
  <2>1. \A label \in Standing(rodata) : label[1] \notin LocalNames
    BY DataNotLocal
  <2>2. ASSUME NEW t \in Emits(Standing(rodata)), NEW q \in 1 .. Len(t.code), t.code[q].dst.l \in LocalNames
        PROVE  FALSE
    <3>1. t.code[q] \in Code(Standing(rodata))
      BY <2>2, EmitFields
    <3> QED
      BY <2>1, <2>2, <3>1, LocalTarget
  <2> QED
    BY <2>1, <2>2, EmitFields, NothingToFit
<1>5. \A t \in Places(own) : t.do = "place" /\ t.label[1] \notin LocalNames
  <2>1. \A label \in own : label[1] \notin LocalNames
    BY NameKinds
  <2> HIDE DEF own
  <2> QED
    BY <2>1 DEF Places
<1>6. \A t \in Stmts(N) : t.do = "stmt"
  BY DEF Stmts
<1>7. \A t \in S : ~Local(t) /\ (t.do = "emit" => Fits(t.code))
  <2> HIDE DEF own
  <2> QED
    BY <1>4, <1>5, <1>6 DEF Local
<1>8. \A i \in 1 .. Len(tasks) : ~Local(tasks[i]) /\ (tasks[i].do = "emit" => Fits(tasks[i].code))
  <2> HIDE DEF S
  <2> QED
    BY <1>3, <1>7
<1>9. \A i \in 2 .. Len(todo) : ~Local(todo[i])
  <2>1. todo \in Seq(Tasks(N)) /\ todo # <<>>
    BY <1>2 DEF Typed, Replaces
  <2>2. \A i \in 1 .. Len(todo) : todo[i].do \in {"func", "exit"}
    BY <1>1, <2>1, OnlyFunctionsLeft
  <2>3. \A i \in 2 .. Len(todo) : i \in 1 .. Len(todo)
    BY <2>1
  <2> QED
    BY <2>2, <2>3 DEF Local
<1>10. <<>> \in Seq(Code(Names)) /\ instructions' = instructions \o <<>> /\ Fits(<<>>)
  BY <1>1 DEF Typed, Fits
<1> HIDE DEF own, S
<1> QED
  BY <1>2, <1>8, <1>9, <1>10, RegionKept

(* New labels at the end of the code change neither the function of a label  *)
(* nor that of an instruction.                                               *)
LEMMA LabelsGrow ==
  ASSUME Typed, NEW new \in Seq(Marks), labels' = labels \o new,
         \A i \in 1 .. Len(new) : new[i].index >= Len(instructions)
  PROVE  /\ Len(labels') = Len(labels) + Len(new)
         /\ \A i \in 1 .. Len(labels) : labels'[i] = labels[i]
         /\ \A i \in 1 .. Len(new) : labels'[Len(labels) + i] = new[i]
         /\ \A j \in 0 .. Len(labels) : Within(j)' = Within(j)
         /\ \A i \in 1 .. Len(instructions) : FunctionAt(Emitted(i))' = FunctionAt(Emitted(i))
<1>1. /\ Len(labels') = Len(labels) + Len(new)
      /\ \A i \in 1 .. Len(labels) : labels'[i] = labels[i]
      /\ \A i \in 1 .. Len(new) : labels'[Len(labels) + i] = new[i]
  <2>1. labels \in Seq(Marks)
    BY DEF Typed
  <2> QED
    BY <2>1, TwoParts
<1>2. Len(labels) \in Nat /\ Len(new) \in Nat /\ Len(instructions) \in Nat
  BY DEF Typed
<1>3. \A k \in 1 .. Len(labels) : Global(k)' <=> Global(k)
  BY <1>1 DEF Global
<1>4. ASSUME NEW j \in 0 .. Len(labels)
      PROVE  Within(j)' = Within(j)
  <2>1. \A k \in 1 .. j : k \in 1 .. Len(labels)
    BY <1>2
  <2>2. \A k \in 1 .. j : Global(k)' <=> Global(k)
    BY <1>3, <2>1
  <2> QED
    BY <2>2 DEF Within, FunctionAt
<1>5. ASSUME NEW i \in 1 .. Len(instructions)
      PROVE  FunctionAt(Emitted(i))' = FunctionAt(Emitted(i))
  <2>1. Emitted(i)' = Emitted(i)
    <3>1. ASSUME NEW k \in 1 .. Len(labels')
          PROVE  \/ k \in 1 .. Len(labels) /\ labels'[k] = labels[k]
                 \/ k - Len(labels) \in 1 .. Len(new) /\ labels'[k] = new[k - Len(labels)]
      <4>1. CASE k \in 1 .. Len(labels)
        BY <1>1, <4>1
      <4>2. CASE k - Len(labels) \in 1 .. Len(new) /\ k = Len(labels) + (k - Len(labels))
        <5>1. labels'[Len(labels) + (k - Len(labels))] = new[k - Len(labels)]
          BY <1>1, <4>2
        <5> QED
          BY <4>2, <5>1
      <4> QED
        BY <1>1, <1>2, <4>1, <4>2
    <3>2. \A k \in 1 .. Len(new) : ~(new[k].index < i)
      <4> SUFFICES ASSUME NEW k \in 1 .. Len(new) PROVE ~(new[k].index < i)
        OBVIOUS
      <4>1. new[k] \in Marks /\ new[k].index >= Len(instructions)
        OBVIOUS
      <4> QED
        BY <1>2, <4>1 DEF Marks
    <3>3. \A k \in 1 .. Len(labels) : k \in 1 .. Len(labels')
      BY <1>1, <1>2
    <3>4. \A k \in 1 .. Len(labels') : labels'[k].index < i => k \in 1 .. Len(labels) /\ labels[k].index < i
      BY <3>1, <3>2
    <3>5. \A k \in 1 .. Len(labels) : labels[k].index < i => k \in 1 .. Len(labels') /\ labels'[k].index < i
      BY <1>1, <3>3
    <3> QED
      BY <3>4, <3>5 DEF Emitted
  <2>2. \A k \in Emitted(i) : Global(k)' <=> Global(k)
    BY <1>3 DEF Emitted
  <2> QED
    BY <2>1, <2>2 DEF FunctionAt
<1> QED
  BY <1>1, <1>4, <1>5

LEMMA RegionPlaced ==
  ASSUME Typed, Unique, NamesResolved, InRegion, PlaceLabel
  PROVE  InRegion'
<1> DEFINE new == [label |-> Task.label, index |-> Len(instructions)]
<1>0. PICK n \in Nat : n = Len(labels)
  BY DEF Typed
<1>1. /\ todo # <<>> /\ Task.do = "place" /\ labels' = labels \o <<new>> /\ instructions' = instructions
      /\ Len(todo) \in Nat /\ Len(instructions) \in Nat
  BY DEF PlaceLabel, Doing, label_list_push_back, Typed
<1>2. /\ Task.label \in Pending /\ Pending' = Pending \ {Task.label}
      /\ Len(labels') = n + 1 /\ labels'[n + 1].label = Task.label
      /\ \A i \in 1 .. n : labels'[i] = labels[i]
      /\ Len(todo') = Len(todo) - 1
      /\ \A i \in 1 .. Len(todo') : i + 1 \in 2 .. Len(todo) /\ todo'[i] = todo[i + 1]
  BY <1>0, PlacedLabels DEF Unique
<1>3. /\ \A j \in 0 .. n : Within(j)' = Within(j)
      /\ \A i \in 1 .. Len(instructions) : FunctionAt(Emitted(i))' = FunctionAt(Emitted(i))
  <2>1. new \in Marks
    <3>1. Task.label \in Names
      BY <1>2, DefinedTypes
    <3> QED
      BY <1>1, <3>1 DEF Marks
  <2>2. <<new>> \in Seq(Marks) /\ \A i \in 1 .. Len(<<new>>) : <<new>>[i].index >= Len(instructions)
    BY <1>1, <2>1
  <2> HIDE DEF new
  <2> QED
    BY <1>0, <1>1, <2>2, LabelsGrow
<1> HIDE DEF new
<1>4. /\ \A i, j \in 1 .. Len(todo) : i < j /\ Local(todo[j]) => ~Opens(todo[i])
      /\ \A i \in 1 .. Len(instructions) : instructions[i].dst.l \in LocalNames =>
           /\ \A j \in 1 .. n :
                labels[j].label = LabelOf(instructions[i].dst) => Within(j) = FunctionAt(Emitted(i))
           /\ LabelOf(instructions[i].dst) \in Pending => Here = FunctionAt(Emitted(i))
      /\ \A p \in 1 .. Len(todo) : todo[p].do = "emit" => Fits(todo[p].code)
  BY <1>0 DEF InRegion
<1>5. \A p \in 1 .. Len(todo') : p + 1 \in 1 .. Len(todo) /\ 1 < p + 1 /\ todo'[p] = todo[p + 1]
  BY <1>1, <1>2
<1>6. Here = Within(n) /\ Here' = Within(n + 1)'
  BY <1>0, <1>2 DEF Here, Within
<1>7. n \in 0 .. n /\ \A j \in 1 .. n : j \in 0 .. n
  OBVIOUS
(* A label with a dot leaves the function as it is. *)
<1>8. ASSUME Task.label[1] \in LocalNames
      PROVE  Here' = Here
  <2>1. ~Global(n + 1)'
    BY <1>2, <1>8 DEF Global
  <2>2. FunctionAt(1 .. n + 1)' = FunctionAt(1 .. n)'
    <3>1. \A k \in 1 .. n + 1 : k \in 1 .. n \/ k = n + 1
      OBVIOUS
    <3>2. \A k \in 1 .. n : k \in 1 .. n + 1
      OBVIOUS
    <3> QED
      BY <2>1, <3>1, <3>2 DEF FunctionAt
  <2>3. Within(n)' = Within(n)
    BY <1>3, <1>7
  <2> QED
    BY <1>6, <2>2, <2>3 DEF Within
(* After another label nothing is left to do with labels with a dot. *)
<1>9. ASSUME Task.label[1] \notin LocalNames, NEW p \in 1 .. Len(todo')
      PROVE  ~Local(todo'[p])
  <2>1. 1 \in 1 .. Len(todo) /\ Opens(todo[1])
    BY <1>1, <1>9 DEF Opens, Task, Typed
  <2> QED
    BY <1>4, <1>5, <2>1
<1>10. ASSUME NEW i \in 1 .. Len(todo'), NEW j \in 1 .. Len(todo'), i < j, Local(todo'[j])
       PROVE  ~Opens(todo'[i])
  <2>1. i + 1 < j + 1
    BY <1>10
  <2> QED
    BY <1>4, <1>5, <1>10, <2>1
<1>11. ASSUME NEW p \in 1 .. Len(todo'), todo'[p].do = "emit",
              NEW q \in 1 .. Len(todo'[p].code), todo'[p].code[q].dst.l \in LocalNames,
              NEW j \in 1 .. n + 1, labels'[j].label = LabelOf(todo'[p].code[q].dst)
       PROVE  Within(j)' = Here'
  <2>1. Task.label[1] \in LocalNames
    BY <1>9, <1>11 DEF Local
  <2>2. CASE j \in 1 .. n
    <3>1. Fits(todo[p + 1].code) /\ todo'[p] = todo[p + 1]
      BY <1>4, <1>5, <1>11
    <3>2. Within(j) = Here
      BY <1>0, <1>2, <1>11, <2>2, <3>1 DEF Fits
    <3> QED
      BY <1>3, <1>7, <1>8, <2>1, <2>2, <3>2
  <2>3. CASE j = n + 1
    BY <1>6, <2>3
  <2> QED
    BY <2>2, <2>3
<1>12. ASSUME NEW i \in 1 .. Len(instructions), instructions[i].dst.l \in LocalNames
       PROVE  /\ \A j \in 1 .. n + 1 :
                   labels'[j].label = LabelOf(instructions[i].dst) => Within(j)' = FunctionAt(Emitted(i))'
              /\ LabelOf(instructions[i].dst) \in Pending' => Here' = FunctionAt(Emitted(i))'
  <2>1. LabelOf(instructions[i].dst)[1] \in LocalNames
    BY <1>12 DEF LabelOf
  <2>2. FunctionAt(Emitted(i))' = FunctionAt(Emitted(i))
    BY <1>3
  <2>3. ASSUME NEW j \in 1 .. n + 1, labels'[j].label = LabelOf(instructions[i].dst)
        PROVE  Within(j)' = FunctionAt(Emitted(i))'
    <3>1. CASE j \in 1 .. n
      BY <1>2, <1>3, <1>4, <1>7, <1>12, <2>2, <2>3, <3>1
    <3>2. CASE j = n + 1
      <4>1. Task.label = LabelOf(instructions[i].dst)
        BY <1>2, <2>3, <3>2
      <4>2. Here = FunctionAt(Emitted(i)) /\ Here' = Here
        BY <1>2, <1>4, <1>8, <1>12, <2>1, <4>1
      <4> QED
        BY <1>6, <2>2, <3>2, <4>2
    <3> QED
      BY <3>1, <3>2
  <2>4. ASSUME LabelOf(instructions[i].dst) \in Pending'
        PROVE  Here' = FunctionAt(Emitted(i))'
    <3>1. Here = FunctionAt(Emitted(i))
      BY <1>2, <1>4, <1>12, <2>4
    <3>2. Task.label[1] \in LocalNames
      <4>1. PICK p \in 1 .. Len(todo') : todo'[p].do = "place" /\ todo'[p].label = LabelOf(instructions[i].dst)
        BY <2>4 DEF Pending, Placing
      <4>2. Local(todo'[p])
        BY <2>1, <4>1 DEF Local
      <4> QED
        BY <1>9, <4>2
    <3> QED
      BY <1>8, <2>2, <3>1, <3>2
  <2> QED
    BY <2>3, <2>4
<1>13. (\A i, j \in 1 .. Len(todo) : i < j /\ Local(todo[j]) => ~Opens(todo[i]))'
  BY <1>10 DEF Local, Opens
<1>14. (\A p \in 1 .. Len(todo) : todo[p].do = "emit" => Fits(todo[p].code))'
  BY <1>2, <1>11 DEF Fits
<1> QED
  BY <1>1, <1>2, <1>12, <1>13, <1>14 DEF InRegion

LEMMA RegionAtEnd ==
  ASSUME Typed, Bounds, InOrder, DataInOrder, Unique, NamesResolved, InRegion, gen_exit
  PROVE  InRegion'
<1>0. PICK n \in Nat : n = Len(labels)
  BY DEF Typed
<1>1. Pending' = {} /\ todo' = <<>> /\ Len(instructions) \in Nat
  BY UniqueAtEnd DEF Typed
<1>2. PICK code \in Seq(Code({})) : instructions' = instructions \o code
  BY ExitTypes
<1>3. PICK new \in Seq(Marks) :
        /\ labels' = labels \o new
        /\ \A i \in 1 .. Len(new) : new[i].label[1] \notin LocalNames /\ new[i].index >= Len(instructions)
  <2>1. PICK new \in Seq(Marks) :
          /\ labels' = labels \o new
          /\ Len(new) = Len(rodata) + 1 /\ new[1].label = <<"__exit", 0>> /\ new[1].index = Len(instructions)
          /\ \A i \in 1 .. Len(rodata) :
               new[i + 1].label = rodata[i].label /\ new[i + 1].index = Len(instructions) + i + 2
    BY ExitTypes
  <2>2. \A label \in Standing(rodata) : label[1] \notin LocalNames
    BY DataNotLocal
  <2>3. new[1].label[1] \notin LocalNames /\ new[1].index >= Len(instructions)
    BY <1>1, <2>1 DEF LocalNames
  <2>4. ASSUME NEW i \in 1 .. Len(rodata)
        PROVE  new[i + 1].label[1] \notin LocalNames /\ new[i + 1].index >= Len(instructions)
    <3>1. rodata[i].label \in Standing(rodata)
      BY DEF Standing, Constants
    <3>2. Len(instructions) + i + 2 >= Len(instructions)
      BY <1>1
    <3> QED
      BY <2>1, <2>2, <3>1, <3>2
  <2>5. ASSUME NEW i \in 1 .. Len(new)
        PROVE  new[i].label[1] \notin LocalNames /\ new[i].index >= Len(instructions)
    <3>1. Len(rodata) \in Nat
      BY DEF Typed
    <3>2. i = 1 \/ (i - 1 \in 1 .. Len(rodata) /\ i = (i - 1) + 1)
      BY <2>1, <3>1
    <3> QED
      BY <2>3, <2>4, <3>2
  <2> QED
    BY <2>1, <2>5
<1>4. /\ Len(labels') = n + Len(new)
      /\ \A i \in 1 .. n : labels'[i] = labels[i]
      /\ \A i \in 1 .. Len(new) : labels'[n + i] = new[i]
      /\ \A j \in 0 .. n : Within(j)' = Within(j)
      /\ \A i \in 1 .. Len(instructions) : FunctionAt(Emitted(i))' = FunctionAt(Emitted(i))
  BY <1>0, <1>3, LabelsGrow
<1>5. /\ Len(instructions') = Len(instructions) + Len(code)
      /\ \A i \in 1 .. Len(instructions) : instructions'[i] = instructions[i]
      /\ \A i \in 1 .. Len(code) : instructions'[Len(instructions) + i] = code[i]
  <2>1. Seq(Code({})) \subseteq Seq(Code(Names))
    BY CodeMonotone, SeqWider
  <2>2. instructions \in Seq(Code(Names)) /\ code \in Seq(Code(Names))
    BY <2>1 DEF Typed
  <2> QED
    BY <1>2, <2>2, TwoParts
<1>6. \A q \in 1 .. Len(code) : code[q].dst.l \notin LocalNames
  <2> SUFFICES ASSUME NEW q \in 1 .. Len(code), code[q].dst.l \in LocalNames PROVE FALSE
    OBVIOUS
  <2>1. code[q] \in Code({})
    OBVIOUS
  <2> QED
    BY <2>1, LocalTarget
<1>7. ASSUME NEW i \in 1 .. Len(instructions'), instructions'[i].dst.l \in LocalNames
      PROVE  i \in 1 .. Len(instructions) /\ instructions'[i] = instructions[i]
  <2>1. Len(code) \in Nat
    OBVIOUS
  <2>2. \/ i \in 1 .. Len(instructions)
        \/ i - Len(instructions) \in 1 .. Len(code) /\ i = Len(instructions) + (i - Len(instructions))
    BY <1>1, <1>5, <2>1
  <2>3. ASSUME i - Len(instructions) \in 1 .. Len(code), i = Len(instructions) + (i - Len(instructions))
        PROVE  FALSE
    <3>1. instructions'[Len(instructions) + (i - Len(instructions))] = code[i - Len(instructions)]
      BY <1>5, <2>3
    <3> QED
      BY <1>6, <1>7, <2>3, <3>1
  <2> QED
    BY <1>5, <2>2, <2>3
<1>8. ASSUME NEW i \in 1 .. Len(instructions'), instructions'[i].dst.l \in LocalNames,
             NEW j \in 1 .. Len(labels'), labels'[j].label = LabelOf(instructions'[i].dst)
      PROVE  Within(j)' = FunctionAt(Emitted(i))'
  <2>1. i \in 1 .. Len(instructions) /\ instructions'[i] = instructions[i]
    BY <1>7, <1>8
  <2>2. labels'[j].label[1] \in LocalNames
    BY <1>8 DEF LabelOf
  <2>3. Len(new) \in Nat
    OBVIOUS
  <2>4. j \in 1 .. n \/ (j - n \in 1 .. Len(new) /\ j = n + (j - n))
    BY <1>4, <2>3
  <2>5. j \in 1 .. n
    <3>1. ASSUME j - n \in 1 .. Len(new), j = n + (j - n)
          PROVE  FALSE
      <4>1. labels'[n + (j - n)] = new[j - n]
        BY <1>4, <3>1
      <4> QED
        BY <1>3, <2>2, <3>1, <4>1
    <3> QED
      BY <2>4, <3>1
  <2>6. labels[j].label = LabelOf(instructions[i].dst) /\ j \in 0 .. n
    BY <1>4, <1>8, <2>1, <2>5
  <2>7. Within(j) = FunctionAt(Emitted(i))
    BY <1>0, <1>8, <2>1, <2>5, <2>6 DEF InRegion
  <2> QED
    BY <1>4, <2>1, <2>6, <2>7
<1>9. \A i \in 1 .. Len(todo') : FALSE
  BY <1>1
<1> QED
  BY <1>1, <1>8, <1>9 DEF InRegion

LEMMA RegionInvariant == Spec => []InRegion
<1>1. Init => InRegion
  <2> SUFFICES ASSUME Init PROVE InRegion
    OBVIOUS
  <2>1. functions \in Seq(FuncOf(Nodes[functions])) /\ Len(functions) \in Nat
    BY ProgramsAssumption DEF Init, Analysed
  <2>2. todo = [i \in 1 .. Len(functions) |-> Func(functions[i])] \o <<Exit>> /\ instructions = <<>>
    BY DEF Init
  <2>3. /\ Len(todo) = Len(functions) + 1 /\ todo[Len(functions) + 1] = Exit
        /\ \A i \in 1 .. Len(functions) : todo[i] = Func(functions[i])
    BY <2>1, <2>2
  <2>4. Exit.do = "exit" /\ \A f : Func(f).do = "func"
    BY DEF Func, Exit
  <2>5. \A i \in 1 .. Len(todo) : todo[i].do \notin {"place", "emit"}
    <3>1. \A i \in 1 .. Len(todo) : i \in 1 .. Len(functions) \/ i = Len(functions) + 1
      BY <2>1, <2>3
    <3> QED
      BY <2>3, <2>4, <3>1
  <2>6. \A i \in 1 .. Len(instructions) : FALSE
    BY <2>2
  <2> QED
    BY <2>5, <2>6 DEF InRegion, Local
<1>2. /\ Typed /\ Offsets /\ TypeOK /\ Loops /\ InOrder /\ DataInOrder /\ DataInOrder' /\ Unique /\ NamesResolved
      /\ InRegion /\ [Next]_vars
      => InRegion'
  <2> SUFFICES ASSUME Typed, Offsets, TypeOK, Loops, InOrder, DataInOrder, DataInOrder', Unique, NamesResolved,
                      InRegion, [Next]_vars
               PROVE  InRegion'
    OBVIOUS
  <2>1. Bounds
    BY DEF TypeOK, Bounds
  <2>2. CASE Abort \/ UNCHANGED vars
    <3>1. UNCHANGED <<todo, instructions, labels>>
      BY <2>2 DEF Abort, vars
    <3>2. /\ \A j : Within(j)' = Within(j)
          /\ \A i : FunctionAt(Emitted(i))' = FunctionAt(Emitted(i))
          /\ Here' = Here /\ Pending' = Pending
      BY <3>1 DEF Within, FunctionAt, Global, Emitted, Here, Pending, Placing
    <3>3. \A code : Fits(code)' <=> Fits(code)
      BY <3>1, <3>2 DEF Fits
    <3> QED
      BY <3>1, <3>2, <3>3 DEF InRegion, Local, Opens
  <2> QED
    BY <2>1, <2>2, StepCases, RegionDropped, RegionPlaced, RegionFunc, RegionWalk, RegionConstruct, RegionAtEnd
<1> QED
  BY <1>1, <1>2, WalkInvariant, TypesKept, LoopsInvariant, OrderInvariant, DataInvariant, UniqueInvariant,
     ResolvedInvariant, PTL DEF Spec

(* A name that begins with a dot is looked up below the last label without   *)
(* one: the label before a jump and the label before its target are the same *)
(* in every finished program.                                                *)
THEOREM LocalJumpsStay == Spec => []LocalJumpsStayInFunction
<1>1. InRegion => LocalJumpsStayInFunction
  <2> SUFFICES ASSUME InRegion,
                      NEW i \in 1 .. Len(instructions), instructions[i].dst.l \in LocalNames,
                      NEW j \in 1 .. Len(labels), labels[j].label = LabelOf(instructions[i].dst)
               PROVE  FunctionAt(1 .. j) = FunctionAt(Emitted(i))
    BY DEF LocalJumpsStayInFunction, LabelOf, Emitted
  <2> QED
    BY DEF InRegion, Within
<1> QED
  BY <1>1, RegionInvariant, PTL
=============================================================================
