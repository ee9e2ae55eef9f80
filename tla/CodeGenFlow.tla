----------------------------- MODULE CodeGenFlow -----------------------------
(***************************************************************************)
(* The frame of a function at every instruction of the generated code, for *)
(* every set of analysed programs.  The code is annotated: before each     *)
(* instruction stands how far rsp is below the saved rbp, a jump finds the *)
(* same annotation at its label, and no store reaches the saved rbp or     *)
(* what lies above it.                                                     *)
(***************************************************************************)
EXTENDS CodeGenLabels

-----------------------------------------------------------------------------
(* Annotations. *)

(* How many bytes rsp is below the word where the caller's rbp is saved.     *)
(* Before the prologue there is no such word: at the entry of a function rsp *)
(* is at the return address, and then rbp has been pushed and not yet set.   *)
AtEntry == -2
Pushed == -1

Branches == {"jmp", "je", "jne", "jp", "ja", "jae", "jb", "jbe"}
StackMoves == {"push", "mov", "sub", "add", "pop"}

(* An instruction between two annotations, when labels have theirs. *)
Passes(level, i, a, b) ==
  /\ i.m = "push" => a = AtEntry /\ b = Pushed
  /\ i.m = "mov" => IF i.dst = rbp THEN a = Pushed /\ b = 0 ELSE b = a
  /\ i.m = "sub" => a >= 0 /\ i.src.v >= 0 /\ b = a + i.src.v
  /\ i.m = "add" => i.src.v \in 0 .. a /\ b = a - i.src.v
  /\ i.m = "pop" => a = 0 /\ b = AtEntry
  /\ i.m \notin StackMoves => b = a
  /\ i.m = "ret" => a = AtEntry
  /\ i.m = "call" => /\ i.dst.l \in {"func", "__exit", "__out", "__in"}
                     /\ IF i.dst.l = "__exit" THEN a = AtEntry ELSE a >= 0
  /\ i.m \in Branches => i.dst.k = "label" /\ level[LabelOf(i.dst)] = a
  /\ i.m = "movsd" /\ i.dst.k = "mem" =>
       a >= 0 /\ IF i.dst.l = "rbp" THEN i.dst.v <= -8 ELSE i.dst.v \in 0 .. a - 8

(* Some code with the annotations before its instructions and after it.      *)
CodeAt(level, code, at) ==
  /\ at \in [1 .. Len(code) + 1 -> Int]
  /\ \A i \in 1 .. Len(code) : Passes(level, code[i], at[i], at[i + 1])
CodeRuns(level, code, from, to) ==
  \E at : CodeAt(level, code, at) /\ at[1] = from /\ at[Len(code) + 1] = to

(* A task, whose code is still to come.  Statements begin with nothing but   *)
(* the frame taken, and a loop ends there: a break goes there from a         *)
(* statement.  An expression leaves rsp as it was.                           *)
TaskPasses(level, frame, t, a, b) ==
  /\ t.do = "emit" => CodeRuns(level, t.code, a, b)
  /\ t.do = "rsp" => a >= 0 /\ b >= 0 /\ b = a + t.bytes
  /\ t.do \notin {"emit", "rsp"} => b = a
  /\ t.do = "place" => /\ level[t.label] = a /\ t.label[1] \notin {"__out", "__in"}
                       /\ t.label[1] = ".while_end" => a = frame
  /\ t.do = "stmt" => a = frame /\ a >= 0
  /\ t.do \in {"expr", "cmp", "call"} => a >= 0
  /\ t.do \in {"func", "exit"} => a = AtEntry
  /\ t.do = "func" => level[<<"func_end", t.func.id>>] = AlignUp16(t.func.frame_size)
TasksRun(level, frame, tasks, from, to) ==
  \E at \in [1 .. Len(tasks) + 1 -> Int] :
    /\ at[1] = from /\ at[Len(tasks) + 1] = to
    /\ \A i \in 1 .. Len(tasks) : TaskPasses(level, frame, tasks[i], at[i], at[i + 1])

(* The labels that are called, and those that no code jumps to. *)
EntryLabels == DataNames \cup {"main", "func", "__exit"}
Levels(level) ==
  /\ level \in [Names -> Int]
  /\ \A label \in Names : label[1] \in EntryLabels => level[label] = AtEntry

(* The code there is and the code to come. *)
Flow(level, at) ==
  /\ Levels(level) /\ CodeAt(level, instructions, at) /\ at[1] = AtEntry
  /\ \A j \in 1 .. Len(labels) :
       /\ labels[j].label[1] \notin {"__out", "__in"}
       /\ level[labels[j].label] = at[labels[j].index + 1]
  /\ TasksRun(level, level[EndLabel], todo, at[Len(instructions) + 1], AtEntry)
Flows == \E level, at : Flow(level, at)

-----------------------------------------------------------------------------
(* Annotations of concatenations. *)

(* Code that follows other code. *)
LEMMA CodeJoined ==
  ASSUME NEW S, NEW first \in Seq(S), NEW second \in Seq(S), NEW level, NEW at, CodeAt(level, first, at),
         NEW g, CodeAt(level, second, g), g[1] = at[Len(first) + 1]
  PROVE  \E next : /\ CodeAt(level, first \o second, next)
                   /\ \A i \in 1 .. Len(first) + 1 : next[i] = at[i]
                   /\ \A i \in 1 .. Len(second) + 1 : next[Len(first) + i] = g[i]
<1>1. CodeAt(level, second, g) /\ g[1] = at[Len(first) + 1]
  OBVIOUS
<1> DEFINE m == Len(first)
           n == Len(second)
           both == first \o second
           next == [i \in 1 .. m + n + 1 |-> IF i <= m THEN at[i] ELSE g[i - m]]
<1>2. /\ m \in Nat /\ n \in Nat /\ Len(both) = m + n
      /\ \A i \in 1 .. m : both[i] = first[i]
      /\ \A i \in 1 .. n : both[m + i] = second[i]
  OBVIOUS
<1>3. /\ at \in [1 .. m + 1 -> Int] /\ g \in [1 .. n + 1 -> Int]
      /\ \A i \in 1 .. m : Passes(level, first[i], at[i], at[i + 1])
      /\ \A i \in 1 .. n : Passes(level, second[i], g[i], g[i + 1])
  BY <1>1 DEF CodeAt
<1> HIDE DEF m, n, both
<1>4. next \in [1 .. m + n + 1 -> Int]
  <2>1. \A i \in 1 .. m + n + 1 : IF i <= m THEN i \in 1 .. m + 1 ELSE i - m \in 1 .. n + 1
    BY <1>2
  <2> QED
    BY <1>3, <2>1
<1>5. \A i \in 1 .. m + 1 : next[i] = at[i]
  <2> SUFFICES ASSUME NEW i \in 1 .. m + 1 PROVE next[i] = at[i]
    OBVIOUS
  <2>1. CASE i <= m
    BY <1>2, <2>1
  <2>2. CASE i = m + 1
    <3>1. i \in 1 .. m + n + 1 /\ ~(i <= m) /\ i - m = 1
      BY <1>2, <2>2
    <3>2. next[i] = g[1]
      BY <3>1
    <3> QED
      BY <1>1, <2>2, <3>2 DEF m
  <2> QED
    BY <1>2, <2>1, <2>2
<1>6. \A i \in 1 .. n + 1 : next[m + i] = g[i]
  <2> SUFFICES ASSUME NEW i \in 1 .. n + 1 PROVE next[m + i] = g[i]
    OBVIOUS
  <2>1. m + i \in 1 .. m + n + 1 /\ ~(m + i <= m) /\ (m + i) - m = i
    BY <1>2
  <2> QED
    BY <2>1
<1> HIDE DEF next
<1>7. ASSUME NEW i \in 1 .. m + n
      PROVE  Passes(level, both[i], next[i], next[i + 1])
  <2>1. CASE i <= m
    <3>1. i \in 1 .. m /\ i \in 1 .. m + 1 /\ i + 1 \in 1 .. m + 1
      BY <1>2, <2>1
    <3> QED
      BY <1>2, <1>3, <1>5, <3>1
  <2>2. CASE i > m
    <3> DEFINE k == i - m
    <3>1. k \in 1 .. n /\ k \in 1 .. n + 1 /\ k + 1 \in 1 .. n + 1 /\ i = m + k /\ i + 1 = m + (k + 1)
      BY <1>2, <2>2
    <3> HIDE DEF k
    <3>2. both[i] = second[k] /\ next[i] = g[k] /\ next[i + 1] = g[k + 1]
      BY <1>2, <1>6, <3>1
    <3> QED
      BY <1>3, <3>1, <3>2
  <2> QED
    BY <1>2, <2>1, <2>2
<1>8. CodeAt(level, both, next)
  BY <1>2, <1>4, <1>7 DEF CodeAt
<1> QED
  BY <1>5, <1>6, <1>8 DEF m, n, both

(* Code that leaves rsp where it is. *)
LEMMA StillCodeRuns ==
  ASSUME NEW S, NEW code \in Seq(S), NEW level, NEW a \in Int, \A i \in S : Passes(level, i, a, a)
  PROVE  CodeRuns(level, code, a, a)
<1> DEFINE at == [i \in 1 .. Len(code) + 1 |-> a]
<1>1. Len(code) \in Nat /\ \A i \in 1 .. Len(code) : code[i] \in S
  OBVIOUS
<1>2. at \in [1 .. Len(code) + 1 -> Int] /\ \A i \in 1 .. Len(code) + 1 : at[i] = a
  OBVIOUS
<1>3. \A i \in 1 .. Len(code) : i \in 1 .. Len(code) + 1 /\ i + 1 \in 1 .. Len(code) + 1
  BY <1>1
<1> HIDE DEF at
<1>4. CodeAt(level, code, at)
  BY <1>1, <1>2, <1>3 DEF CodeAt
<1>5. at[1] = a /\ at[Len(code) + 1] = a
  BY <1>1, <1>2
<1> QED
  BY <1>4, <1>5 DEF CodeRuns

LEMMA StillTasksRun ==
  ASSUME NEW S, NEW tasks \in Seq(S), NEW level, NEW frame, NEW a \in Int,
         \A i \in 1 .. Len(tasks) : TaskPasses(level, frame, tasks[i], a, a)
  PROVE  TasksRun(level, frame, tasks, a, a)
<1> DEFINE at == [i \in 1 .. Len(tasks) + 1 |-> a]
<1>1. Len(tasks) \in Nat
  OBVIOUS
<1>2. at \in [1 .. Len(tasks) + 1 -> Int] /\ \A i \in 1 .. Len(tasks) + 1 : at[i] = a
  OBVIOUS
<1>3. \A i \in 1 .. Len(tasks) : i \in 1 .. Len(tasks) + 1 /\ i + 1 \in 1 .. Len(tasks) + 1
  BY <1>1
<1> HIDE DEF at
<1>4. \A i \in 1 .. Len(tasks) : TaskPasses(level, frame, tasks[i], at[i], at[i + 1])
  BY <1>2, <1>3
<1>5. at[1] = a /\ at[Len(tasks) + 1] = a
  BY <1>1, <1>2
<1> QED
  BY <1>2, <1>4, <1>5 DEF TasksRun

LEMMA OneTaskRuns ==
  ASSUME NEW t, NEW level, NEW frame, NEW a \in Int, NEW b \in Int, TaskPasses(level, frame, t, a, b)
  PROVE  TasksRun(level, frame, <<t>>, a, b)
<1> DEFINE at == [i \in 1 .. 2 |-> IF i = 1 THEN a ELSE b]
           tasks == <<t>>
<1>1. Len(tasks) = 1 /\ tasks[1] = t
  OBVIOUS
<1>2. at \in [1 .. 2 -> Int] /\ at[1] = a /\ at[2] = b
  OBVIOUS
<1> HIDE DEF at, tasks
<1>3. TasksRun(level, frame, tasks, a, b)
  BY <1>1, <1>2 DEF TasksRun
<1> QED
  BY <1>3 DEF tasks

LEMMA ConcatRuns ==
  ASSUME NEW S, NEW first \in Seq(S), NEW second \in Seq(S), NEW level, NEW frame, NEW a, NEW b, NEW c,
         TasksRun(level, frame, first, a, b), TasksRun(level, frame, second, b, c)
  PROVE  first \o second \in Seq(S) /\ TasksRun(level, frame, first \o second, a, c)
<1>1. PICK f \in [1 .. Len(first) + 1 -> Int] :
        /\ f[1] = a /\ f[Len(first) + 1] = b
        /\ \A i \in 1 .. Len(first) : TaskPasses(level, frame, first[i], f[i], f[i + 1])
  BY DEF TasksRun
<1>2. PICK g \in [1 .. Len(second) + 1 -> Int] :
        /\ g[1] = b /\ g[Len(second) + 1] = c
        /\ \A i \in 1 .. Len(second) : TaskPasses(level, frame, second[i], g[i], g[i + 1])
  BY DEF TasksRun
<1> DEFINE m == Len(first)
           n == Len(second)
           both == first \o second
           next == [i \in 1 .. m + n + 1 |-> IF i <= m THEN f[i] ELSE g[i - m]]
<1>3. /\ m \in Nat /\ n \in Nat /\ Len(both) = m + n /\ both \in Seq(S)
      /\ \A i \in 1 .. m : both[i] = first[i]
      /\ \A i \in 1 .. n : both[m + i] = second[i]
  OBVIOUS
<1>4. /\ f \in [1 .. m + 1 -> Int] /\ g \in [1 .. n + 1 -> Int] /\ f[m + 1] = g[1] /\ g[n + 1] = c
      /\ \A i \in 1 .. m : TaskPasses(level, frame, first[i], f[i], f[i + 1])
      /\ \A i \in 1 .. n : TaskPasses(level, frame, second[i], g[i], g[i + 1])
  BY <1>1, <1>2
<1> HIDE DEF m, n, both
<1>5. next \in [1 .. m + n + 1 -> Int]
  <2>1. \A i \in 1 .. m + n + 1 : IF i <= m THEN i \in 1 .. m + 1 ELSE i - m \in 1 .. n + 1
    BY <1>3
  <2> QED
    BY <1>4, <2>1
<1>6. \A i \in 1 .. m + 1 : next[i] = f[i]
  <2> SUFFICES ASSUME NEW i \in 1 .. m + 1 PROVE next[i] = f[i]
    OBVIOUS
  <2>1. CASE i <= m
    BY <1>3, <2>1
  <2>2. CASE i = m + 1
    <3>1. i \in 1 .. m + n + 1 /\ ~(i <= m) /\ i - m = 1
      BY <1>3, <2>2
    <3>2. next[i] = g[1]
      BY <3>1
    <3> QED
      BY <1>4, <2>2, <3>2
  <2> QED
    BY <1>3, <2>1, <2>2
<1>7. \A i \in 1 .. n + 1 : next[m + i] = g[i]
  <2> SUFFICES ASSUME NEW i \in 1 .. n + 1 PROVE next[m + i] = g[i]
    OBVIOUS
  <2>1. m + i \in 1 .. m + n + 1 /\ ~(m + i <= m) /\ (m + i) - m = i
    BY <1>3
  <2> QED
    BY <2>1
<1> HIDE DEF next
<1>8. ASSUME NEW i \in 1 .. m + n
      PROVE  TaskPasses(level, frame, both[i], next[i], next[i + 1])
  <2>1. CASE i <= m
    <3>1. i \in 1 .. m /\ i \in 1 .. m + 1 /\ i + 1 \in 1 .. m + 1
      BY <1>3, <2>1
    <3> QED
      BY <1>3, <1>4, <1>6, <3>1
  <2>2. CASE i > m
    <3> DEFINE k == i - m
    <3>1. k \in 1 .. n /\ k \in 1 .. n + 1 /\ k + 1 \in 1 .. n + 1 /\ i = m + k /\ i + 1 = m + (k + 1)
      BY <1>3, <2>2
    <3> HIDE DEF k
    <3>2. both[i] = second[k] /\ next[i] = g[k] /\ next[i + 1] = g[k + 1]
      BY <1>3, <1>7, <3>1
    <3> QED
      BY <1>4, <3>1, <3>2
  <2> QED
    BY <1>3, <2>1, <2>2
<1>9. next[1] = a /\ next[m + n + 1] = c
  <2>1. 1 \in 1 .. m + 1 /\ n + 1 \in 1 .. n + 1 /\ m + n + 1 = m + (n + 1)
    BY <1>3
  <2> QED
    BY <1>1, <1>4, <1>6, <1>7, <2>1
<1>10. TasksRun(level, frame, both, a, c)
  BY <1>3, <1>5, <1>8, <1>9 DEF TasksRun
<1> QED
  BY <1>3, <1>10 DEF both

(* The tasks after the first. *)
LEMMA TailRuns ==
  ASSUME NEW S, NEW tasks \in Seq(S), tasks # <<>>, NEW level, NEW frame, NEW a, NEW c,
         TasksRun(level, frame, tasks, a, c)
  PROVE  \E b \in Int : /\ a \in Int /\ TaskPasses(level, frame, tasks[1], a, b)
                        /\ Tail(tasks) \in Seq(S) /\ TasksRun(level, frame, Tail(tasks), b, c)
<1>1. PICK f \in [1 .. Len(tasks) + 1 -> Int] :
        /\ f[1] = a /\ f[Len(tasks) + 1] = c
        /\ \A i \in 1 .. Len(tasks) : TaskPasses(level, frame, tasks[i], f[i], f[i + 1])
  BY DEF TasksRun
<1> DEFINE n == Len(tasks)
           rest == Tail(tasks)
           next == [i \in 1 .. n |-> f[i + 1]]
<1>2. /\ n \in Nat \ {0} /\ Len(rest) = n - 1 /\ Len(rest) + 1 = n /\ rest \in Seq(S)
      /\ \A i \in 1 .. n - 1 : rest[i] = tasks[i + 1]
  OBVIOUS
<1>3. f[1] \in Int /\ f[2] \in Int /\ TaskPasses(level, frame, tasks[1], f[1], f[2])
  <2>1. 1 \in 1 .. n /\ 1 \in 1 .. n + 1 /\ 2 \in 1 .. n + 1 /\ 1 + 1 = 2
    BY <1>2
  <2>2. TaskPasses(level, frame, tasks[1], f[1], f[1 + 1])
    BY <1>1, <2>1
  <2> QED
    BY <1>1, <2>1, <2>2
<1>4. next \in [1 .. n -> Int] /\ next[1] = f[2] /\ next[n] = c
  <2>1. \A i \in 1 .. n : i + 1 \in 1 .. n + 1
    BY <1>2
  <2>2. 1 \in 1 .. n /\ n \in 1 .. n /\ 1 + 1 = 2
    BY <1>2
  <2> QED
    BY <1>1, <2>1, <2>2
<1>5. ASSUME NEW i \in 1 .. n - 1
      PROVE  TaskPasses(level, frame, rest[i], next[i], next[i + 1])
  <2>1. next[i] = f[i + 1] /\ next[i + 1] = f[(i + 1) + 1] /\ i + 1 \in 1 .. n /\ rest[i] = tasks[i + 1]
    BY <1>2
  <2> HIDE DEF next, rest
  <2> QED
    BY <2>1, <1>1
<1>6. TasksRun(level, frame, rest, f[2], c)
  <2> HIDE DEF next, rest
  <2> QED
    BY <1>2, <1>4, <1>5 DEF TasksRun
<1> QED
  BY <1>1, <1>2, <1>3, <1>6

(* What is taken before some tasks and given back after them. *)
LEMMA BracketRuns ==
  ASSUME NEW S, NEW inner \in Seq(S), Moves \subseteq S, NEW level, NEW frame,
         NEW a \in Nat, NEW bytes \in Nat, TasksRun(level, frame, inner, a + bytes, a + bytes)
  PROVE  LET tasks == <<MoveRsp(bytes)>> \o inner \o <<MoveRsp(-bytes)>>
         IN  tasks \in Seq(S) /\ TasksRun(level, frame, tasks, a, a)
<1> DEFINE up == <<MoveRsp(bytes)>>
           down == <<MoveRsp(-bytes)>>
<1>1. up \in Seq(S) /\ down \in Seq(S)
  <2>1. MoveRsp(bytes) \in S /\ MoveRsp(-bytes) \in S
    BY DEF MoveRsp, Moves
  <2> QED
    BY <2>1
<1>2. TasksRun(level, frame, up, a, a + bytes)
  <2>1. TaskPasses(level, frame, MoveRsp(bytes), a, a + bytes)
    BY DEF TaskPasses, MoveRsp
  <2>2. a \in Int /\ a + bytes \in Int
    OBVIOUS
  <2> QED
    BY <2>1, <2>2, OneTaskRuns
<1>3. TasksRun(level, frame, down, a + bytes, a)
  <2>1. TaskPasses(level, frame, MoveRsp(-bytes), a + bytes, a)
    BY DEF TaskPasses, MoveRsp
  <2>2. a \in Int /\ a + bytes \in Int
    OBVIOUS
  <2> QED
    BY <2>1, <2>2, OneTaskRuns
<1> HIDE DEF up, down
<1> DEFINE first == up \o inner
<1>4. first \in Seq(S) /\ TasksRun(level, frame, first, a, a + bytes)
  BY <1>1, <1>2, ConcatRuns
<1> HIDE DEF first
<1>5. first \o down \in Seq(S) /\ TasksRun(level, frame, first \o down, a, a)
  BY <1>1, <1>3, <1>4, ConcatRuns
<1> QED
  BY <1>5 DEF up, down, first

-----------------------------------------------------------------------------
(* What the generator emits, between annotations. *)

(* Instructions that leave rsp where it is. *)
LEMMA StillInstructions ==
  ASSUME NEW level, NEW a \in Nat
  PROVE  /\ \A o : Passes(level, Load(o), a, a)
         /\ \A number \in Int : number >= 8 => Passes(level, Store(Slot(number)), a, a)
         /\ \A d \in Int : 0 <= d /\ d <= a - 8 => Passes(level, Store(Mem("rsp", d)), a, a)
         /\ Passes(level, Clear, a, a) /\ Passes(level, TestFalse, a, a)
         /\ \A m \in Branches : \A label : label = <<label[1], label[2]>> /\ level[label] = a => Passes(level, Jump(m, label), a, a)
         /\ \A name \in {"func", "__out", "__in"} : \A n : Passes(level, Jump("call", <<name, n>>), a, a)
         /\ \A m \in {"addsd", "subsd", "mulsd", "divsd", "sqrtsd", "ucomisd"} : \A o : Passes(level, Instr(m, xmm0, o), a, a)
<1> USE DEF Passes, StackMoves, Branches, Instr, Reg, xmm0
<1>1. \A o : Passes(level, Load(o), a, a)
  BY DEF Load
<1>2. \A number \in Int : number >= 8 => Passes(level, Store(Slot(number)), a, a)
  BY DEF Store, Slot, Mem
<1>3. \A d \in Int : 0 <= d /\ d <= a - 8 => Passes(level, Store(Mem("rsp", d)), a, a)
  BY DEF Store, Mem
<1>4. Passes(level, Clear, a, a)
  BY DEF Clear
<1>5. Passes(level, TestFalse, a, a)
  BY DEF TestFalse
<1>6. \A m \in Branches : \A label : label = <<label[1], label[2]>> /\ level[label] = a => Passes(level, Jump(m, label), a, a)
  BY DEF Jump, Instr1, Target, LabelOf
<1>7. \A name \in {"func", "__out", "__in"} : \A n : Passes(level, Jump("call", <<name, n>>), a, a)
  BY DEF Jump, Instr1, Target
<1>8. \A m \in {"addsd", "subsd", "mulsd", "divsd", "sqrtsd", "ucomisd"} : \A o : Passes(level, Instr(m, xmm0, o), a, a)
  OBVIOUS
<1> HIDE DEF Passes, StackMoves, Branches, Instr, Reg, xmm0
<1> QED
  BY <1>1, <1>2, <1>3, <1>4, <1>5, <1>6, <1>7, <1>8

(* Tasks that do. *)
LEMMA StillTasks ==
  ASSUME NEW level, NEW frame, NEW a \in Nat
  PROVE  /\ \A i : Passes(level, i, a, a) => TaskPasses(level, frame, Emit(<<i>>), a, a)
         /\ \A i, j : Passes(level, i, a, a) /\ Passes(level, j, a, a)
                        => TaskPasses(level, frame, Emit(<<i, j>>), a, a)
         /\ \A i, j, k : Passes(level, i, a, a) /\ Passes(level, j, a, a) /\ Passes(level, k, a, a)
                           => TaskPasses(level, frame, Emit(<<i, j, k>>), a, a)
         /\ \A n : TaskPasses(level, frame, Expr(n), a, a)
         /\ \A n : a = frame => TaskPasses(level, frame, Stmt(n), a, a)
         /\ \A n : TaskPasses(level, frame, [do |-> "cmp", node |-> n], a, a)
         /\ \A name : TaskPasses(level, frame, AlignedCall(name), a, a)
         /\ TaskPasses(level, frame, EndWhile, a, a)
         /\ \A label : /\ level[label] = a /\ label[1] \notin {"__out", "__in"}
                       /\ label[1] = ".while_end" => a = frame
                       => TaskPasses(level, frame, Place(label), a, a)
<1>1. ASSUME NEW S, NEW code \in Seq(S), \A i \in S : Passes(level, i, a, a)
      PROVE  TaskPasses(level, frame, Emit(code), a, a)
  <2>1. CodeRuns(level, code, a, a)
    BY <1>1, StillCodeRuns
  <2> QED
    BY <2>1 DEF TaskPasses, Emit
<1>2. ASSUME NEW i, Passes(level, i, a, a)
      PROVE  TaskPasses(level, frame, Emit(<<i>>), a, a)
  <2> DEFINE S == {i}
             code == <<i>>
  <2>1. code \in Seq(S) /\ \A x \in S : Passes(level, x, a, a)
    BY <1>2
  <2> HIDE DEF S, code
  <2>2. TaskPasses(level, frame, Emit(code), a, a)
    BY <1>1, <2>1
  <2> QED
    BY <2>2 DEF code
<1>3. ASSUME NEW i, NEW j, Passes(level, i, a, a), Passes(level, j, a, a)
      PROVE  TaskPasses(level, frame, Emit(<<i, j>>), a, a)
  <2> DEFINE S == {i, j}
             code == <<i, j>>
  <2>1. code \in Seq(S) /\ \A x \in S : Passes(level, x, a, a)
    BY <1>3
  <2> HIDE DEF S, code
  <2>2. TaskPasses(level, frame, Emit(code), a, a)
    BY <1>1, <2>1
  <2> QED
    BY <2>2 DEF code
<1>4. ASSUME NEW i, NEW j, NEW k, Passes(level, i, a, a), Passes(level, j, a, a), Passes(level, k, a, a)
      PROVE  TaskPasses(level, frame, Emit(<<i, j, k>>), a, a)
  <2> DEFINE S == {i, j, k}
             code == <<i, j, k>>
  <2>1. code \in Seq(S) /\ \A x \in S : Passes(level, x, a, a)
    BY <1>4
  <2> HIDE DEF S, code
  <2>2. TaskPasses(level, frame, Emit(code), a, a)
    BY <1>1, <2>1
  <2> QED
    BY <2>2 DEF code
<1> USE DEF TaskPasses
<1>5. \A n : TaskPasses(level, frame, Expr(n), a, a)
  BY DEF Expr
<1>6. \A n : a = frame => TaskPasses(level, frame, Stmt(n), a, a)
  BY DEF Stmt
<1>7. \A n : TaskPasses(level, frame, [do |-> "cmp", node |-> n], a, a)
  OBVIOUS
<1>8. \A name : TaskPasses(level, frame, AlignedCall(name), a, a)
  BY DEF AlignedCall
<1>9. TaskPasses(level, frame, EndWhile, a, a)
  BY DEF EndWhile
<1>10. \A label : /\ level[label] = a /\ label[1] \notin {"__out", "__in"}
                  /\ label[1] = ".while_end" => a = frame
                  => TaskPasses(level, frame, Place(label), a, a)
  BY DEF Place
<1> HIDE DEF TaskPasses
<1> QED
  BY <1>2, <1>3, <1>4, <1>5, <1>6, <1>7, <1>8, <1>9, <1>10

-----------------------------------------------------------------------------
(* What each step of the walk leaves runs from where its task began to there. *)

Continues(level, a) ==
  \E S : \E tasks \in Seq(S) : Then(tasks) /\ TasksRun(level, level[EndLabel], tasks, a, a)

LEMMA FewTasksRun ==
  ASSUME NEW level, NEW frame, NEW a \in Int
  PROVE  /\ TasksRun(level, frame, <<>>, a, a)
         /\ \A t : TaskPasses(level, frame, t, a, a) => TasksRun(level, frame, <<t>>, a, a)
         /\ \A t, u : TaskPasses(level, frame, t, a, a) /\ TaskPasses(level, frame, u, a, a)
                        => TasksRun(level, frame, <<t, u>>, a, a)
<1>1. TasksRun(level, frame, <<>>, a, a)
  <2>1. <<>> \in Seq({}) /\ \A i \in 1 .. Len(<<>>) : FALSE
    OBVIOUS
  <2> QED
    BY <2>1, StillTasksRun
<1>2. ASSUME NEW t, TaskPasses(level, frame, t, a, a)
      PROVE  TasksRun(level, frame, <<t>>, a, a)
  BY <1>2, OneTaskRuns
<1>3. ASSUME NEW t, NEW u, TaskPasses(level, frame, t, a, a), TaskPasses(level, frame, u, a, a)
      PROVE  TasksRun(level, frame, <<t, u>>, a, a)
  <2> DEFINE S == {t, u}
             tasks == <<t, u>>
  <2>1. tasks \in Seq(S) /\ \A i \in 1 .. Len(tasks) : tasks[i] = t \/ tasks[i] = u
    OBVIOUS
  <2> HIDE DEF S, tasks
  <2>2. TasksRun(level, frame, tasks, a, a)
    BY <1>3, <2>1, StillTasksRun
  <2> QED
    BY <2>2 DEF tasks
<1> QED
  BY <1>1, <1>2, <1>3

LEMMA FewTasksContinue ==
  ASSUME NEW level, NEW a \in Int
  PROVE  /\ Then(<<>>) => Continues(level, a)
         /\ \A t : Then(<<t>>) /\ TaskPasses(level, level[EndLabel], t, a, a) => Continues(level, a)
         /\ \A t, u : /\ Then(<<t, u>>) /\ TaskPasses(level, level[EndLabel], t, a, a)
                      /\ TaskPasses(level, level[EndLabel], u, a, a)
                      => Continues(level, a)
<1> DEFINE frame == level[EndLabel]
<1>1. ASSUME NEW S, NEW tasks \in Seq(S), Then(tasks), TasksRun(level, frame, tasks, a, a)
      PROVE  Continues(level, a)
  BY <1>1 DEF Continues
<1>2. ASSUME Then(<<>>)
      PROVE  Continues(level, a)
  <2> DEFINE S == {}
             tasks == <<>>
  <2>1. tasks \in Seq(S)
    OBVIOUS
  <2>2. Then(tasks) /\ TasksRun(level, frame, tasks, a, a)
    BY <1>2, FewTasksRun
  <2> HIDE DEF S, tasks, frame
  <2> QED
    BY <1>1, <2>1, <2>2
<1>3. ASSUME NEW t, Then(<<t>>), TaskPasses(level, frame, t, a, a)
      PROVE  Continues(level, a)
  <2> DEFINE S == {t}
             tasks == <<t>>
  <2>1. tasks \in Seq(S)
    OBVIOUS
  <2>2. Then(tasks) /\ TasksRun(level, frame, tasks, a, a)
    BY <1>3, FewTasksRun
  <2> HIDE DEF S, tasks, frame
  <2> QED
    BY <1>1, <2>1, <2>2
<1>4. ASSUME NEW t, NEW u, Then(<<t, u>>), TaskPasses(level, frame, t, a, a), TaskPasses(level, frame, u, a, a)
      PROVE  Continues(level, a)
  <2> DEFINE S == {t, u}
             tasks == <<t, u>>
  <2>1. tasks \in Seq(S)
    OBVIOUS
  <2>2. Then(tasks) /\ TasksRun(level, frame, tasks, a, a)
    BY <1>4, FewTasksRun
  <2> HIDE DEF S, tasks, frame
  <2> QED
    BY <1>1, <2>1, <2>2
<1> QED
  BY <1>2, <1>3, <1>4

(* What is declared or assigned is below the saved rbp. *)
LEMMA SlotsBelow ==
  ASSUME Typed, NEW n \in Nodes[functions]
  PROVE  /\ n.kind = "VAR_DECL" => n.num >= 8
         /\ n.kind = "OP" /\ n.op = "ASSIGN" => n.kids[1].num >= 8
  BY ProgramsAssumption DEF Typed, Analysed

LEMMA BlockFlow ==
  ASSUME Typed, gen_block \/ gen_nothing, NEW level, NEW a \in Nat, level[EndLabel] = a
  PROVE  Continues(level, a)
<1>1. PICK tasks \in Seq(Stmts(Nodes[functions])) : Replace(tasks)
  BY BlockTasks
<1>2. \A t \in Stmts(Nodes[functions]) : TaskPasses(level, a, t, a, a)
  BY DEF Stmts, TaskPasses
<1>3. TasksRun(level, a, tasks, a, a)
  BY <1>2, StillTasksRun
<1> QED
  BY <1>1, <1>3 DEF Continues, Replace

LEMMA ValueFlow ==
  ASSUME NEW level, NEW frame, NEW a \in Nat, NEW kids
  PROVE  TaskPasses(level, frame, ValueOrZero(kids), a, a)
  BY StillInstructions, StillTasks DEF ValueOrZero

LEMMA DeclFlow ==
  ASSUME Typed, gen_var_decl, NEW level, NEW a \in Nat
  PROVE  Continues(level, a)
<1> DEFINE value == ValueOrZero(Task.node.kids)
           store == Emit(<<Store(Slot(Task.node.num))>>)
           frame == level[EndLabel]
<1>1. Then(<<value, store>>)
  BY DEF gen_var_decl, Replace
<1>2. Task.node.num \in Int /\ Task.node.num >= 8
  <2>1. Task.node \in Nodes[functions] /\ Task.node.kind = "VAR_DECL" /\ Task.node.num \in Int
    BY AtNode DEF gen_var_decl, DoingStmt
  <2> QED
    BY <2>1, SlotsBelow
<1>3. TaskPasses(level, frame, value, a, a)
  BY ValueFlow
<1>4. TaskPasses(level, frame, store, a, a)
  BY <1>2, StillInstructions, StillTasks
<1> HIDE DEF value, store
<1> QED
  BY <1>1, <1>3, <1>4, FewTasksContinue

LEMMA RetFlow ==
  ASSUME Typed, gen_ret, NEW level, NEW a \in Nat, level[EndLabel] = a
  PROVE  Continues(level, a)
<1> DEFINE value == ValueOrZero(Task.node.kids)
           leave == Emit(<<Jump("jmp", EndLabel)>>)
<1>1. Then(<<value, leave>>)
  BY DEF gen_ret, Replace, RetTarget, EndLabel
<1>2. TaskPasses(level, a, value, a, a)
  BY ValueFlow
<1>3. TaskPasses(level, a, leave, a, a)
  <2>1. EndLabel = <<EndLabel[1], EndLabel[2]>> /\ "jmp" \in Branches
    BY DEF EndLabel, Branches
  <2>2. Passes(level, Jump("jmp", EndLabel), a, a)
    BY <2>1, StillInstructions
  <2> QED
    BY <2>2, StillTasks
<1> HIDE DEF value, leave
<1> QED
  BY <1>1, <1>2, <1>3, FewTasksContinue

LEMMA ExprFlow ==
  ASSUME Typed, gen_var \/ gen_assign \/ gen_cmp_right \/ gen_out \/ gen_in \/ gen_sqrt,
         NEW level, NEW a \in Nat
  PROVE  Continues(level, a)
<1> DEFINE frame == level[EndLabel]
           node == Task.node
<1>1. /\ Then(<<>>) => Continues(level, a)
      /\ \A t : Then(<<t>>) /\ TaskPasses(level, frame, t, a, a) => Continues(level, a)
      /\ \A t, u : /\ Then(<<t, u>>) /\ TaskPasses(level, frame, t, a, a)
                   /\ TaskPasses(level, frame, u, a, a)
                   => Continues(level, a)
  BY FewTasksContinue
<1>4. \A n : TaskPasses(level, frame, Expr(n), a, a)
  BY StillTasks
<1>5. CASE gen_var
  <2>1. Then(<<Emit(<<Load(Slot(node.num))>>)>>)
    BY <1>5 DEF gen_var, Replace
  <2>2. TaskPasses(level, frame, Emit(<<Load(Slot(node.num))>>), a, a)
    BY StillInstructions, StillTasks
  <2> QED
    BY <1>1, <2>1, <2>2
<1>6. CASE gen_assign
  <2> DEFINE to == node.kids[1].num
  <2>1. Then(<<Expr(node.kids[2]), Emit(<<Store(Slot(to))>>)>>)
    BY <1>6 DEF gen_assign, Replace
  <2>2. to \in Int /\ to >= 8
    <3>1. node \in Nodes[functions] /\ node.kind = "OP" /\ node.op = "ASSIGN" /\ node.kids[1] \in Nodes[functions]
      BY <1>6, AtNode DEF gen_assign, DoingOp, DoingExpr
    <3> QED
      BY <3>1, SlotsBelow, NodeFields
  <2>3. TaskPasses(level, frame, Emit(<<Store(Slot(to))>>), a, a)
    BY <2>2, StillInstructions, StillTasks
  <2> QED
    BY <1>1, <1>4, <2>1, <2>3
<1>7. CASE gen_cmp_right
  <2>1. Then(<<Expr(node.kids[2]), [do |-> "cmp", node |-> node]>>)
    BY <1>7 DEF gen_cmp_right, Replace
  <2>2. TaskPasses(level, frame, [do |-> "cmp", node |-> node], a, a)
    BY StillTasks
  <2> QED
    BY <1>1, <1>4, <2>1, <2>2
<1>8. CASE gen_out
  <2>1. Then(<<>>) \/ Then(<<Expr(Args[1]), AlignedCall("__out")>>)
    BY <1>8 DEF gen_out, Replace, If
  <2>2. TaskPasses(level, frame, AlignedCall("__out"), a, a)
    BY StillTasks
  <2> QED
    BY <1>1, <1>4, <2>1, <2>2
<1>9. CASE gen_in
  <2>1. Then(<<>>) \/ Then(<<AlignedCall("__in")>>)
    BY <1>9 DEF gen_in, Replace, If
  <2>2. TaskPasses(level, frame, AlignedCall("__in"), a, a)
    BY StillTasks
  <2> QED
    BY <1>1, <2>1, <2>2
<1>10. CASE gen_sqrt
  <2>1. Then(<<>>) \/ Then(<<Expr(Args[1]), Emit(<<Instr("sqrtsd", xmm0, xmm0)>>)>>)
    BY <1>10 DEF gen_sqrt, Replace, If
  <2>2. TaskPasses(level, frame, Emit(<<Instr("sqrtsd", xmm0, xmm0)>>), a, a)
    BY StillInstructions, StillTasks
  <2> QED
    BY <1>1, <1>4, <2>1, <2>2
<1> QED
  BY <1>5, <1>6, <1>7, <1>8, <1>9, <1>10

LEMMA NumFlow ==
  ASSUME Typed, gen_num, NEW level, NEW a \in Nat
  PROVE  Continues(level, a)
<1> DEFINE frame == level[EndLabel]
<1>1. PICK o : Then(<<Emit(<<Load(o)>>)>>)
  BY DEF gen_num, Replace
<1> DEFINE load == Emit(<<Load(o)>>)
<1>2. TaskPasses(level, frame, load, a, a)
  BY StillInstructions, StillTasks
<1>3. Then(<<load>>)
  BY <1>1
<1> HIDE DEF load
<1> QED
  BY <1>2, <1>3, FewTasksContinue

LEMMA SetRuns ==
  ASSUME NEW S, NEW tasks \in Seq(S), NEW level, NEW frame, NEW a \in Int,
         \A t \in S : TaskPasses(level, frame, t, a, a)
  PROVE  TasksRun(level, frame, tasks, a, a)
<1>1. \A i \in 1 .. Len(tasks) : tasks[i] \in S
  OBVIOUS
<1> QED
  BY <1>1, StillTasksRun

(* The word that waits on the stack. *)
LEMMA SavedFlow ==
  ASSUME NEW level, NEW frame, NEW a \in Nat
  PROVE  TaskPasses(level, frame, Emit(<<Store(Saved)>>), a + 8, a + 8)
<1>1. a + 8 \in Nat /\ 0 \in Int /\ 0 <= 0 /\ 0 <= (a + 8) - 8
  OBVIOUS
<1>2. Passes(level, Store(Mem("rsp", 0)), a + 8, a + 8)
  BY <1>1, StillInstructions
<1> QED
  BY <1>1, <1>2, StillTasks DEF Saved

LEMMA ArithmeticFlow ==
  ASSUME Typed, gen_arithmetic, NEW level, NEW a \in Nat
  PROVE  Continues(level, a)
<1> DEFINE frame == level[EndLabel]
           node == Task.node
           save == Emit(<<Store(Saved)>>)
           operate == Emit(<<Instr(SseOf[node.op], xmm0, Saved)>>)
           left == Expr(node.kids[1])
           right == Expr(node.kids[2])
           S == {right, save, left, operate}
           T == S \cup Moves
           before == <<right>>
           inner == <<save, left, operate>>
           bracket == <<MoveRsp(8)>> \o inner \o <<MoveRsp(-8)>>
<1>1. Then(<<right, MoveRsp(8), save, left>> \o <<operate, MoveRsp(-8)>>)
  BY DEF gen_arithmetic, OperandTasks, Replace
<1>2. <<right, MoveRsp(8), save, left>> \o <<operate, MoveRsp(-8)>> = before \o bracket
  OBVIOUS
<1>3. a + 8 \in Nat
  OBVIOUS
<1>4. TaskPasses(level, frame, right, a, a)
  BY StillTasks
<1>5. TaskPasses(level, frame, left, a + 8, a + 8) /\ TaskPasses(level, frame, save, a + 8, a + 8)
  BY <1>3, StillTasks, SavedFlow
<1>6. TaskPasses(level, frame, operate, a + 8, a + 8)
  <2>1. node.op \in Arithmetic
    BY DEF gen_arithmetic
  <2>2. SseOf[node.op] \in {"addsd", "subsd", "mulsd", "divsd"}
    BY <2>1 DEF SseOf, Arithmetic
  <2>3. Passes(level, Instr(SseOf[node.op], xmm0, Saved), a + 8, a + 8)
    BY <1>3, <2>2, StillInstructions
  <2> QED
    BY <1>3, <2>3, StillTasks
<1> HIDE DEF save, operate, left, right, frame
<1>7. before \in Seq(T) /\ inner \in Seq(T) /\ Moves \subseteq T
  OBVIOUS
<1>8. TasksRun(level, frame, before, a, a)
  <2>1. a \in Int
    OBVIOUS
  <2> QED
    BY <1>4, <2>1, FewTasksRun
<1>9. TasksRun(level, frame, inner, a + 8, a + 8)
  <2> DEFINE U == {save, left, operate}
  <2>1. inner \in Seq(U) /\ \A t \in U : TaskPasses(level, frame, t, a + 8, a + 8)
    BY <1>5, <1>6
  <2>2. a + 8 \in Int
    OBVIOUS
  <2> HIDE DEF inner, U
  <2> QED
    BY <2>1, <2>2, SetRuns
<1> HIDE DEF before, inner, T
<1>10. bracket \in Seq(T) /\ TasksRun(level, frame, bracket, a, a)
  <2>1. 8 \in Nat
    OBVIOUS
  <2> QED
    BY <1>7, <1>9, <2>1, BracketRuns
<1> HIDE DEF bracket
<1>11. before \o bracket \in Seq(T) /\ TasksRun(level, frame, before \o bracket, a, a)
  BY <1>7, <1>8, <1>10, ConcatRuns
<1> QED
  BY <1>1, <1>2, <1>11 DEF Continues, frame

(* The word that aligns the stack is given back after the call. *)
LEMMA AlignRuns ==
  ASSUME NEW S, Moves \subseteq S, NEW inner \in Seq(S), NEW level, NEW frame, NEW a \in Nat,
         \A from \in Nat : TasksRun(level, frame, inner, from, from)
  PROVE  LET tasks == align_stack_before_call \o inner \o unalign_stack_after_call
         IN  tasks \in Seq(S) /\ TasksRun(level, frame, tasks, a, a)
<1>1. CASE Misaligned
  <2>1. align_stack_before_call = <<MoveRsp(8)>> /\ unalign_stack_after_call = <<MoveRsp(-8)>>
    BY <1>1 DEF align_stack_before_call, unalign_stack_after_call, If
  <2>2. a + 8 \in Nat /\ 8 \in Nat
    OBVIOUS
  <2>3. TasksRun(level, frame, inner, a + 8, a + 8)
    BY <2>2
  <2> QED
    BY <2>1, <2>2, <2>3, BracketRuns
<1>2. CASE ~Misaligned
  <2>1. align_stack_before_call = <<>> /\ unalign_stack_after_call = <<>>
    BY <1>2 DEF align_stack_before_call, unalign_stack_after_call, If
  <2>2. <<>> \o inner \o <<>> = inner
    OBVIOUS
  <2> QED
    BY <2>1, <2>2
<1> QED
  BY <1>1, <1>2

LEMMA LibraryFlow ==
  ASSUME Typed, CallAligned, NEW level, NEW a \in Nat
  PROVE  Continues(level, a)
<1> DEFINE frame == level[EndLabel]
           call == Emit(<<Jump("call", <<Task.name, 0>>)>>)
           inner == <<call>>
           S == {call} \cup Moves
           tasks == align_stack_before_call \o inner \o unalign_stack_after_call
<1>1. Then(tasks)
  BY DEF CallAligned
<1>2. Task.name \in {"__out", "__in"}
  <2>1. Task \in Tasks(Nodes[functions]) /\ Task.do = "call"
    BY DEF CallAligned, Doing, Typed, Task
  <2> QED
    BY <2>1, TaskFields
<1>3. ASSUME NEW from \in Nat
      PROVE  TasksRun(level, frame, inner, from, from)
  <2>1. Passes(level, Jump("call", <<Task.name, 0>>), from, from)
    BY <1>2, StillInstructions
  <2>2. TaskPasses(level, frame, call, from, from)
    BY <2>1, StillTasks
  <2>3. from \in Int
    OBVIOUS
  <2> QED
    BY <2>2, <2>3, FewTasksRun
<1>4. inner \in Seq(S) /\ Moves \subseteq S
  OBVIOUS
<1> HIDE DEF inner, S, frame
<1>5. tasks \in Seq(S) /\ TasksRun(level, frame, tasks, a, a)
  BY <1>3, <1>4, AlignRuns
<1> QED
  BY <1>1, <1>5 DEF Continues, frame

(* The arguments are put into the words that were taken for them. *)
LEMMA PassArgsRuns ==
  ASSUME NEW nodes, NEW args \in Seq(nodes), NEW level, NEW frame, NEW a \in Nat, a >= 8 * Len(args)
  PROVE  TasksRun(level, frame, PassArgs(args), a, a)
<1> DEFINE n == 2 * Len(args)
           at(j) == LET i == (j + 1) \div 2
                    IN  IF j % 2 = 1 THEN Expr(args[i]) ELSE Emit(<<Store(Mem("rsp", 8 * (i - 1)))>>)
<1>1. ASSUME NEW j \in 1 .. n
      PROVE  TaskPasses(level, frame, at(j), a, a)
  <2> DEFINE i == (j + 1) \div 2
             d == 8 * (i - 1)
  <2>1. i \in 1 .. Len(args)
    OBVIOUS
  <2> HIDE DEF i
  <2>2. d \in Int /\ 0 <= d /\ d <= a - 8
    BY <2>1
  <2> HIDE DEF d
  <2>3. TaskPasses(level, frame, Expr(args[i]), a, a)
    BY StillTasks
  <2>4. TaskPasses(level, frame, Emit(<<Store(Mem("rsp", d))>>), a, a)
    BY <2>2, StillInstructions, StillTasks
  <2> QED
    BY <2>3, <2>4 DEF i, d
<1>2. n \in Nat /\ PassArgs(args) = [j \in 1 .. n |-> at(j)]
  BY DEF PassArgs
<1> DEFINE tasks == [j \in 1 .. n |-> at(j)]
           S == {at(j) : j \in 1 .. n}
<1> HIDE DEF n, at
<1>3. tasks \in Seq(S) /\ \A t \in S : TaskPasses(level, frame, t, a, a)
  BY <1>1, <1>2
<1>4. a \in Int
  OBVIOUS
<1> HIDE DEF tasks, S
<1>5. TasksRun(level, frame, tasks, a, a)
  BY <1>3, <1>4, SetRuns
<1> QED
  BY <1>2, <1>5 DEF tasks

LEMMA CallFlow ==
  ASSUME Typed, gen_call, NEW level, NEW a \in Nat
  PROVE  Continues(level, a)
<1> DEFINE frame == level[EndLabel]
           N == Nodes[functions]
           bytes == 8 * Len(Args)
           label == <<"func", Task.node.num>>
           call == <<Emit(<<Jump("call", label)>>)>>
           pass == PassArgs(Args)
           up == If(Args # <<>>, <<MoveRsp(bytes)>>)
           down == If(Args # <<>>, <<MoveRsp(-bytes)>>)
           work == pass \o call
           inner == up \o work \o down
           tasks == align_stack_before_call \o inner \o unalign_stack_after_call
           U == Plain(N) \cup Emits(Names)
           S == U \cup {Emit(<<Jump("call", label)>>)}
           T == S \cup Moves
<1>1. Then(tasks)
  BY DEF gen_call, Replace
<1>2. Args \in Seq(N)
  BY AtNode DEF gen_call, DoingCall, DoingExpr, Args
<1>3. bytes \in Nat /\ bytes = 8 * Len(Args)
  BY <1>2
<1>4. pass \in Seq(U)
  <2>1. ConstFalse \in Names
    BY DEF ConstFalse, Names, LabelNames, DataNames
  <2> QED
    BY <1>2, <2>1, PassArgsTypes
<1>5. pass \in Seq(S) /\ call \in Seq(S) /\ Moves \subseteq T
  <2> HIDE DEF pass, U
  <2>1. pass \in Seq(S)
    BY <1>4
  <2> QED
    BY <2>1
<1>6. ASSUME NEW from \in Nat, from >= bytes
      PROVE  TasksRun(level, frame, work, from, from)
  <2>1. TasksRun(level, frame, pass, from, from)
    BY <1>2, <1>3, <1>6, PassArgsRuns
  <2>2. Passes(level, Jump("call", label), from, from)
    BY StillInstructions
  <2>3. TaskPasses(level, frame, Emit(<<Jump("call", label)>>), from, from)
    BY <2>2, StillTasks
  <2>4. TasksRun(level, frame, call, from, from)
    <3>1. from \in Int
      OBVIOUS
    <3> QED
      BY <2>3, <3>1, FewTasksRun
  <2> HIDE DEF pass, call, S, frame
  <2> QED
    BY <1>5, <2>1, <2>4, ConcatRuns
<1> HIDE DEF pass, call, S, bytes, frame
<1>7. work \in Seq(T)
  BY <1>5
<1> HIDE DEF work, T
<1>8. inner \in Seq(T) /\ \A from \in Nat : TasksRun(level, frame, inner, from, from)
  <2>1. CASE Args = <<>>
    <3>1. inner = work
      <4>1. up = <<>> /\ down = <<>>
        BY <2>1 DEF If
      <4>2. <<>> \o work \o <<>> = work
        BY <1>7
      <4> QED
        BY <4>1, <4>2
    <3>2. \A from \in Nat : from >= bytes
      BY <1>3, <2>1
    <3>3. \A from \in Nat : TasksRun(level, frame, work, from, from)
      BY <1>6, <3>2
    <3> HIDE DEF inner
    <3> QED
      BY <1>7, <3>1, <3>3
  <2>2. CASE Args # <<>>
    <3>1. up = <<MoveRsp(bytes)>> /\ down = <<MoveRsp(-bytes)>>
      BY <2>2 DEF If
    <3>2. ASSUME NEW from \in Nat
          PROVE  inner \in Seq(T) /\ TasksRun(level, frame, inner, from, from)
      <4>1. from + bytes \in Nat /\ from + bytes >= bytes
        BY <1>3
      <4>2. TasksRun(level, frame, work, from + bytes, from + bytes)
        BY <4>1, <1>6
      <4> QED
        BY <3>1, <4>2, <1>3, <1>5, <1>7, BracketRuns
    <3> QED
      BY <3>2
  <2> QED
    BY <2>1, <2>2
<1> HIDE DEF inner
<1>9. tasks \in Seq(T) /\ TasksRun(level, frame, tasks, a, a)
  BY <1>5, <1>8, AlignRuns
<1> QED
  BY <1>1, <1>9 DEF Continues, frame

-----------------------------------------------------------------------------
(* Constructs: their labels have the annotation of the place they begin at.  *)

LEMMA OwnFlow ==
  ASSUME NEW level, NEW frame, NEW a \in Nat
  PROVE  /\ \A x, y : level[<<x, y>>] = a => \A m \in Branches : Passes(level, Jump(m, <<x, y>>), a, a)
         /\ \A x, y : level[<<x, y>>] = a /\ x \notin {"__out", "__in"} /\ (x = ".while_end" => a = frame)
                        => TaskPasses(level, frame, Place(<<x, y>>), a, a)
<1>1. ASSUME NEW x, NEW y, level[<<x, y>>] = a, NEW m \in Branches
      PROVE  Passes(level, Jump(m, <<x, y>>), a, a)
  <2> DEFINE label == <<x, y>>
  <2>1. label = <<label[1], label[2]>> /\ level[label] = a
    BY <1>1
  <2> HIDE DEF label
  <2>2. Passes(level, Jump(m, label), a, a)
    BY <2>1, StillInstructions
  <2> QED
    BY <2>2 DEF label
<1>2. ASSUME NEW x, NEW y, level[<<x, y>>] = a, x \notin {"__out", "__in"}, x = ".while_end" => a = frame
      PROVE  TaskPasses(level, frame, Place(<<x, y>>), a, a)
  <2> DEFINE label == <<x, y>>
  <2>1. label[1] = x /\ level[label] = a
    BY <1>2
  <2> HIDE DEF label
  <2>2. TaskPasses(level, frame, Place(label), a, a)
    BY <1>2, <2>1, StillTasks
  <2> QED
    BY <2>2 DEF label
<1> QED
  BY <1>1, <1>2

(* A test of a condition and its jumps. *)
LEMMA TestFlow ==
  ASSUME NEW level, NEW frame, NEW a \in Nat, NEW x, NEW y, NEW z, NEW w,
         level[<<x, y>>] = a, level[<<z, w>>] = a
  PROVE  \A m, n \in Branches : TaskPasses(level, frame, Emit(<<TestFalse, Jump(m, <<x, y>>), Jump(n, <<z, w>>)>>), a, a)
BY StillInstructions, StillTasks, OwnFlow

LEMMA IfFlow ==
  ASSUME Typed, gen_if, NEW level, NEW a \in Nat, level[EndLabel] = a,
         \A label \in Own(IfNames, counters.if + 1) : level[label] = a
  PROVE  Continues(level, a)
<1> DEFINE id == counters.if + 1
           kids == Task.node.kids
           true == <<".if_true", id>>
           end == <<".if_end", id>>
           over == <<".if_else_end", id>>
           test == Emit(<<TestFalse, Jump("jp", true), Jump("je", end)>>)
           skip == Emit(<<Jump("jmp", over)>>)
           first == Expr(kids[1])
           then == Stmt(kids[2])
           else == Stmt(kids[3])
<1>1. Then(<<first, test, Place(true), then>>
           \o If(Len(kids) >= 3, <<skip>>) \o <<Place(end)>>
           \o If(Len(kids) >= 3, <<else, Place(over)>>))
  BY DEF gen_if, Numbered, TakeNumber, IfEnd
<1>2. level[true] = a /\ level[end] = a /\ level[over] = a
  <2>1. true \in Own(IfNames, id) /\ end \in Own(IfNames, id) /\ over \in Own(IfNames, id)
    BY DEF Own, IfNames
  <2> QED
    BY <2>1
<1>3. /\ TaskPasses(level, a, first, a, a) /\ TaskPasses(level, a, then, a, a)
      /\ TaskPasses(level, a, else, a, a)
  BY StillTasks
<1>4. /\ TaskPasses(level, a, Place(true), a, a) /\ TaskPasses(level, a, Place(end), a, a)
      /\ TaskPasses(level, a, Place(over), a, a)
  BY <1>2, OwnFlow
<1>5. TaskPasses(level, a, test, a, a) /\ TaskPasses(level, a, skip, a, a)
  <2>1. "jp" \in Branches /\ "je" \in Branches /\ "jmp" \in Branches
    BY DEF Branches
  <2>2. Passes(level, Jump("jmp", over), a, a)
    BY <1>2, <2>1, OwnFlow
  <2>3. TaskPasses(level, a, skip, a, a)
    BY <2>2, StillTasks
  <2> QED
    BY <1>2, <2>1, <2>3, TestFlow
<1> DEFINE S == {first, test, then, skip, else, Place(true), Place(end), Place(over)}
           short == <<first, test, Place(true), then, Place(end)>>
           long == <<first, test, Place(true), then, skip, Place(end), else, Place(over)>>
<1>6. Then(short) \/ Then(long)
  <2>1. CASE Len(kids) >= 3
    <3>1. /\ If(Len(kids) >= 3, <<skip>>) = <<skip>>
          /\ If(Len(kids) >= 3, <<else, Place(over)>>) = <<else, Place(over)>>
      BY <2>1 DEF If
    <3>2. long = <<first, test, Place(true), then>> \o <<skip>> \o <<Place(end)>> \o <<else, Place(over)>>
      OBVIOUS
    <3> HIDE DEF first, test, then, skip, else, long
    <3> QED
      BY <1>1, <3>1, <3>2, Zenon
  <2>2. CASE ~(Len(kids) >= 3)
    <3>1. If(Len(kids) >= 3, <<skip>>) = <<>> /\ If(Len(kids) >= 3, <<else, Place(over)>>) = <<>>
      BY <2>2 DEF If
    <3>2. short = <<first, test, Place(true), then>> \o <<>> \o <<Place(end)>> \o <<>>
      OBVIOUS
    <3> HIDE DEF first, test, then, skip, else, short
    <3> QED
      BY <1>1, <3>1, <3>2, Zenon
  <2> QED
    BY <2>1, <2>2
<1> HIDE DEF first, test, then, skip, else, true, end, over
<1>7. short \in Seq(S) /\ long \in Seq(S) /\ \A t \in S : TaskPasses(level, a, t, a, a)
  <2>1. short \in Seq(S)
    OBVIOUS
  <2>2. long \in Seq(S)
    OBVIOUS
  <2>3. \A t \in S : TaskPasses(level, a, t, a, a)
    BY <1>3, <1>4, <1>5
  <2> QED
    BY <2>1, <2>2, <2>3
<1>8. a \in Int
  OBVIOUS
<1> HIDE DEF S, short, long
<1>9. TasksRun(level, a, short, a, a) /\ TasksRun(level, a, long, a, a)
  BY <1>7, <1>8, SetRuns
<1> QED
  BY <1>6, <1>7, <1>9 DEF Continues

LEMMA WhileFlow ==
  ASSUME Typed, gen_while, NEW level, NEW a \in Nat, level[EndLabel] = a,
         \A label \in Own(WhileNames, counters.while + 1) : level[label] = a
  PROVE  Continues(level, a)
<1> DEFINE id == counters.while + 1
           kids == Task.node.kids
           loop == <<".while_loop", id>>
           end == <<".while_end", id>>
           cond == Expr(kids[1])
           test == Emit(<<TestFalse, Jump("jp", loop), Jump("je", end)>>)
           again == Emit(<<TestFalse, Jump("jp", loop), Jump("jne", loop)>>)
           body == Stmt(kids[2])
           tasks == <<cond, test, Place(loop), body, cond, again, Place(end), EndWhile>>
           S == {cond, test, Place(loop), body, again, Place(end), EndWhile}
<1>1. Then(tasks)
  BY DEF gen_while
<1>2. level[loop] = a /\ level[end] = a
  <2>1. loop \in Own(WhileNames, id) /\ end \in Own(WhileNames, id)
    BY DEF Own, WhileNames
  <2> QED
    BY <2>1
<1>3. TaskPasses(level, a, cond, a, a) /\ TaskPasses(level, a, body, a, a) /\ TaskPasses(level, a, EndWhile, a, a)
  BY StillTasks
<1>4. TaskPasses(level, a, Place(loop), a, a) /\ TaskPasses(level, a, Place(end), a, a)
  BY <1>2, OwnFlow
<1>5. TaskPasses(level, a, test, a, a) /\ TaskPasses(level, a, again, a, a)
  <2>1. "jp" \in Branches /\ "je" \in Branches /\ "jne" \in Branches
    BY DEF Branches
  <2> QED
    BY <1>2, <2>1, TestFlow
<1> HIDE DEF cond, test, again, body, loop, end
<1>6. tasks \in Seq(S) /\ \A t \in S : TaskPasses(level, a, t, a, a)
  BY <1>3, <1>4, <1>5
<1>7. a \in Int
  OBVIOUS
<1> HIDE DEF S, tasks
<1>8. TasksRun(level, a, tasks, a, a)
  BY <1>6, <1>7, SetRuns
<1> QED
  BY <1>1, <1>6, <1>8 DEF Continues

LEMMA OrFlow ==
  ASSUME Typed, gen_logic_or, NEW level, NEW a \in Nat,
         \A label \in Own(LogicNames, counters.logic + 1) : level[label] = a
  PROVE  Continues(level, a)
<1> DEFINE frame == level[EndLabel]
           id == counters.logic + 1
           kids == Task.node.kids
           true == <<".logic_true", id>>
           end == <<".logic_end", id>>
           first == Expr(kids[1])
           second == Expr(kids[2])
           test == Emit(<<TestFalse, Jump("jp", true), Jump("jne", true)>>)
           no == Emit(<<Load(Rel(ConstFalse)), Jump("jmp", end)>>)
           yes == Emit(<<Load(Rel(ConstTrue))>>)
           tasks == <<first, test, second, test, no, Place(true), yes, Place(end)>>
           S == {first, test, second, no, Place(true), yes, Place(end)}
<1>1. Then(tasks)
  BY DEF gen_logic_or, Numbered
<1>2. level[true] = a /\ level[end] = a
  <2>1. true \in Own(LogicNames, id) /\ end \in Own(LogicNames, id)
    BY DEF Own, LogicNames
  <2> QED
    BY <2>1
<1>3. TaskPasses(level, frame, first, a, a) /\ TaskPasses(level, frame, second, a, a)
  BY StillTasks
<1>4. TaskPasses(level, frame, Place(true), a, a) /\ TaskPasses(level, frame, Place(end), a, a)
  BY <1>2, OwnFlow
<1>5. TaskPasses(level, frame, test, a, a) /\ TaskPasses(level, frame, no, a, a) /\ TaskPasses(level, frame, yes, a, a)
  <2>1. "jp" \in Branches /\ "jmp" \in Branches /\ "jne" \in Branches
    BY DEF Branches
  <2>2. Passes(level, Jump("jmp", end), a, a) /\ \A o : Passes(level, Load(o), a, a)
    BY <1>2, <2>1, OwnFlow, StillInstructions
  <2>3. TaskPasses(level, frame, no, a, a) /\ TaskPasses(level, frame, yes, a, a)
    BY <2>2, StillTasks
  <2> QED
    BY <1>2, <2>1, <2>3, TestFlow
<1> HIDE DEF first, second, test, no, yes, true, end, frame
<1>6. tasks \in Seq(S) /\ \A t \in S : TaskPasses(level, frame, t, a, a)
  <2>1. tasks \in Seq(S)
    OBVIOUS
  <2>2. \A t \in S : TaskPasses(level, frame, t, a, a)
    BY <1>3, <1>4, <1>5
  <2> QED
    BY <2>1, <2>2
<1>7. a \in Int
  OBVIOUS
<1> HIDE DEF S, tasks
<1>8. TasksRun(level, frame, tasks, a, a)
  BY <1>6, <1>7, SetRuns
<1> QED
  BY <1>1, <1>6, <1>8 DEF Continues, frame

LEMMA AndFlow ==
  ASSUME Typed, gen_logic_and, NEW level, NEW a \in Nat,
         \A label \in Own(LogicNames, counters.logic + 1) : level[label] = a
  PROVE  Continues(level, a)
<1> DEFINE frame == level[EndLabel]
           id == counters.logic + 1
           kids == Task.node.kids
           true == <<".logic_true", id>>
           false == <<".logic_false", id>>
           rhs == <<".logic_and_rhs", id>>
           end == <<".logic_end", id>>
           first == Expr(kids[1])
           second == Expr(kids[2])
           enter == Emit(<<TestFalse, Jump("jp", rhs), Jump("je", false)>>)
           test == Emit(<<TestFalse, Jump("jp", true), Jump("je", false)>>)
           yes == Emit(<<Load(Rel(ConstTrue)), Jump("jmp", end)>>)
           no == Emit(<<Load(Rel(ConstFalse))>>)
           tasks == <<first, enter, Place(rhs), second, test, Place(true), yes, Place(false), no, Place(end)>>
           S == {first, enter, second, test, yes, no, Place(rhs), Place(true), Place(false), Place(end)}
<1>1. Then(tasks)
  BY DEF gen_logic_and, Numbered
<1>2. level[true] = a /\ level[end] = a /\ level[false] = a /\ level[rhs] = a
  <2>1. true \in Own(LogicNames, id) /\ end \in Own(LogicNames, id)
        /\ false \in Own(LogicNames, id) /\ rhs \in Own(LogicNames, id)
    BY DEF Own, LogicNames
  <2> QED
    BY <2>1
<1>3. TaskPasses(level, frame, first, a, a) /\ TaskPasses(level, frame, second, a, a)
  BY StillTasks
<1>4. /\ TaskPasses(level, frame, Place(true), a, a) /\ TaskPasses(level, frame, Place(end), a, a)
      /\ TaskPasses(level, frame, Place(false), a, a) /\ TaskPasses(level, frame, Place(rhs), a, a)
  BY <1>2, OwnFlow
<1>5. /\ TaskPasses(level, frame, enter, a, a) /\ TaskPasses(level, frame, test, a, a)
      /\ TaskPasses(level, frame, no, a, a) /\ TaskPasses(level, frame, yes, a, a)
  <2>1. "jp" \in Branches /\ "jmp" \in Branches /\ "je" \in Branches
    BY DEF Branches
  <2>2. Passes(level, Jump("jmp", end), a, a) /\ \A o : Passes(level, Load(o), a, a)
    BY <1>2, <2>1, OwnFlow, StillInstructions
  <2>3. TaskPasses(level, frame, no, a, a) /\ TaskPasses(level, frame, yes, a, a)
    BY <2>2, StillTasks
  <2> QED
    BY <1>2, <2>1, <2>3, TestFlow
<1> HIDE DEF first, second, enter, test, no, yes, true, false, rhs, end, frame
<1>6. tasks \in Seq(S) /\ \A t \in S : TaskPasses(level, frame, t, a, a)
  <2>1. tasks \in Seq(S)
    OBVIOUS
  <2>2. \A t \in S : TaskPasses(level, frame, t, a, a)
    BY <1>3, <1>4, <1>5
  <2> QED
    BY <2>1, <2>2
<1>7. a \in Int
  OBVIOUS
<1> HIDE DEF S, tasks
<1>8. TasksRun(level, frame, tasks, a, a)
  BY <1>6, <1>7, SetRuns
<1> QED
  BY <1>1, <1>6, <1>8 DEF Continues, frame

(* The labels of a comparison stand where its right operand waits.           *)
LEMMA CmpFlow ==
  ASSUME Typed, gen_cmp, NEW level, NEW a \in Nat,
         \A label \in Own(CmpNames, counters.cmp + 1) : level[label] = a + 8
  PROVE  Continues(level, a)
<1> DEFINE frame == level[EndLabel]
           b == a + 8
           id == counters.cmp + 1
           op == Task.node.op
           left == Expr(Task.node.kids[1])
           true == <<".cmp_true", id>>
           false == <<".cmp_false", id>>
           end == <<".cmp_end", id>>
           save == Emit(<<Store(Saved)>>)
           unordered == <<IF op = "IS_NOT_EQUAL" THEN ".cmp_true" ELSE ".cmp_false", id>>
           test == Emit(<<Instr("ucomisd", xmm0, Saved), Jump("jp", unordered), Jump(JumpOf[op], true)>>)
           no == Emit(<<Load(Rel(ConstFalse)), Jump("jmp", end)>>)
           yes == Emit(<<Load(Rel(ConstTrue))>>)
           inner == <<save, left, test, Place(false), no, Place(true), yes, Place(end)>>
           tasks == <<MoveRsp(8), save, left, test, Place(false), no, Place(true), yes, Place(end), MoveRsp(-8)>>
           S == {save, left, test, Place(false), no, Place(true), yes, Place(end)}
           T == S \cup Moves
<1>1. op \in Comparisons
  BY AtNode DEF gen_cmp
<1>2. Then(tasks)
  BY DEF gen_cmp, Numbered
<1>3. level[true] = b /\ level[end] = b /\ level[false] = b /\ level[unordered] = b
  <2>1. true \in Own(CmpNames, id) /\ end \in Own(CmpNames, id) /\ false \in Own(CmpNames, id)
        /\ unordered \in {true, false}
    BY DEF Own, CmpNames
  <2> QED
    BY <2>1
<1>4. b \in Nat /\ b \in Int
  OBVIOUS
<1>5. TaskPasses(level, frame, left, b, b) /\ TaskPasses(level, frame, save, b, b)
  BY <1>4, StillTasks, SavedFlow
<1> HIDE DEF b
<1>6. /\ TaskPasses(level, frame, Place(true), b, b) /\ TaskPasses(level, frame, Place(end), b, b)
      /\ TaskPasses(level, frame, Place(false), b, b)
  BY <1>3, <1>4, OwnFlow
<1>7. TaskPasses(level, frame, test, b, b) /\ TaskPasses(level, frame, no, b, b) /\ TaskPasses(level, frame, yes, b, b)
  <2>1. "jp" \in Branches /\ "jmp" \in Branches /\ JumpOf[op] \in Branches
    BY <1>1 DEF Branches, JumpOf, Comparisons
  <2>2. /\ Passes(level, Jump("jmp", end), b, b) /\ Passes(level, Jump("jp", unordered), b, b)
        /\ Passes(level, Jump(JumpOf[op], true), b, b)
    BY <1>3, <1>4, <2>1, OwnFlow
  <2>3. /\ \A o : Passes(level, Load(o), b, b)
        /\ Passes(level, Instr("ucomisd", xmm0, Saved), b, b)
    BY <1>4, StillInstructions
  <2> HIDE DEF true, end, unordered
  <2>4. TaskPasses(level, frame, no, b, b) /\ TaskPasses(level, frame, yes, b, b)
    BY <1>4, <2>2, <2>3, StillTasks
  <2>5. TaskPasses(level, frame, test, b, b)
    BY <1>4, <2>2, <2>3, StillTasks
  <2> QED
    BY <2>4, <2>5
<1> HIDE DEF save, left, test, no, yes, true, false, end, frame
<1>8. tasks = <<MoveRsp(8)>> \o inner \o <<MoveRsp(-8)>>
  OBVIOUS
<1>9. inner \in Seq(S) /\ inner \in Seq(T) /\ Moves \subseteq T /\ \A t \in S : TaskPasses(level, frame, t, b, b)
  BY <1>5, <1>6, <1>7
<1> HIDE DEF S, T, inner, tasks
<1>10. TasksRun(level, frame, inner, b, b)
  BY <1>4, <1>9, SetRuns
<1>11. tasks \in Seq(T) /\ TasksRun(level, frame, tasks, a, a)
  <2>1. 8 \in Nat /\ TasksRun(level, frame, inner, a + 8, a + 8)
    BY <1>10 DEF b
  <2> QED
    BY <1>8, <1>9, <2>1, BracketRuns
<1> QED
  BY <1>2, <1>11 DEF Continues, frame

-----------------------------------------------------------------------------
(* The annotations that a construct gives its labels. *)

LEMMA SameLevels ==
  ASSUME NEW level, NEW other, NEW used, \A label \in used : other[label] = level[label],
         NEW code \in Seq(Code(used))
  PROVE  /\ \A at : CodeAt(level, code, at) => CodeAt(other, code, at)
         /\ \A a, b : CodeRuns(level, code, a, b) => CodeRuns(other, code, a, b)
<1>1. ASSUME NEW i \in Code(used), NEW a, NEW b, Passes(level, i, a, b)
      PROVE  Passes(other, i, a, b)
  <2>1. i.dst.k = "label" => LabelOf(i.dst) \in used
    BY DEF Code, Operands, Named
  <2>2. i.dst.k = "label" => other[LabelOf(i.dst)] = level[LabelOf(i.dst)]
    BY <2>1
  <2> QED
    BY <1>1, <2>2 DEF Passes
<1>2. \A i \in 1 .. Len(code) : code[i] \in Code(used)
  OBVIOUS
<1>3. \A at : CodeAt(level, code, at) => CodeAt(other, code, at)
  BY <1>1, <1>2 DEF CodeAt
<1> QED
  BY <1>3 DEF CodeRuns

LEMMA OwnNotKnown ==
  ASSUME Typed, Unique, DataInOrder, NEW kind \in Kinds
  PROVE  LET own == Own(NamesOf[kind], counters[kind] + 1)
         IN  own \cap Known = {} /\ \A label \in own : label[1] \in LocalNames
<1> DEFINE own == Own(NamesOf[kind], counters[kind] + 1)
<1>1. \A label \in own : label[1] \in NamesOf[kind] /\ label[2] = counters[kind] + 1
  BY NameKinds
<1>2. \A label \in own : label[1] \in LocalNames
  BY <1>1, NameKinds
<1>3. counters[kind] \in Nat
  BY CounterTypes DEF Typed
<1>4. \A label \in Defined : label[1] \in NamesOf[kind] => label[2] <= counters[kind]
  BY DEF Unique
<1>5. own \cap Defined = {}
  <2> SUFFICES ASSUME NEW label \in own, label \in Defined PROVE FALSE
    OBVIOUS
  <2>1. label[2] = counters[kind] + 1 /\ label[2] <= counters[kind]
    BY <1>1, <1>4
  <2> QED
    BY <1>3, <2>1
<1>6. own \cap Standing(rodata) = {}
  BY <1>2, DataNotLocal
<1> QED
  BY <1>2, <1>5, <1>6 DEF Known

LEMMA Relevelled ==
  ASSUME Typed, Unique, DataInOrder, NamesResolved, NEW level, NEW at, Flow(level, at),
         NEW kind \in Kinds, NEW a \in Int
  PROVE  LET own == Own(NamesOf[kind], counters[kind] + 1)
             other == [label \in Names |-> IF label \in own THEN a ELSE level[label]]
         IN  /\ Flow(other, at) /\ other[EndLabel] = level[EndLabel]
             /\ \A label \in own : other[label] = a
<1> DEFINE own == Own(NamesOf[kind], counters[kind] + 1)
           other == [label \in Names |-> IF label \in own THEN a ELSE level[label]]
           frame == level[EndLabel]
<1>1. own \cap Known = {} /\ \A label \in own : label[1] \in LocalNames
  BY OwnNotKnown
<1>2. own \subseteq Names
  <2>1. counters[kind] \in Nat
    BY CounterTypes DEF Typed
  <2>2. counters[kind] + 1 \in Int
    BY <2>1
  <2> QED
    BY <2>2, OwnTypes DEF Kinds, NamesOf
<1>3. Known \subseteq Names
  BY DefinedTypes, StandingTypes DEF Known, Typed
<1>4. /\ Levels(level) /\ CodeAt(level, instructions, at) /\ at[1] = AtEntry
      /\ \A j \in 1 .. Len(labels) :
           /\ labels[j].label[1] \notin {"__out", "__in"}
           /\ level[labels[j].label] = at[labels[j].index + 1]
      /\ TasksRun(level, frame, todo, at[Len(instructions) + 1], AtEntry)
  BY DEF Flow
<1> HIDE DEF own
<1>5. /\ \A label \in own : other[label] = a
      /\ \A label \in Names : label \notin own => other[label] = level[label]
      /\ other \in [Names -> Int]
  BY <1>2, <1>4 DEF Levels
<1> HIDE DEF other
<1>6. \A label \in Known : other[label] = level[label]
  BY <1>1, <1>3, <1>5
<1>7. ASSUME NEW x \in Int
      PROVE  other[<<"func_end", x>>] = level[<<"func_end", x>>]
  <2>1. <<"func_end", x>> \in Names
    BY DEF Names, LabelNames, GlobalNames
  <2>2. "func_end" \notin LocalNames
    BY DEF LocalNames
  <2>3. <<"func_end", x>> \notin own
    BY <1>1, <2>2
  <2> QED
    BY <1>5, <2>1, <2>3
<1>8. Levels(other)
  <2>1. EntryLabels \cap LocalNames = {}
    BY DEF EntryLabels, DataNames, LocalNames
  <2>2. \A label \in Names : label[1] \in EntryLabels => other[label] = AtEntry
    BY <1>1, <1>4, <1>5, <2>1 DEF Levels
  <2> QED
    BY <1>5, <2>2 DEF Levels
<1>9. CodeAt(other, instructions, at)
  <2>1. instructions \in Seq(Code(Known))
    BY DEF NamesResolved
  <2> QED
    BY <1>4, <1>6, <2>1, SameLevels
<1>10. \A j \in 1 .. Len(labels) : other[labels[j].label] = at[labels[j].index + 1]
  <2>1. \A j \in 1 .. Len(labels) : labels[j].label \in Known
    BY DEF Known, Defined, Made
  <2> QED
    BY <1>4, <1>6, <2>1
<1>11. other[EndLabel] = frame
  <2>1. counters.func \in Int
    BY DEF Typed, Counters
  <2> QED
    BY <1>7, <2>1 DEF EndLabel
<1>12. ASSUME NEW i \in 1 .. Len(todo), NEW x, NEW y, TaskPasses(level, frame, todo[i], x, y)
       PROVE  TaskPasses(other, frame, todo[i], x, y)
  <2>1. todo[i] \in Tasks(Nodes[functions])
    BY DEF Typed
  <2>2. todo[i].do = "emit" => CodeRuns(other, todo[i].code, x, y)
    <3> SUFFICES ASSUME todo[i].do = "emit" PROVE CodeRuns(other, todo[i].code, x, y)
      OBVIOUS
    <3>1. todo[i].code \in Seq(Code(Known))
      BY DEF NamesResolved
    <3>2. CodeRuns(level, todo[i].code, x, y)
      BY <1>12 DEF TaskPasses
    <3> QED
      BY <1>6, <3>1, <3>2, SameLevels
  <2>3. todo[i].do = "place" => other[todo[i].label] = level[todo[i].label]
    BY <1>6 DEF Known, Defined, Pending, Placing
  <2>4. todo[i].do = "func" => other[<<"func_end", todo[i].func.id>>] = level[<<"func_end", todo[i].func.id>>]
    <3> SUFFICES ASSUME todo[i].do = "func" PROVE todo[i].func.id \in Int
      BY <1>7
    <3>1. todo[i].func \in FuncOf(Nodes[functions])
      BY <2>1, TaskFields
    <3> QED
      BY <3>1 DEF FuncOf
  <2> QED
    BY <1>12, <2>2, <2>3, <2>4 DEF TaskPasses
<1>13. TasksRun(other, frame, todo, at[Len(instructions) + 1], AtEntry)
  BY <1>4, <1>12 DEF TasksRun
<1>14. Flow(other, at)
  BY <1>4, <1>8, <1>9, <1>10, <1>11, <1>13 DEF Flow
<1> QED
  BY <1>5, <1>11, <1>14 DEF other, own

-----------------------------------------------------------------------------
(* The annotations are kept. *)

(* Where the walk stands. *)
LEMMA StandsAt ==
  ASSUME Typed, NEW level, NEW at, Flow(level, at), todo # <<>>
  PROVE  LET a == at[Len(instructions) + 1]
             frame == level[EndLabel]
         IN  /\ a \in Int /\ frame \in Int
             /\ \E b \in Int : /\ TaskPasses(level, frame, Task, a, b)
                               /\ TasksRun(level, frame, Tail(todo), b, AtEntry)
<1> DEFINE a == at[Len(instructions) + 1]
           frame == level[EndLabel]
           S == Tasks(Nodes[functions])
<1>1. TasksRun(level, frame, todo, a, AtEntry) /\ Levels(level)
  BY DEF Flow
<1>2. todo \in Seq(S)
  BY DEF Typed
<1>3. EndLabel \in Names
  <2>1. counters.func \in Int
    BY DEF Typed, Counters
  <2> QED
    BY <2>1 DEF EndLabel, Names, LabelNames, GlobalNames
<1>4. frame \in Int
  BY <1>1, <1>3 DEF Levels
<1> HIDE DEF a, frame, S
<1>5. \E b \in Int : /\ a \in Int /\ TaskPasses(level, frame, todo[1], a, b)
                     /\ Tail(todo) \in Seq(S) /\ TasksRun(level, frame, Tail(todo), b, AtEntry)
  BY <1>1, <1>2, TailRuns
<1> QED
  BY <1>4, <1>5 DEF Task, a, frame

(* A step that replaces a task. *)
LEMMA FlowKept ==
  ASSUME Typed, NEW level, NEW at, Flow(level, at), todo # <<>>, Task.do \notin {"emit", "rsp"},
         UNCHANGED <<instructions, labels>>, EndLabel' = EndLabel,
         Continues(level, at[Len(instructions) + 1])
  PROVE  Flow(level, at)'
<1> DEFINE a == at[Len(instructions) + 1]
           frame == level[EndLabel]
           N == Tasks(Nodes[functions])
<1>1. TasksRun(level, frame, Tail(todo), a, AtEntry)
  <2>1. PICK b \in Int : TaskPasses(level, frame, Task, a, b) /\ TasksRun(level, frame, Tail(todo), b, AtEntry)
    BY StandsAt
  <2>2. b = a
    BY <2>1 DEF TaskPasses
  <2> QED
    BY <2>1, <2>2
<1>2. PICK S, tasks : tasks \in Seq(S) /\ Then(tasks) /\ TasksRun(level, frame, tasks, a, a)
  BY DEF Continues
<1> DEFINE rest == Tail(todo)
           T == S \cup N
<1>3. todo' = tasks \o rest
  BY <1>2 DEF Then
<1>4. rest \in Seq(N)
  BY DEF Typed
<1> HIDE DEF rest, N
<1>5. tasks \in Seq(T) /\ rest \in Seq(T)
  <2>1. S \subseteq T /\ N \subseteq T
    OBVIOUS
  <2>2. Seq(S) \subseteq Seq(T) /\ Seq(N) \subseteq Seq(T)
    BY <2>1, SeqWider
  <2> QED
    BY <1>2, <1>4, <2>2
<1> HIDE DEF T, a, frame
<1>6. TasksRun(level, frame, tasks \o rest, a, AtEntry)
  BY <1>1, <1>2, <1>5, ConcatRuns DEF rest
<1>7. TasksRun(level, frame, todo', a, AtEntry)
  BY <1>3, <1>6
<1>8. TasksRun(level, level[EndLabel'], todo', at[Len(instructions') + 1], AtEntry)
  BY <1>7 DEF a, frame
<1>9. /\ Levels(level) /\ CodeAt(level, instructions', at) /\ at[1] = AtEntry
      /\ \A j \in 1 .. Len(labels') :
           /\ labels'[j].label[1] \notin {"__out", "__in"}
           /\ level[labels'[j].label] = at[labels'[j].index + 1]
  BY DEF Flow
<1> QED
  BY <1>8, <1>9 DEF Flow

(* A step that emits. *)
LEMMA FlowExtended ==
  ASSUME Typed, Bounds, NEW level, NEW at, Flow(level, at), NEW code \in Seq(Code(Names)), NEW b,
         instructions' = instructions \o code, labels' = labels, EndLabel' = EndLabel,
         CodeRuns(level, code, at[Len(instructions) + 1], b),
         TasksRun(level, level[EndLabel], todo', b, AtEntry)
  PROVE  \E next : Flow(level, next)'
<1> DEFINE m == Len(instructions)
           S == Code(Names)
<1>1. instructions \in Seq(S) /\ code \in Seq(S)
  BY DEF Typed
<1>2. /\ Levels(level) /\ CodeAt(level, instructions, at) /\ at[1] = AtEntry
      /\ \A j \in 1 .. Len(labels) :
           /\ labels[j].label[1] \notin {"__out", "__in"}
           /\ level[labels[j].label] = at[labels[j].index + 1]
  BY DEF Flow
<1> HIDE DEF S
<1> HIDE DEF m
<1>3. PICK next : /\ CodeAt(level, instructions \o code, next)
                  /\ \A i \in 1 .. m + 1 : next[i] = at[i]
                  /\ next[m + Len(code) + 1] = b
  <2>1. \E next : /\ CodeAt(level, instructions \o code, next)
                  /\ \A i \in 1 .. Len(instructions) + 1 : next[i] = at[i]
                  /\ next[Len(instructions) + Len(code) + 1] = b
    <3>1. CodeAt(level, instructions, at) /\ CodeRuns(level, code, at[Len(instructions) + 1], b)
      BY <1>2
    <3>2. PICK g : CodeAt(level, code, g) /\ g[1] = at[Len(instructions) + 1] /\ g[Len(code) + 1] = b
      BY <3>1 DEF CodeRuns
    <3>3. PICK next : /\ CodeAt(level, instructions \o code, next)
                      /\ \A i \in 1 .. Len(instructions) + 1 : next[i] = at[i]
                      /\ \A i \in 1 .. Len(code) + 1 : next[Len(instructions) + i] = g[i]
      BY <1>1, <3>1, <3>2, CodeJoined
    <3>4. Len(code) + 1 \in 1 .. Len(code) + 1 /\ Len(instructions) + (Len(code) + 1) = Len(instructions) + Len(code) + 1
      BY <1>1
    <3> QED
      BY <3>2, <3>3, <3>4
  <2> QED
    BY <2>1 DEF m
<1>4. m \in Nat /\ Len(instructions') = m + Len(code) /\ 1 \in 1 .. m + 1
  BY <1>1 DEF m
<1>5. \A j \in 1 .. Len(labels) : labels[j].index + 1 \in 1 .. m + 1
  BY <1>4 DEF Bounds, m
<1>6. /\ CodeAt(level, instructions', next) /\ next[1] = AtEntry
      /\ TasksRun(level, level[EndLabel'], todo', next[Len(instructions') + 1], AtEntry)
  BY <1>2, <1>3, <1>4
<1>7. \A j \in 1 .. Len(labels') :
        /\ labels'[j].label[1] \notin {"__out", "__in"}
        /\ level[labels'[j].label] = next[labels'[j].index + 1]
  BY <1>2, <1>3, <1>5
<1> QED
  BY <1>2, <1>6, <1>7 DEF Flow

LEMMA OneCodeRuns ==
  ASSUME NEW level, NEW i, NEW a \in Int, NEW b \in Int, Passes(level, i, a, b)
  PROVE  CodeRuns(level, <<i>>, a, b)
<1> DEFINE at == [k \in 1 .. 2 |-> IF k = 1 THEN a ELSE b]
           code == <<i>>
<1>1. Len(code) = 1 /\ code[1] = i
  OBVIOUS
<1>2. at \in [1 .. 2 -> Int] /\ at[1] = a /\ at[2] = b
  OBVIOUS
<1> HIDE DEF at, code
<1>3. CodeAt(level, code, at)
  BY <1>1, <1>2 DEF CodeAt
<1>4. CodeRuns(level, code, a, b)
  BY <1>1, <1>2, <1>3 DEF CodeRuns
<1> QED
  BY <1>4 DEF code

(* What the steps that emit leave of the tasks. *)
LEMMA Dropped ==
  ASSUME NEW S, todo \in Seq(S), todo # <<>>, Then(<<>>)
  PROVE  todo' = Tail(todo)
<1>1. Tail(todo) \in Seq(S)
  OBVIOUS
<1>2. todo' = <<>> \o Tail(todo)
  BY DEF Then
<1> HIDE DEF Then
<1> QED
  BY <1>1, <1>2

LEMMA EmitFlow ==
  ASSUME Typed, Bounds, EmitCode, NEW level, NEW at, Flow(level, at)
  PROVE  \E next : Flow(level, next)'
<1> DEFINE a == at[Len(instructions) + 1]
           frame == level[EndLabel]
<1>1. todo # <<>> /\ Task.do = "emit" /\ todo' = Tail(todo)
  BY Dropped DEF EmitCode, Doing, Typed
<1>2. PICK b \in Int : TaskPasses(level, frame, Task, a, b) /\ TasksRun(level, frame, Tail(todo), b, AtEntry)
  BY <1>1, StandsAt
<1>3. CodeRuns(level, Task.code, a, b)
  BY <1>1, <1>2 DEF TaskPasses
<1>4. Task.code \in Seq(Code(Names))
  <2>1. Task \in Tasks(Nodes[functions])
    BY <1>1 DEF Typed, Task
  <2> QED
    BY <1>1, <2>1, TaskFields
<1>5. instructions' = instructions \o Task.code /\ labels' = labels /\ EndLabel' = EndLabel
  BY DEF EmitCode, instruction_list_push_back, EndLabel
<1> QED
  BY <1>1, <1>2, <1>3, <1>4, <1>5, FlowExtended

LEMMA RspFlow ==
  ASSUME Typed, Bounds, gen_rsp, NEW level, NEW at, Flow(level, at)
  PROVE  \E next : Flow(level, next)'
<1> DEFINE a == at[Len(instructions) + 1]
           frame == level[EndLabel]
           i == IF Task.bytes > 0 THEN Instr("sub", rsp, Imm(Task.bytes)) ELSE Instr("add", rsp, Imm(-Task.bytes))
           code == <<i>>
<1>1. todo # <<>> /\ Task.do = "rsp" /\ todo' = Tail(todo)
  BY Dropped DEF gen_rsp, Doing, Typed
<1>2. PICK b \in Int : TaskPasses(level, frame, Task, a, b) /\ TasksRun(level, frame, Tail(todo), b, AtEntry)
  BY <1>1, StandsAt
<1>3. Task.bytes \in Int
  <2>1. Task \in Tasks(Nodes[functions])
    BY <1>1 DEF Typed, Task
  <2> QED
    BY <1>1, <2>1, TaskFields
<1>4. a \in Int
  BY <1>1, StandsAt
<1>5. Passes(level, i, a, b)
  <2>1. a >= 0 /\ b >= 0 /\ b = a + Task.bytes
    BY <1>1, <1>2 DEF TaskPasses
  <2>2. CASE Task.bytes > 0
    <3>1. i = Instr("sub", rsp, Imm(Task.bytes)) /\ a >= 0 /\ Task.bytes >= 0 /\ b = a + Task.bytes
      BY <1>3, <2>1, <2>2
    <3> HIDE DEF i
    <3> QED
      BY <3>1 DEF Passes, Instr, Imm, StackMoves, Branches
  <2>3. CASE ~(Task.bytes > 0)
    <3>1. i = Instr("add", rsp, Imm(-Task.bytes)) /\ -Task.bytes \in 0 .. a /\ b = a - (-Task.bytes)
      BY <1>3, <1>4, <2>1, <2>3
    <3> HIDE DEF i
    <3> QED
      BY <3>1 DEF Passes, Instr, Imm, StackMoves, Branches
  <2> QED
    BY <2>2, <2>3
<1>6. code \in Seq(Code(Names))
  <2>1. -Task.bytes \in Int /\ {} \in SUBSET Names
    BY <1>3
  <2>2. i \in Code(Names)
    <3>1. rsp \in Operands(Names) /\ Imm(Task.bytes) \in Operands(Names) /\ Imm(-Task.bytes) \in Operands(Names)
      BY <1>3, <2>1, OperandTypes DEF rsp, RegisterNames
    <3>2. "sub" \in Mnemonics /\ "add" \in Mnemonics
      BY DEF Mnemonics
    <3> QED
      BY <3>1, <3>2, InstructionTypes
  <2> HIDE DEF i
  <2> QED
    BY <2>2
<1>7. instructions' = instructions \o code /\ labels' = labels /\ EndLabel' = EndLabel
  <2>1. instructions' = instructions \o code /\ labels' = labels
    BY DEF gen_rsp, instruction_list_push_back
  <2>2. counters'.func = counters.func
    BY DEF gen_rsp, Typed, Counters
  <2> QED
    BY <2>1, <2>2 DEF EndLabel
<1> HIDE DEF i
<1>8. CodeRuns(level, code, a, b)
  BY <1>2, <1>4, <1>5, OneCodeRuns
<1> HIDE DEF code
<1> QED
  BY <1>1, <1>2, <1>6, <1>7, <1>8, FlowExtended

LEMMA BreakFlow ==
  ASSUME Typed, Bounds, Loops, gen_break, NEW level, NEW at, Flow(level, at)
  PROVE  \E next : Flow(level, next)'
<1> DEFINE a == at[Len(instructions) + 1]
           frame == level[EndLabel]
           label == <<".while_end", BreakTarget(while_stack)>>
           i == Jump("jmp", label)
           code == <<i>>
<1>1. todo # <<>> /\ Task.do = "stmt" /\ todo' = Tail(todo)
  BY Dropped DEF gen_break, DoingStmt, Doing, Typed
<1>2. PICK b \in Int : TaskPasses(level, frame, Task, a, b) /\ TasksRun(level, frame, Tail(todo), b, AtEntry)
  BY <1>1, StandsAt
<1>3. b = a /\ a = frame /\ a \in Nat
  <2>1. a \in Int
    BY <1>1, StandsAt
  <2>2. b = a /\ a = frame /\ a >= 0
    BY <1>1, <1>2 DEF TaskPasses
  <2> QED
    BY <2>1, <2>2
<1>4. label \in Pending
  BY BreakPending
<1>5. level[label] = frame
  <2>1. PICK k \in 1 .. Len(todo) : todo[k].do = "place" /\ todo[k].label = label
    BY <1>4 DEF Pending, Placing
  <2>2. PICK f \in [1 .. Len(todo) + 1 -> Int] :
          \A j \in 1 .. Len(todo) : TaskPasses(level, frame, todo[j], f[j], f[j + 1])
    BY DEF Flow, TasksRun
  <2>3. TaskPasses(level, frame, todo[k], f[k], f[k + 1]) /\ label[1] = ".while_end"
    BY <2>2
  <2> HIDE DEF label, frame
  <2>4. level[label] = f[k] /\ f[k] = frame
    BY <2>1, <2>3 DEF TaskPasses
  <2> QED
    BY <2>4
<1>6. Passes(level, i, a, a)
  <2>1. "jmp" \in Branches
    BY DEF Branches
  <2> QED
    BY <1>3, <1>5, <2>1, OwnFlow
<1>7. code \in Seq(Code(Names))
  <2>1. label \in Names
    BY <1>4, DefinedTypes
  <2> HIDE DEF label
  <2>2. ConstFalse \in Names /\ Names \in SUBSET Names
    BY DEF ConstFalse, Names, LabelNames, DataNames
  <2>3. i \in Code(Names)
    BY <2>1, <2>2, CodeTypes DEF Mnemonics
  <2> HIDE DEF i
  <2> QED
    BY <2>3
<1>8. instructions' = instructions \o code /\ labels' = labels /\ EndLabel' = EndLabel
  BY DEF gen_break, instruction_list_push_back, EndLabel
<1> HIDE DEF i
<1>9. CodeRuns(level, code, a, b)
  BY <1>3, <1>6, OneCodeRuns
<1> HIDE DEF code
<1> QED
  BY <1>1, <1>2, <1>7, <1>8, <1>9, FlowExtended

LEMMA PlaceFlow ==
  ASSUME Typed, PlaceLabel, NEW level, NEW at, Flow(level, at)
  PROVE  Flow(level, at)'
<1> DEFINE a == at[Len(instructions) + 1]
           frame == level[EndLabel]
           mark == [label |-> Task.label, index |-> Len(instructions)]
           added == <<mark>>
<1>1. todo # <<>> /\ Task.do = "place" /\ todo' = Tail(todo)
  BY Dropped DEF PlaceLabel, Doing, Typed
<1>2. PICK b \in Int : TaskPasses(level, frame, Task, a, b) /\ TasksRun(level, frame, Tail(todo), b, AtEntry)
  BY <1>1, StandsAt
<1>3. b = a /\ level[Task.label] = a /\ Task.label[1] \notin {"__out", "__in"}
  BY <1>1, <1>2 DEF TaskPasses
<1>4. /\ Levels(level) /\ CodeAt(level, instructions, at) /\ at[1] = AtEntry
      /\ \A j \in 1 .. Len(labels) :
           /\ labels[j].label[1] \notin {"__out", "__in"}
           /\ level[labels[j].label] = at[labels[j].index + 1]
  BY DEF Flow
<1>5. labels' = labels \o added /\ instructions' = instructions /\ EndLabel' = EndLabel
  BY DEF PlaceLabel, label_list_push_back, EndLabel
<1>6. mark.label = Task.label /\ mark.index = Len(instructions)
  OBVIOUS
<1> HIDE DEF mark
<1>7. \A j \in 1 .. Len(labels') :
        /\ labels'[j].label[1] \notin {"__out", "__in"}
        /\ level[labels'[j].label] = at[labels'[j].index + 1]
  <2> DEFINE S == Marks \cup {mark}
             list == labels'
  <2>1. labels \in Seq(S) /\ added \in Seq(S) /\ Len(added) = 1 /\ added[1] = mark
    BY DEF Typed
  <2>2. list = labels \o added
    BY <1>5
  <2> HIDE DEF S, added, list
  <2>3. /\ list \in Seq(S) /\ Len(list) = Len(labels) + Len(added)
        /\ \A i \in 1 .. Len(labels) : list[i] = labels[i]
        /\ \A i \in 1 .. Len(added) : list[Len(labels) + i] = added[i]
    <3>1. labels \in Seq(S) /\ added \in Seq(S)
      BY <2>1
    <3> QED
      BY <2>2, <3>1, TwoParts
  <2>4. Len(labels) \in Nat
    BY <2>1
  <2>5. list[Len(labels) + 1] = mark /\ Len(list) = Len(labels) + 1
    BY <2>1, <2>3, <2>4
  <2>6. \A j \in 1 .. Len(list) : j \in 1 .. Len(labels) \/ j = Len(labels) + 1
    BY <2>4, <2>5
  <2>7. mark.label[1] \notin {"__out", "__in"} /\ level[mark.label] = at[mark.index + 1]
    BY <1>3, <1>6
  <2>8. \A j \in 1 .. Len(list) :
          /\ list[j].label[1] \notin {"__out", "__in"}
          /\ level[list[j].label] = at[list[j].index + 1]
    BY <1>4, <2>3, <2>5, <2>6, <2>7
  <2> QED
    BY <2>8 DEF list
<1>8. TasksRun(level, level[EndLabel'], todo', at[Len(instructions') + 1], AtEntry)
  BY <1>1, <1>2, <1>3, <1>5
<1>9. CodeAt(level, instructions', at)
  BY <1>4, <1>5
<1> QED
  BY <1>4, <1>7, <1>8, <1>9 DEF Flow

(* A function, from its entry to its last instruction. *)
LEMMA PrologueRuns ==
  ASSUME NEW level, NEW frame \in Nat
  PROVE  CodeRuns(level, Prologue(frame), AtEntry, frame) /\ CodeRuns(level, Epilogue(frame), frame, AtEntry)
<1>1. CodeRuns(level, Prologue(frame), AtEntry, frame)
  <2> DEFINE code == Prologue(frame)
             at == [i \in 1 .. 4 |-> IF i = 1 THEN AtEntry ELSE IF i = 2 THEN Pushed ELSE IF i = 3 THEN 0 ELSE frame]
  <2>1. /\ Len(code) = 3 /\ code[1] = Instr1("push", rbp) /\ code[2] = Instr("mov", rbp, rsp)
        /\ code[3] = Instr("sub", rsp, Imm(frame))
    BY DEF Prologue
  <2>2. at \in [1 .. 4 -> Int] /\ at[1] = AtEntry /\ at[2] = Pushed /\ at[3] = 0 /\ at[4] = frame
    BY DEF AtEntry, Pushed
  <2>3. Passes(level, Instr1("push", rbp), AtEntry, Pushed)
    BY DEF Passes, Instr1, Instr, StackMoves, Branches, rbp
  <2>4. Passes(level, Instr("mov", rbp, rsp), Pushed, 0)
    BY DEF Passes, Instr, StackMoves, Branches, rbp
  <2>5. Passes(level, Instr("sub", rsp, Imm(frame)), 0, frame)
    <3>1. 0 >= 0 /\ frame >= 0 /\ frame = 0 + frame
      OBVIOUS
    <3> QED
      BY <3>1 DEF Passes, Instr, Imm, StackMoves, Branches
  <2> HIDE DEF code, at
  <2>6. \A i \in 1 .. Len(code) : Passes(level, code[i], at[i], at[i + 1])
    <3>1. \A i \in 1 .. Len(code) : (i = 1 /\ i + 1 = 2) \/ (i = 2 /\ i + 1 = 3) \/ (i = 3 /\ i + 1 = 4)
      BY <2>1
    <3> QED
      BY <2>1, <2>2, <2>3, <2>4, <2>5, <3>1
  <2>7. CodeAt(level, code, at) /\ at[1] = AtEntry /\ at[Len(code) + 1] = frame
    BY <2>1, <2>2, <2>6 DEF CodeAt
  <2> QED
    BY <2>7 DEF CodeRuns, code
<1>2. CodeRuns(level, Epilogue(frame), frame, AtEntry)
  <2> DEFINE code == Epilogue(frame)
             at == [i \in 1 .. 3 |-> IF i = 1 THEN frame ELSE IF i = 2 THEN 0 ELSE AtEntry]
  <2>1. Len(code) = 2 /\ code[1] = Instr("add", rsp, Imm(frame)) /\ code[2] = Instr1("pop", rbp)
    BY DEF Epilogue
  <2>2. at \in [1 .. 3 -> Int] /\ at[1] = frame /\ at[2] = 0 /\ at[3] = AtEntry
    BY DEF AtEntry
  <2>3. Passes(level, Instr("add", rsp, Imm(frame)), frame, 0)
    <3>1. frame \in 0 .. frame /\ 0 = frame - frame
      OBVIOUS
    <3> QED
      BY <3>1 DEF Passes, Instr, Imm, StackMoves, Branches
  <2>4. Passes(level, Instr1("pop", rbp), 0, AtEntry)
    BY DEF Passes, Instr1, Instr, StackMoves, Branches, rbp
  <2> HIDE DEF code, at
  <2>5. \A i \in 1 .. Len(code) : Passes(level, code[i], at[i], at[i + 1])
    <3>1. \A i \in 1 .. Len(code) : (i = 1 /\ i + 1 = 2) \/ (i = 2 /\ i + 1 = 3)
      BY <2>1
    <3> QED
      BY <2>1, <2>2, <2>3, <2>4, <3>1
  <2>6. CodeAt(level, code, at) /\ at[1] = frame /\ at[Len(code) + 1] = AtEntry
    BY <2>1, <2>2, <2>5 DEF CodeAt
  <2> QED
    BY <2>6 DEF CodeRuns, code
<1> QED
  BY <1>1, <1>2

LEMMA FrameTypes ==
  ASSUME NEW n \in Nat
  PROVE  AlignUp16(n) \in Nat
BY DEF AlignUp16

LEMMA FuncFlow ==
  ASSUME Typed, InOrder, gen_func, NEW level, NEW at, Flow(level, at)
  PROVE  Flow(level, at)'
<1> DEFINE N == Nodes[functions]
           f == Task.func
           frame == AlignUp16(f.frame_size)
           main == <<"main", 0>>
           start == <<"func", f.id>>
           end == <<"func_end", f.id>>
           leave == IF IsEntry(f) THEN Jump("call", <<"__exit", 0>>) ELSE Instr0("ret")
           prologue == Emit(Prologue(frame))
           clear == Emit(<<Clear>>)
           epilogue == Emit(Epilogue(frame))
           last == Emit(<<leave>>)
           body == Stmt(f.body)
           entry == If(IsEntry(f), <<Place(main)>>)
           begin == <<Place(start), prologue>>
           params == [i \in 1 .. f.params |-> Emit(TakeParam(i))]
           rest == <<body, clear, Place(end), epilogue, last>>
           takes == {Emit(TakeParam(i)) : i \in 1 .. f.params}
           S == {Place(main), Place(start), prologue, body, clear, Place(end), epilogue, last} \cup takes \cup Tasks(N)
           a == at[Len(instructions) + 1]
<1>1. todo # <<>> /\ Task.do = "func" /\ Task \in Tasks(N)
  BY DEF gen_func, Doing, Typed, Task
<1>2. f.id \in Nat /\ f.params \in Nat /\ f.frame_size \in Nat
  <2>1. f \in FuncOf(N)
    BY <1>1, TaskFields
  <2> QED
    BY <2>1 DEF FuncOf
<1>3. frame \in Nat
  BY <1>2, FrameTypes
<1>4. /\ counters' = [counters EXCEPT !.func = f.id, !.stack_offset = 0]
      /\ UNCHANGED <<instructions, labels>>
      /\ Then(entry \o begin \o params \o rest)
  BY DEF gen_func, IsEntry
<1>5. a = AtEntry /\ level[end] = frame /\ TasksRun(level, level[EndLabel], Tail(todo), AtEntry, AtEntry)
  <2>1. PICK b \in Int : /\ TaskPasses(level, level[EndLabel], Task, a, b)
                         /\ TasksRun(level, level[EndLabel], Tail(todo), b, AtEntry)
    BY <1>1, StandsAt
  <2>2. b = a /\ a = AtEntry /\ level[end] = frame
    BY <1>1, <2>1 DEF TaskPasses
  <2> QED
    BY <2>1, <2>2
<1>6. level[main] = AtEntry /\ level[start] = AtEntry
  <2>1. main \in Names /\ start \in Names /\ main[1] \in EntryLabels /\ start[1] \in EntryLabels
    BY <1>2 DEF Names, LabelNames, GlobalNames, EntryLabels
  <2>2. Levels(level)
    BY DEF Flow
  <2> QED
    BY <2>1, <2>2 DEF Levels
<1>7. EndLabel' = end
  BY <1>4 DEF EndLabel, Typed, Counters
<1>8. /\ TaskPasses(level, frame, Place(main), AtEntry, AtEntry)
      /\ TaskPasses(level, frame, Place(start), AtEntry, AtEntry)
      /\ TaskPasses(level, frame, Place(end), frame, frame)
  BY <1>5, <1>6 DEF TaskPasses, Place
<1>9. /\ TaskPasses(level, frame, prologue, AtEntry, frame)
      /\ TaskPasses(level, frame, epilogue, frame, AtEntry)
  BY <1>3, PrologueRuns DEF TaskPasses, Emit
<1>10. TaskPasses(level, frame, body, frame, frame)
  BY <1>3, StillTasks
<1>11. TaskPasses(level, frame, clear, frame, frame)
  BY <1>3, StillTasks, StillInstructions
<1>12. TaskPasses(level, frame, last, AtEntry, AtEntry)
  <2>1. Passes(level, leave, AtEntry, AtEntry)
    BY DEF Passes, Jump, Target, Instr0, Instr1, Instr, StackMoves, Branches
  <2>2. AtEntry \in Int
    BY DEF AtEntry
  <2> HIDE DEF leave
  <2>3. CodeRuns(level, <<leave>>, AtEntry, AtEntry)
    BY <2>1, <2>2, OneCodeRuns
  <2> QED
    BY <2>3 DEF TaskPasses, Emit
<1>13. \A t \in takes : TaskPasses(level, frame, t, frame, frame)
  <2> SUFFICES ASSUME NEW i \in 1 .. f.params
               PROVE  TaskPasses(level, frame, Emit(TakeParam(i)), frame, frame)
    OBVIOUS
  <2>1. 8 * i \in Int /\ 8 * i >= 8
    BY <1>2
  <2>2. Passes(level, Store(Slot(8 * i)), frame, frame) /\ Passes(level, Load(Mem("rbp", 8 * (i + 1))), frame, frame)
    BY <1>3, <2>1, StillInstructions
  <2> QED
    BY <1>3, <2>2, StillTasks DEF TakeParam
<1>14. AtEntry \in Int /\ frame \in Int
  BY <1>3 DEF AtEntry
<1>15. entry \in Seq(S) /\ begin \in Seq(S) /\ params \in Seq(S) /\ rest \in Seq(S)
  <2>1. entry = <<>> \/ entry = <<Place(main)>>
    BY DEF If
  <2>2. \A i \in 1 .. f.params : Emit(TakeParam(i)) \in S
    OBVIOUS
  <2> DEFINE t1 == Place(main)
             t2 == Place(start)
             t3 == Place(end)
  <2>3. t1 \in S /\ t2 \in S /\ t3 \in S /\ prologue \in S /\ body \in S /\ clear \in S /\ epilogue \in S /\ last \in S
    OBVIOUS
  <2> HIDE DEF S, prologue, body, clear, epilogue, last, t1, t2, t3
  <2>4. <<t1>> \in Seq(S) /\ <<t2, prologue>> \in Seq(S) /\ <<body, clear, t3, epilogue, last>> \in Seq(S)
    BY <2>3
  <2>5. params \in Seq(S)
    BY <1>2, <2>2
  <2>6. begin \in Seq(S) /\ rest \in Seq(S)
    BY <2>4 DEF t2, t3
  <2>7. entry \in Seq(S)
    <3>1. <<>> \in Seq(S) /\ <<Place(main)>> \in Seq(S)
      BY <2>4 DEF t1
    <3> HIDE DEF entry
    <3> QED
      BY <2>1, <3>1
  <2> QED
    BY <2>5, <2>6, <2>7
<1> HIDE DEF prologue, body, clear, epilogue, last, main, start, end, frame
<1>16. TasksRun(level, frame, entry, AtEntry, AtEntry)
  <2>1. entry = <<>> \/ entry = <<Place(main)>>
    BY DEF If
  <2>2. TasksRun(level, frame, <<>>, AtEntry, AtEntry) /\ TasksRun(level, frame, <<Place(main)>>, AtEntry, AtEntry)
    BY <1>8, <1>14, FewTasksRun
  <2> HIDE DEF entry
  <2> QED
    BY <2>1, <2>2
<1>17. TasksRun(level, frame, begin, AtEntry, frame)
  <2>1. TasksRun(level, frame, <<Place(start)>>, AtEntry, AtEntry) /\ TasksRun(level, frame, <<prologue>>, AtEntry, frame)
    BY <1>8, <1>9, <1>14, OneTaskRuns
  <2> DEFINE one == <<Place(start)>>
             two == <<prologue>>
             U == {Place(start), prologue}
  <2>2. one \in Seq(U) /\ two \in Seq(U) /\ begin = one \o two
    OBVIOUS
  <2> HIDE DEF U, one, two, begin
  <2>3. TasksRun(level, frame, one, AtEntry, AtEntry) /\ TasksRun(level, frame, two, AtEntry, frame)
    BY <2>1 DEF one, two
  <2>4. TasksRun(level, frame, one \o two, AtEntry, frame)
    BY <2>2, <2>3, ConcatRuns
  <2> QED
    BY <2>2, <2>4
<1>18. TasksRun(level, frame, params, frame, frame)
  <2>1. params \in Seq(takes)
    BY <1>2
  <2> HIDE DEF params, takes
  <2> QED
    BY <1>13, <1>14, <2>1, SetRuns
<1>19. TasksRun(level, frame, rest, frame, AtEntry)
  <2> DEFINE U == {body, clear, Place(end)}
             V == U \cup {epilogue, last}
             inner == <<body, clear, Place(end)>>
             one == <<epilogue>>
             two == <<last>>
             both == inner \o one
  <2>1. inner \in Seq(U)
    OBVIOUS
  <2>2. \A t \in U : TaskPasses(level, frame, t, frame, frame)
    BY <1>8, <1>10, <1>11
  <2>3. inner \in Seq(V)
    OBVIOUS
  <2>4. one \in Seq(V) /\ two \in Seq(V) /\ rest = both \o two
    <3>1. one \in Seq(V) /\ two \in Seq(V) /\ inner \in Seq(V) /\ <<body, clear, Place(end), epilogue>> = inner \o one
      OBVIOUS
    <3>2. <<body, clear, Place(end), epilogue>> \in Seq(V) /\ two \in Seq(V)
          /\ rest = <<body, clear, Place(end), epilogue>> \o two
      OBVIOUS
    <3> HIDE DEF one, two, inner, rest
    <3> QED
      BY <3>1, <3>2
  <2>5. TasksRun(level, frame, one, frame, AtEntry)
    BY <1>9, <1>14, OneTaskRuns
  <2>6. TasksRun(level, frame, two, AtEntry, AtEntry)
    BY <1>12, <1>14, OneTaskRuns
  <2> HIDE DEF U, V, inner, one, two, rest
  <2>7. TasksRun(level, frame, inner, frame, frame)
    BY <1>14, <2>1, <2>2, SetRuns
  <2>8. both \in Seq(V) /\ TasksRun(level, frame, both, frame, AtEntry)
    BY <2>3, <2>4, <2>5, <2>7, ConcatRuns
  <2> HIDE DEF both
  <2>9. TasksRun(level, frame, both \o two, frame, AtEntry)
    BY <2>4, <2>6, <2>8, ConcatRuns
  <2> QED
    BY <2>4, <2>9
<1>20. Tail(todo) \in Seq(S) /\ TasksRun(level, frame, Tail(todo), AtEntry, AtEntry)
  <2> DEFINE left == Tail(todo)
             T == Tasks(N)
  <2>1. todo \in Seq(T)
    BY DEF Typed
  <2>2. T \subseteq S
    OBVIOUS
  <2> HIDE DEF T, S
  <2>3. left \in Seq(T) /\ Len(left) = Len(todo) - 1 /\ \A i \in 1 .. Len(left) : left[i] = todo[i + 1] /\ i + 1 \in 1 .. Len(todo)
    BY <1>1, <2>1
  <2>4. left \in Seq(S)
    <3>1. Seq(T) \subseteq Seq(S)
      BY <2>2, SeqWider
    <3> QED
      BY <2>3, <3>1
  <2>5. \A i \in 1 .. Len(todo) : todo[i].do \in {"func", "exit"}
    BY <1>1, <2>1, OnlyFunctionsLeft
  <2>6. PICK g \in [1 .. Len(left) + 1 -> Int] :
          /\ g[1] = AtEntry /\ g[Len(left) + 1] = AtEntry
          /\ \A i \in 1 .. Len(left) : TaskPasses(level, level[EndLabel], left[i], g[i], g[i + 1])
    BY <1>5 DEF TasksRun
  <2>7. ASSUME NEW i \in 1 .. Len(left)
        PROVE  TaskPasses(level, frame, left[i], g[i], g[i + 1])
    <3>1. left[i].do \in {"func", "exit"}
      BY <2>3, <2>5
    <3>2. TaskPasses(level, level[EndLabel], left[i], g[i], g[i + 1])
      BY <2>6
    <3> HIDE DEF left
    <3> QED
      BY <3>1, <3>2 DEF TaskPasses
  <2> HIDE DEF left
  <2>8. TasksRun(level, frame, left, AtEntry, AtEntry)
    BY <2>6, <2>7 DEF TasksRun
  <2> QED
    BY <2>4, <2>8 DEF left
<1> DEFINE one == entry \o begin
           two == one \o params
           three == two \o rest
           left == Tail(todo)
<1>21. TasksRun(level, frame, three \o left, AtEntry, AtEntry)
  <2> HIDE DEF entry, begin, params, rest, S, one, two, three, left
  <2>1. one \in Seq(S) /\ TasksRun(level, frame, one, AtEntry, frame)
    BY <1>15, <1>16, <1>17, ConcatRuns DEF one
  <2>2. two \in Seq(S) /\ TasksRun(level, frame, two, AtEntry, frame)
    BY <1>15, <1>18, <2>1, ConcatRuns DEF two
  <2>3. three \in Seq(S) /\ TasksRun(level, frame, three, AtEntry, AtEntry)
    BY <1>15, <1>19, <2>2, ConcatRuns DEF three
  <2>4. left \in Seq(S) /\ TasksRun(level, frame, left, AtEntry, AtEntry)
    BY <1>20 DEF left
  <2> QED
    BY <2>3, <2>4, ConcatRuns
<1>22. todo' = three \o left
  BY <1>4 DEF Then
<1> HIDE DEF three, left, a
<1>23. TasksRun(level, level[EndLabel'], todo', AtEntry, AtEntry)
  BY <1>5, <1>7, <1>21, <1>22
<1>24. at[Len(instructions') + 1] = AtEntry
  BY <1>4, <1>5 DEF a
<1>25. /\ Levels(level) /\ CodeAt(level, instructions', at) /\ at[1] = AtEntry
       /\ \A j \in 1 .. Len(labels') :
            /\ labels'[j].label[1] \notin {"__out", "__in"}
            /\ level[labels'[j].label] = at[labels'[j].index + 1]
  BY <1>4 DEF Flow
<1> QED
  BY <1>23, <1>24, <1>25 DEF Flow

(* The end of the program. *)
LEMMA ExitFlow ==
  ASSUME Typed, Bounds, InOrder, DataInOrder, gen_exit, NEW level, NEW at, Flow(level, at)
  PROVE  \E next : Flow(level, next)'
<1> DEFINE first == <<Instr("mov", Reg("rax"), Imm(60)), Instr("xor", Reg("rdi"), Reg("rdi")), Instr0("syscall")>>
           second == [i \in 1 .. Len(rodata) |-> Instr1("dq", Imm(rodata[i].value))]
           code == first \o second
           text == Len(instructions) + 3
           new == <<[label |-> <<"__exit", 0>>, index |-> Len(instructions)]>>
                  \o [i \in 1 .. Len(rodata) |-> [label |-> rodata[i].label, index |-> text + i - 1]]
           m == Len(instructions)
           r == Len(rodata)
           S == {Instr("mov", Reg("rax"), Imm(60)), Instr("xor", Reg("rdi"), Reg("rdi")), Instr0("syscall")}
                \cup {Instr1("dq", Imm(rodata[i].value)) : i \in 1 .. Len(rodata)}
           list == labels'
<1>1. /\ code \in Seq(Code({})) /\ instructions' = instructions \o code
      /\ new \in Seq(Marks) /\ list = labels \o new
      /\ Len(new) = r + 1 /\ new[1].label = <<"__exit", 0>> /\ new[1].index = m
      /\ \A i \in 1 .. r : new[i + 1].label = rodata[i].label /\ new[i + 1].index = m + i + 2
      /\ Len(code) = r + 3
  BY ExitTypes
<1>2. \A i \in 1 .. Len(code) : code[i] \in S
  <2>1. r \in Nat
    BY DEF Typed
  <2>2. first \in Seq(S)
    OBVIOUS
  <2>3. second \in Seq(S)
    BY <2>1
  <2> HIDE DEF first, second, S
  <2>4. code \in Seq(S)
    BY <2>2, <2>3
  <2> QED
    BY <2>4
<1>3. \A i \in S : Passes(level, i, AtEntry, AtEntry)
  <2> USE DEF Passes, StackMoves, Branches, Instr
  <2>1. Passes(level, Instr("mov", Reg("rax"), Imm(60)), AtEntry, AtEntry)
    BY DEF Reg, rbp
  <2>2. Passes(level, Instr("xor", Reg("rdi"), Reg("rdi")), AtEntry, AtEntry)
    OBVIOUS
  <2>3. Passes(level, Instr0("syscall"), AtEntry, AtEntry)
    BY DEF Instr0
  <2>4. \A v : Passes(level, Instr1("dq", v), AtEntry, AtEntry)
    BY DEF Instr1
  <2> HIDE DEF Passes, StackMoves, Branches, Instr
  <2> QED
    BY <2>1, <2>2, <2>3, <2>4
<1> HIDE DEF code, new, S
<1>4. /\ Levels(level) /\ CodeAt(level, instructions, at) /\ at[1] = AtEntry
      /\ \A j \in 1 .. Len(labels) :
           /\ labels[j].label[1] \notin {"__out", "__in"}
           /\ level[labels[j].label] = at[labels[j].index + 1]
  BY DEF Flow
<1>5. todo # <<>> /\ Task.do = "exit" /\ m \in Nat /\ r \in Nat
  BY DEF gen_exit, Doing, Typed
<1>6. at[m + 1] = AtEntry
  <2>1. PICK b \in Int : TaskPasses(level, level[EndLabel], Task, at[m + 1], b)
    BY <1>5, StandsAt
  <2> QED
    BY <1>5, <2>1 DEF TaskPasses
<1>7. todo' = <<>>
  <2> DEFINE T == Tasks(Nodes[functions])
  <2>1. todo \in Seq(T)
    BY DEF Typed
  <2> HIDE DEF T
  <2>2. Len(todo) = 1
    BY <1>5, <2>1, OnlyFunctionsLeft
  <2>3. todo' = Tail(todo)
    BY <1>5, <2>1, Dropped DEF gen_exit
  <2> QED
    BY <2>1, <2>2, <2>3
<1> DEFINE g == [i \in 1 .. r + 4 |-> AtEntry]
<1>8. AtEntry \in Int /\ \A i \in 1 .. r + 4 : g[i] = AtEntry
  BY DEF AtEntry
<1>9. g \in [1 .. r + 4 -> Int]
  BY <1>8
<1> HIDE DEF g, first, second
<1>10. CodeAt(level, code, g)
  <2>1. Len(code) + 1 = r + 4 /\ \A i \in 1 .. Len(code) : i \in 1 .. r + 4 /\ i + 1 \in 1 .. r + 4
    BY <1>1, <1>5
  <2>2. \A i \in 1 .. Len(code) : Passes(level, code[i], g[i], g[i + 1])
    BY <1>2, <1>3, <1>8, <2>1
  <2> QED
    BY <1>9, <2>1, <2>2 DEF CodeAt
<1>11. g[1] = at[Len(instructions) + 1]
  <2>1. 1 \in 1 .. r + 4
    BY <1>5
  <2> QED
    BY <1>6, <1>8, <2>1
<1>12. instructions \in Seq(Code(Names)) /\ code \in Seq(Code(Names))
  <2>1. Code({}) \subseteq Code(Names)
    BY CodeMonotone
  <2>2. Seq(Code({})) \subseteq Seq(Code(Names))
    BY <2>1, SeqWider
  <2> QED
    BY <1>1, <2>2 DEF Typed
<1>13. PICK next : /\ CodeAt(level, instructions \o code, next)
                   /\ \A i \in 1 .. Len(instructions) + 1 : next[i] = at[i]
                   /\ \A i \in 1 .. Len(code) + 1 : next[Len(instructions) + i] = g[i]
  BY <1>4, <1>10, <1>11, <1>12, CodeJoined
<1>14. \A i \in 1 .. r + 4 : next[m + i] = AtEntry
  <2>1. Len(code) + 1 = r + 4
    BY <1>1, <1>5
  <2> QED
    BY <1>8, <1>13, <2>1
<1>15. CodeAt(level, instructions', next) /\ next[1] = AtEntry /\ next[Len(instructions') + 1] = AtEntry
  <2>1. Len(instructions') = m + (r + 3)
    <3>1. Len(instructions \o code) = Len(instructions) + Len(code)
      BY <1>12
    <3>2. instructions' = instructions \o code /\ Len(code) = r + 3
      BY <1>1
    <3> QED
      BY <3>1, <3>2
  <2>2. Len(instructions') + 1 = m + (r + 4) /\ r + 4 \in 1 .. r + 4 /\ 1 \in 1 .. m + 1
    BY <1>5, <2>1
  <2>3. next[1] = AtEntry
    BY <1>4, <1>13, <2>2
  <2>4. CodeAt(level, instructions', next)
    BY <1>1, <1>13
  <2> QED
    BY <1>14, <2>2, <2>3, <2>4
<1>16. \A j \in 1 .. Len(labels) :
         /\ labels[j].label[1] \notin {"__out", "__in"}
         /\ level[labels[j].label] = next[labels[j].index + 1]
  <2>1. \A j \in 1 .. Len(labels) : labels[j].index + 1 \in 1 .. m + 1
    BY <1>5 DEF Bounds
  <2> QED
    BY <1>4, <1>13, <2>1
<1>17. \A i \in 1 .. r + 1 : new[i].label \in Names /\ new[i].label[1] \in DataNames \cup {"__exit"}
  <2>1. \A i \in 1 .. Len(new) : new[i].label \in Names
    <3>1. \A i \in 1 .. Len(new) : new[i] \in Marks
      BY <1>1
    <3> QED
      BY <3>1 DEF Marks
  <2>2. new[1].label[1] = "__exit"
    BY <1>1
  <2>3. \A i \in 1 .. r : rodata[i].label[1] \in DataNames
    <3>1. rodata[1].label = ConstTrue /\ rodata[2].label = ConstFalse
          /\ \A i \in 3 .. Len(rodata) : rodata[i].label = <<"const", i - 3>>
      BY DEF DataInOrder
    <3>2. \A i \in 1 .. r : i = 1 \/ i = 2 \/ i \in 3 .. Len(rodata)
      BY <1>5
    <3> QED
      BY <3>1, <3>2 DEF ConstTrue, ConstFalse, DataNames
  <2>4. \A i \in 2 .. r + 1 : new[i].label[1] \in DataNames
    <3> SUFFICES ASSUME NEW i \in 2 .. r + 1 PROVE new[i].label[1] \in DataNames
      OBVIOUS
    <3>1. i - 1 \in 1 .. r /\ (i - 1) + 1 = i
      BY <1>5
    <3>2. new[i].label = rodata[i - 1].label
      BY <1>1, <3>1
    <3> QED
      BY <2>3, <3>1, <3>2
  <2>5. \A i \in 1 .. r + 1 : i = 1 \/ i \in 2 .. r + 1
    BY <1>5
  <2> QED
    BY <1>1, <2>1, <2>2, <2>4, <2>5
<1>18. \A i \in 1 .. r + 1 : new[i].label[1] \notin {"__out", "__in"} /\ level[new[i].label] = AtEntry
  <2>1. DataNames \cup {"__exit"} \subseteq EntryLabels
    BY DEF EntryLabels
  <2>2. "__out" \notin DataNames \cup {"__exit"} /\ "__in" \notin DataNames \cup {"__exit"}
    BY DEF DataNames
  <2> QED
    BY <1>4, <1>17, <2>1, <2>2 DEF Levels
<1>19. \A i \in 1 .. r + 1 : next[new[i].index + 1] = AtEntry
  <2> SUFFICES ASSUME NEW i \in 1 .. r + 1 PROVE next[new[i].index + 1] = AtEntry
    OBVIOUS
  <2>1. CASE i = 1
    <3>1. new[i].index + 1 = m + 1 /\ 1 \in 1 .. r + 4
      BY <1>1, <1>5, <2>1
    <3> QED
      BY <1>14, <3>1
  <2>2. CASE i # 1
    <3>1. i - 1 \in 1 .. r /\ (i - 1) + 1 = i
      BY <1>5, <2>2
    <3>2. new[i].index = m + (i - 1) + 2
      BY <1>1, <3>1
    <3>3. new[i].index + 1 = m + (i + 2) /\ i + 2 \in 1 .. r + 4
      BY <1>5, <3>1, <3>2
    <3> QED
      BY <1>14, <3>3
  <2> QED
    BY <2>1, <2>2
<1>20. \A j \in 1 .. Len(list) :
         /\ list[j].label[1] \notin {"__out", "__in"}
         /\ level[list[j].label] = next[list[j].index + 1]
  <2> HIDE DEF list
  <2>1. labels \in Seq(Marks) /\ new \in Seq(Marks)
    BY <1>1 DEF Typed
  <2>2. /\ list \in Seq(Marks) /\ Len(list) = Len(labels) + Len(new)
        /\ \A i \in 1 .. Len(labels) : list[i] = labels[i]
        /\ \A i \in 1 .. Len(new) : list[Len(labels) + i] = new[i]
    <3>1. list = labels \o new
      BY <1>1
    <3> QED
      BY <2>1, <3>1, TwoParts
  <2>3. Len(labels) \in Nat
    BY <2>1
  <2> SUFFICES ASSUME NEW j \in 1 .. Len(list)
               PROVE  /\ list[j].label[1] \notin {"__out", "__in"}
                      /\ level[list[j].label] = next[list[j].index + 1]
    OBVIOUS
  <2>4. CASE j <= Len(labels)
    <3>1. j \in 1 .. Len(labels)
      BY <2>3, <2>4
    <3> QED
      BY <1>16, <2>2, <3>1
  <2>5. CASE j > Len(labels)
    <3> DEFINE i == j - Len(labels)
    <3>1. i \in 1 .. r + 1 /\ Len(labels) + i = j
      BY <1>1, <1>5, <2>2, <2>3, <2>5
    <3> HIDE DEF i
    <3>2. list[j] = new[i]
      BY <1>1, <2>2, <3>1
    <3> QED
      BY <1>18, <1>19, <3>1, <3>2
  <2> QED
    BY <2>3, <2>4, <2>5
<1>21. TasksRun(level, level[EndLabel'], todo', next[Len(instructions') + 1], AtEntry)
  <2>1. TasksRun(level, level[EndLabel'], <<>>, AtEntry, AtEntry)
    BY <1>8, FewTasksRun
  <2> QED
    BY <1>7, <1>15, <2>1
<1>22. \A j \in 1 .. Len(labels') :
         /\ labels'[j].label[1] \notin {"__out", "__in"}
         /\ level[labels'[j].label] = next[labels'[j].index + 1]
  BY <1>20
<1> HIDE DEF list
<1> QED
  BY <1>4, <1>15, <1>21, <1>22 DEF Flow

-----------------------------------------------------------------------------
(* Every step. *)

(* A walk that replaces a task and takes no number for labels. *)
LEMMA WalkFlow ==
  ASSUME Typed, NEW level, NEW at, Flow(level, at),
         \/ gen_block \/ gen_nothing \/ gen_var_decl \/ gen_ret \/ gen_var \/ gen_num \/ gen_arithmetic
         \/ gen_assign \/ gen_cmp_right \/ gen_call \/ gen_out \/ gen_in \/ gen_sqrt \/ CallAligned
  PROVE  Flow(level, at)'
<1> DEFINE a == at[Len(instructions) + 1]
           frame == level[EndLabel]
<1>1. /\ todo # <<>> /\ Task.do \in {"expr", "stmt", "call"}
      /\ (gen_block \/ gen_nothing \/ gen_var_decl \/ gen_ret) => Task.do = "stmt"
  BY DEF gen_block, gen_nothing, gen_var_decl, gen_ret, gen_var, gen_num, gen_arithmetic, gen_assign,
         gen_cmp_right, gen_call, gen_out, gen_in, gen_sqrt, CallAligned, Doing, DoingExpr, DoingOp, DoingCall, DoingStmt
<1>2. PICK b \in Int : TaskPasses(level, frame, Task, a, b)
  BY <1>1, StandsAt
<1>3. a \in Nat /\ (Task.do = "stmt" => a = frame)
  <2>1. a \in Int
    BY <1>1, StandsAt
  <2>2. a >= 0 /\ (Task.do = "stmt" => a = frame)
    BY <1>1, <1>2 DEF TaskPasses
  <2> QED
    BY <2>1, <2>2
<1>4. UNCHANGED <<instructions, labels>> /\ counters'.func = counters.func
  <2>1. UNCHANGED <<instructions, labels>>
    BY DEF gen_block, gen_nothing, gen_var_decl, gen_ret, gen_var, gen_num, gen_arithmetic, gen_assign,
           gen_cmp_right, gen_call, gen_out, gen_in, gen_sqrt, CallAligned, Replace
  <2>2. counters' = counters \/ counters' = [counters EXCEPT !.const = @ + 1]
    BY DEF gen_block, gen_nothing, gen_var_decl, gen_ret, gen_var, gen_num, gen_arithmetic, gen_assign,
           gen_cmp_right, gen_call, gen_out, gen_in, gen_sqrt, CallAligned, Replace
  <2>3. counters \in Counters
    BY DEF Typed
  <2> QED
    BY <2>1, <2>2, <2>3 DEF Counters
<1> HIDE DEF a
<1>5. Continues(level, a)
  <2>1. CASE gen_block \/ gen_nothing
    BY <1>1, <1>3, <2>1, BlockFlow
  <2>2. CASE gen_var_decl
    BY <1>3, <2>2, DeclFlow
  <2>3. CASE gen_ret
    BY <1>1, <1>3, <2>3, RetFlow
  <2>4. CASE gen_var \/ gen_assign \/ gen_cmp_right \/ gen_out \/ gen_in \/ gen_sqrt
    BY <1>3, <2>4, ExprFlow
  <2>5. CASE gen_num
    BY <1>3, <2>5, NumFlow
  <2>6. CASE gen_arithmetic
    BY <1>3, <2>6, ArithmeticFlow
  <2>7. CASE gen_call
    BY <1>3, <2>7, CallFlow
  <2>8. CASE CallAligned
    BY <1>3, <2>8, LibraryFlow
  <2> QED
    BY <2>1, <2>2, <2>3, <2>4, <2>5, <2>6, <2>7, <2>8
<1>6. EndLabel' = EndLabel
  BY <1>4 DEF EndLabel
<1> QED
  BY <1>1, <1>4, <1>5, <1>6, FlowKept DEF a

(* A construct: its labels get the annotation they need. *)
LEMMA ConstructFlow ==
  ASSUME Typed, Unique, DataInOrder, NamesResolved, NEW level, NEW at, Flow(level, at),
         gen_if \/ gen_while \/ gen_logic_or \/ gen_logic_and \/ gen_cmp
  PROVE  \E other : Flow(other, at)'
<1> DEFINE a == at[Len(instructions) + 1]
           frame == level[EndLabel]
<1>1. /\ todo # <<>> /\ Task.do \in {"expr", "stmt", "cmp"}
      /\ gen_if \/ gen_while => Task.do = "stmt"
  BY DEF gen_if, gen_while, gen_logic_or, gen_logic_and, gen_cmp, Doing, DoingExpr, DoingOp, DoingStmt
<1>2. a \in Nat /\ (Task.do = "stmt" => a = frame)
  <2>1. PICK b \in Int : TaskPasses(level, frame, Task, a, b)
    BY <1>1, StandsAt
  <2>2. a \in Int
    BY <1>1, StandsAt
  <2>3. a >= 0 /\ (Task.do = "stmt" => a = frame)
    BY <1>1, <2>1 DEF TaskPasses
  <2> QED
    BY <2>2, <2>3
<1>3. UNCHANGED <<instructions, labels>> /\ counters'.func = counters.func
  <2>1. UNCHANGED <<instructions, labels>>
    BY DEF gen_if, gen_while, gen_logic_or, gen_logic_and, gen_cmp, Numbered
  <2>2. \E kind \in Kinds : counters' = [counters EXCEPT ![kind] = @ + 1]
    BY DEF gen_if, gen_while, gen_logic_or, gen_logic_and, gen_cmp, Numbered, TakeNumber, Kinds
  <2>3. counters \in Counters
    BY DEF Typed
  <2> QED
    BY <2>1, <2>2, <2>3 DEF Counters, Kinds
<1>4. EndLabel' = EndLabel
  BY <1>3 DEF EndLabel
<1>5. ASSUME NEW kind \in Kinds, NEW v \in Int,
             ASSUME NEW other, other[EndLabel] = frame,
                    \A label \in Own(NamesOf[kind], counters[kind] + 1) : other[label] = v
             PROVE  Continues(other, a)
      PROVE  \E other : Flow(other, at)'
  <2>1. PICK other : /\ Flow(other, at) /\ other[EndLabel] = frame
                     /\ \A label \in Own(NamesOf[kind], counters[kind] + 1) : other[label] = v
    <3> DEFINE own == Own(NamesOf[kind], counters[kind] + 1)
               there == [label \in Names |-> IF label \in own THEN v ELSE level[label]]
    <3>1. Flow(there, at) /\ there[EndLabel] = frame /\ \A label \in own : there[label] = v
      BY Relevelled
    <3> HIDE DEF there, frame
    <3> QED
      BY <3>1
  <2>2. Continues(other, a)
    BY <1>5, <2>1
  <2> HIDE DEF frame
  <2>3. Flow(other, at)'
    BY <1>1, <1>3, <1>4, <2>1, <2>2, FlowKept
  <2> QED
    BY <2>3
<1>6. /\ NamesOf["if"] = IfNames /\ NamesOf["while"] = WhileNames
      /\ NamesOf["cmp"] = CmpNames /\ NamesOf["logic"] = LogicNames
      /\ Kinds = {"if", "while", "cmp", "logic"}
  BY DEF NamesOf, Kinds
<1>7. a \in Int /\ a + 8 \in Int
  BY <1>2
<1> HIDE DEF a, frame
<1>8. CASE gen_if
  <2>1. ASSUME NEW other, other[EndLabel] = frame,
               \A label \in Own(IfNames, counters.if + 1) : other[label] = a
        PROVE  Continues(other, a)
    BY <1>1, <1>2, <1>8, <2>1, IfFlow
  <2> QED
    BY <1>5, <1>6, <1>7, <2>1
<1>9. CASE gen_while
  <2>1. ASSUME NEW other, other[EndLabel] = frame,
               \A label \in Own(WhileNames, counters.while + 1) : other[label] = a
        PROVE  Continues(other, a)
    BY <1>1, <1>2, <1>9, <2>1, WhileFlow
  <2> QED
    BY <1>5, <1>6, <1>7, <2>1
<1>10. CASE gen_logic_or \/ gen_logic_and
  <2>1. ASSUME NEW other, other[EndLabel] = frame,
               \A label \in Own(LogicNames, counters.logic + 1) : other[label] = a
        PROVE  Continues(other, a)
    BY <1>2, <1>10, <2>1, OrFlow, AndFlow
  <2> QED
    BY <1>5, <1>6, <1>7, <2>1
<1>11. CASE gen_cmp
  <2>1. ASSUME NEW other, other[EndLabel] = frame,
               \A label \in Own(CmpNames, counters.cmp + 1) : other[label] = a + 8
        PROVE  Continues(other, a)
    BY <1>2, <1>11, <2>1, CmpFlow
  <2> QED
    BY <1>5, <1>6, <1>7, <2>1
<1> QED
  BY <1>8, <1>9, <1>10, <1>11

(* Every step keeps some annotation. *)
LEMMA FlowsNext ==
  ASSUME Typed, Bounds, Loops, InOrder, DataInOrder, Unique, NamesResolved, Flows, [Next]_vars
  PROVE  Flows'
<1>1. PICK level, at : Flow(level, at)
  BY DEF Flows
<1>2. ASSUME NEW other, NEW next, Flow(other, next)'
      PROVE  Flows'
  BY <1>2 DEF Flows
<1>3. CASE UNCHANGED vars \/ Abort
  <2>1. UNCHANGED <<instructions, labels, todo>> /\ EndLabel' = EndLabel
    BY <1>3 DEF vars, Abort, EndLabel
  <2>2. Flow(level, at)'
    BY <1>1, <2>1 DEF Flow
  <2> QED
    BY <1>2, <2>2
<1>4. CASE EndOfWhile
  <2>1. todo # <<>> /\ Task.do = "end_while" /\ Then(<<>>) /\ UNCHANGED <<instructions, labels>> /\ EndLabel' = EndLabel
    BY <1>4 DEF EndOfWhile, Doing, EndLabel
  <2>2. at[Len(instructions) + 1] \in Int
    BY <1>1, <2>1, StandsAt
  <2>3. Continues(level, at[Len(instructions) + 1])
    BY <2>1, <2>2, FewTasksContinue
  <2>4. Flow(level, at)'
    BY <1>1, <2>1, <2>3, FlowKept
  <2> QED
    BY <1>2, <2>4
<1>5. CASE EmitCode
  BY <1>1, <1>2, <1>5, EmitFlow
<1>6. CASE gen_rsp
  BY <1>1, <1>2, <1>6, RspFlow
<1>7. CASE gen_break
  BY <1>1, <1>2, <1>7, BreakFlow
<1>8. CASE PlaceLabel
  BY <1>1, <1>2, <1>8, PlaceFlow
<1>9. CASE gen_func
  BY <1>1, <1>2, <1>9, FuncFlow
<1>10. CASE gen_exit
  BY <1>1, <1>2, <1>10, ExitFlow
<1>11. CASE \/ gen_block \/ gen_nothing \/ gen_var_decl \/ gen_ret \/ gen_var \/ gen_num \/ gen_arithmetic
            \/ gen_assign \/ gen_cmp_right \/ gen_call \/ gen_out \/ gen_in \/ gen_sqrt \/ CallAligned
  BY <1>1, <1>2, <1>11, WalkFlow
<1>12. CASE gen_if \/ gen_while \/ gen_logic_or \/ gen_logic_and \/ gen_cmp
  BY <1>1, <1>2, <1>12, ConstructFlow
<1> QED
  BY <1>3, <1>4, <1>5, <1>6, <1>7, <1>8, <1>9, <1>10, <1>11, <1>12 DEF Next, Generate, GenStmt, GenExpr, GenCall

(* At first nothing is annotated but what is called and where functions end. *)
LEMMA FlowsInit == Init => Flows
<1> SUFFICES ASSUME Init PROVE Flows
  OBVIOUS
<1> DEFINE holders(id) == {i \in 1 .. Len(functions) : functions[i].id = id}
           frame(id) == IF holders(id) = {} THEN 0 ELSE AlignUp16(functions[CHOOSE i \in holders(id) : TRUE].frame_size)
           level == [label \in Names |-> IF label[1] = "func_end" THEN frame(label[2]) ELSE AtEntry]
           at == [i \in 1 .. 1 |-> AtEntry]
           n == Len(functions)
<1>1. /\ functions \in Seq(FuncOf(Nodes[functions])) /\ n \in Nat
      /\ \A i, j \in 1 .. n : functions[i].id = functions[j].id => i = j
  BY ProgramsAssumption DEF Init, Analysed
<1>2. /\ todo = [i \in 1 .. n |-> Func(functions[i])] \o <<Exit>>
      /\ instructions = <<>> /\ labels = <<>>
  BY DEF Init
<1>3. AtEntry \in Int
  BY DEF AtEntry
<1>4. \A id : frame(id) \in Int
  <2>1. \A i \in 1 .. n : functions[i].frame_size \in Nat
    <3>1. \A i \in 1 .. n : functions[i] \in FuncOf(Nodes[functions])
      BY <1>1
    <3> QED
      BY <3>1 DEF FuncOf
  <2>2. \A size \in Nat : AlignUp16(size) \in Int
    BY DEF AlignUp16
  <2>3. \A id : holders(id) # {} => (CHOOSE i \in holders(id) : TRUE) \in 1 .. n
    <3> SUFFICES ASSUME NEW id, holders(id) # {} PROVE (CHOOSE i \in holders(id) : TRUE) \in holders(id)
      OBVIOUS
    <3> QED
      OBVIOUS
  <2> QED
    BY <2>1, <2>2, <2>3
<1>5. \A i \in 1 .. n : frame(functions[i].id) = AlignUp16(functions[i].frame_size)
  <2> SUFFICES ASSUME NEW i \in 1 .. n PROVE frame(functions[i].id) = AlignUp16(functions[i].frame_size)
    OBVIOUS
  <2>1. i \in holders(functions[i].id)
    OBVIOUS
  <2>2. (CHOOSE j \in holders(functions[i].id) : TRUE) \in holders(functions[i].id)
    BY <2>1
  <2>3. (CHOOSE j \in holders(functions[i].id) : TRUE) = i
    BY <1>1, <2>2
  <2> QED
    BY <2>1, <2>3
<1>6. \A i \in 1 .. n : functions[i].id \in Int
  <2>1. \A i \in 1 .. n : functions[i] \in FuncOf(Nodes[functions])
    BY <1>1
  <2> QED
    BY <2>1 DEF FuncOf
<1> HIDE DEF frame
<1>7. level \in [Names -> Int]
  BY <1>3, <1>4
<1>8. \A label \in Names : label[1] # "func_end" => level[label] = AtEntry
  OBVIOUS
<1>9. \A i \in 1 .. n : level[<<"func_end", functions[i].id>>] = AlignUp16(functions[i].frame_size)
  <2>1. \A i \in 1 .. n : <<"func_end", functions[i].id>> \in Names
    BY <1>6 DEF Names, LabelNames, GlobalNames
  <2> QED
    BY <1>5, <2>1
<1> HIDE DEF level
<1>10. Levels(level)
  <2>1. "func_end" \notin EntryLabels
    BY DEF EntryLabels, DataNames
  <2> QED
    BY <1>7, <1>8, <2>1 DEF Levels
<1>11. at \in [1 .. 1 -> Int] /\ at[1] = AtEntry
  BY <1>3
<1> HIDE DEF at
<1>12. CodeAt(level, instructions, at) /\ at[Len(instructions) + 1] = AtEntry
  <2>1. Len(instructions) = 0
    BY <1>2
  <2> QED
    BY <1>11, <2>1 DEF CodeAt
<1>13. TasksRun(level, level[EndLabel], todo, AtEntry, AtEntry)
  <2>1. /\ Len(todo) = n + 1 /\ todo[n + 1] = Exit
        /\ \A i \in 1 .. n : todo[i] = Func(functions[i])
    BY <1>1, <1>2
  <2>2. TaskPasses(level, level[EndLabel], Exit, AtEntry, AtEntry)
    BY DEF TaskPasses, Exit
  <2>3. \A i \in 1 .. n : TaskPasses(level, level[EndLabel], Func(functions[i]), AtEntry, AtEntry)
    BY <1>9 DEF TaskPasses, Func
  <2>4. \A i \in 1 .. Len(todo) : TaskPasses(level, level[EndLabel], todo[i], AtEntry, AtEntry)
    <3>1. \A i \in 1 .. Len(todo) : i \in 1 .. n \/ i = n + 1
      BY <1>1, <2>1
    <3> QED
      BY <2>1, <2>2, <2>3, <3>1
  <2>5. todo \in Seq(Tasks(Nodes[functions]))
    BY WalkInit DEF Typed
  <2> DEFINE g == [i \in 1 .. Len(todo) + 1 |-> AtEntry]
  <2>6. g \in [1 .. Len(todo) + 1 -> Int] /\ \A i \in 1 .. Len(todo) + 1 : g[i] = AtEntry
    BY <1>3
  <2>7. /\ 1 \in 1 .. Len(todo) + 1 /\ Len(todo) + 1 \in 1 .. Len(todo) + 1
        /\ \A i \in 1 .. Len(todo) : i \in 1 .. Len(todo) + 1 /\ i + 1 \in 1 .. Len(todo) + 1
    BY <1>1, <2>1
  <2> HIDE DEF g
  <2> QED
    BY <2>4, <2>6, <2>7 DEF TasksRun
<1>14. Flow(level, at)
  <2>1. \A j \in 1 .. Len(labels) : FALSE
    BY <1>2
  <2> QED
    BY <1>10, <1>11, <1>12, <1>13, <2>1 DEF Flow
<1> QED
  BY <1>14 DEF Flows

-----------------------------------------------------------------------------
(* What the generator keeps, under any specification whose steps it takes.   *)
Annotated ==
  Typed /\ Offsets /\ Bounds /\ Loops /\ InOrder /\ DataInOrder /\ ConstantsDistinct /\ Unique
  /\ NamesResolved /\ Flows

LEMMA AnnotatedInit == Init => Annotated
BY WalkInit, BoundsInit, LoopsInit, OrderInit, DataInit, UniqueInit, ResolvedInit, FlowsInit DEF Annotated

LEMMA AnnotatedNext == Annotated /\ [Next]_vars => Annotated'
<1> SUFFICES ASSUME Annotated, [Next]_vars PROVE Annotated'
  OBVIOUS
<1>1. Typed /\ Offsets /\ Bounds /\ Loops /\ InOrder /\ DataInOrder /\ ConstantsDistinct /\ Unique /\ NamesResolved /\ Flows
  BY DEF Annotated
<1>2. (Typed /\ Offsets)'
  BY <1>1, WalkNext
<1>3. Bounds'
  BY <1>1, BoundsNext
<1>4. Loops'
  BY <1>1, LoopsNext
<1>5. InOrder'
  BY <1>1, OrderNext
<1>6. (DataInOrder /\ ConstantsDistinct)'
  BY <1>1, DataNext
<1>7. Unique'
  BY <1>1, UniqueNext
<1>8. NamesResolved'
  BY <1>1, ResolvedNext
<1>9. Flows'
  BY <1>1, FlowsNext
<1> QED
  BY <1>2, <1>3, <1>4, <1>5, <1>6, <1>7, <1>8, <1>9 DEF Annotated
=============================================================================
