--------------------------- MODULE ExecutionProofs ---------------------------
(***************************************************************************)
(* The call discipline of the generated code at run time: whatever the     *)
(* analysed program and its input, no store hits a return address or a     *)
(* saved rbp, and every return restores pc, rsp and rbp.  The annotations  *)
(* of CodeGenFlow say where the machine is in the frame of each open call. *)
(***************************************************************************)
EXTENDS Execution, CodeGenFlow

-----------------------------------------------------------------------------
(* The frames of the open calls.                                             *)

(* Frame 0 is that of main, which nothing called: its rsp is as if a return  *)
(* address were above the stack.                                             *)
Base(i) == IF i = 0 THEN [pc |-> 0, rsp |-> 8, rbp |-> 0] ELSE calls[i]

(* Where a frame stands: the machine in the last one, the others in a call.  *)
Last(i) == i = Len(calls)
Pc(i) == IF Last(i) THEN pc ELSE calls[i + 1].pc
Sp(i) == IF Last(i) THEN rsp_value ELSE calls[i + 1].rsp
Bp(i) == IF Last(i) THEN rbp_value ELSE calls[i + 1].rbp

Frame(i, t) ==
  /\ t >= AtEntry
  /\ t = AtEntry => Sp(i) = Base(i).rsp - 8 /\ Bp(i) = Base(i).rbp
  /\ t = Pushed => Sp(i) = Base(i).rsp - 16 /\ Bp(i) = Base(i).rbp
  /\ t >= 0 => Bp(i) = Base(i).rsp - 16 /\ Sp(i) = Bp(i) - t
  /\ t # AtEntry => Base(i).rsp - 16 \in DOMAIN mem /\ mem[Base(i).rsp - 16] = FrameBase(Base(i).rbp)
  /\ i > 0 => Base(i).rsp - 8 \in DOMAIN mem /\ mem[Base(i).rsp - 8] = ReturnTo(Base(i).pc)

Frames(at) ==
  /\ \A i \in 0 .. Len(calls) : Frame(i, at[Pc(i) + 1])
  /\ \A i, j \in 0 .. Len(calls) : i < j => Base(j).rsp < Base(i).rsp

MachineTyped ==
  /\ machine \in {"off", "running", "exited"}
  /\ pc \in 0 .. Len(instructions) /\ rsp_value \in Int /\ rbp_value \in Int
  /\ calls \in Seq([pc : 0 .. Len(instructions), rsp : Int, rbp : Int])
  /\ DOMAIN mem \subseteq {a \in Int : a < 0}
  /\ machine = "off" => pc = 0 /\ rsp_value = 0 /\ rbp_value = 0 /\ calls = <<>>
  /\ machine # "off" => status = "done"

InFrames == machine # "off" => \E level, at : Flow(level, at) /\ Frames(at)

-----------------------------------------------------------------------------
(* Where instructions and labels lead.                                       *)

LEMMA AtInstruction ==
  ASSUME Typed, NEW level, NEW at, Flow(level, at), pc \in 0 .. Len(instructions), pc < Len(instructions)
  PROVE  /\ at[pc + 1] \in Int /\ at[(pc + 1) + 1] \in Int /\ pc + 1 \in 0 .. Len(instructions)
         /\ Passes(level, Fetch, at[pc + 1], at[(pc + 1) + 1])
<1>1. Len(instructions) \in Nat
  BY DEF Typed
<1>2. /\ at \in [1 .. Len(instructions) + 1 -> Int]
      /\ \A i \in 1 .. Len(instructions) : Passes(level, instructions[i], at[i], at[i + 1])
  BY DEF Flow, CodeAt
<1>3. pc + 1 \in 1 .. Len(instructions) /\ pc + 1 \in 1 .. Len(instructions) + 1
      /\ (pc + 1) + 1 \in 1 .. Len(instructions) + 1 /\ pc + 1 \in 0 .. Len(instructions)
  BY <1>1
<1> QED
  BY <1>2, <1>3 DEF Fetch

LEMMA AtLabel ==
  ASSUME Annotated, NEW level, NEW at, Flow(level, at), NEW name, HasLabel(name)
  PROVE  /\ IndexOf(name, labels) \in 0 .. Len(instructions)
         /\ at[IndexOf(name, labels) + 1] = level[name]
         /\ name \in Names /\ name[1] \notin {"__out", "__in"}
<1>1. PICK i \in 1 .. Len(labels) : labels[i].label = name
  BY DEF HasLabel
<1> DEFINE holders == {j \in 1 .. Len(labels) : labels[j].label = name}
<1>2. holders = {i}
  BY <1>1 DEF Annotated, Unique
<1>3. i <= i
  <2>1. Len(labels) \in Nat
    BY DEF Annotated, Typed
  <2> QED
    BY <2>1
<1>4. (CHOOSE k \in holders : \A j \in holders : k <= j) = i
  <2> HIDE DEF holders
  <2>1. \E k \in holders : \A j \in holders : k <= j
    BY <1>2, <1>3
  <2>2. (CHOOSE k \in holders : \A j \in holders : k <= j) \in holders
    BY <2>1
  <2> QED
    BY <1>2, <2>2
<1>5. IndexOf(name, labels) = labels[i].index
  BY <1>4 DEF IndexOf
<1>6. labels[i].index \in 0 .. Len(instructions)
  BY <1>1 DEF Annotated, Bounds
<1>7. labels[i].label[1] \notin {"__out", "__in"} /\ level[labels[i].label] = at[labels[i].index + 1]
  BY <1>1 DEF Flow
<1>8. labels[i].label \in Names
  <2>1. labels[i] \in Marks
    BY <1>1 DEF Annotated, Typed
  <2> QED
    BY <2>1 DEF Marks
<1> QED
  BY <1>1, <1>5, <1>6, <1>7, <1>8

-----------------------------------------------------------------------------
(* Steps within a frame.                                                     *)

LEMMA CallTypes ==
  ASSUME MachineTyped
  PROVE  /\ Len(calls) \in Nat
         /\ \A i \in 1 .. Len(calls) :
              calls[i].pc \in 0 .. Len(instructions) /\ calls[i].rsp \in Int /\ calls[i].rbp \in Int
<1> DEFINE R == [pc : 0 .. Len(instructions), rsp : Int, rbp : Int]
<1>1. calls \in Seq(R)
  BY DEF MachineTyped
<1>2. \A c \in R : c.pc \in 0 .. Len(instructions) /\ c.rsp \in Int /\ c.rbp \in Int
  OBVIOUS
<1> HIDE DEF R
<1>3. \A i \in 1 .. Len(calls) : calls[i] \in R
  BY <1>1
<1> QED
  BY <1>1, <1>2, <1>3

LEMMA BaseTypes ==
  ASSUME MachineTyped
  PROVE  /\ Len(calls) \in Nat /\ Len(calls) \in 0 .. Len(calls)
         /\ \A i \in 0 .. Len(calls) : Base(i).rsp \in Int /\ Base(i).rbp \in Int
<1>1. Len(calls) \in Nat /\ \A i \in 1 .. Len(calls) : calls[i].rsp \in Int /\ calls[i].rbp \in Int
  BY CallTypes
<1> QED
  BY <1>1 DEF Base

(* The last frame, in which the machine is.                                  *)
LEMMA LastFrame ==
  ASSUME MachineTyped, NEW at, Frames(at)
  PROVE  LET base == Base(Len(calls))
             t == at[pc + 1]
         IN  /\ t >= AtEntry
             /\ t = AtEntry => rsp_value = base.rsp - 8 /\ rbp_value = base.rbp
             /\ t = Pushed => rsp_value = base.rsp - 16 /\ rbp_value = base.rbp
             /\ t >= 0 => rbp_value = base.rsp - 16 /\ rsp_value = rbp_value - t
             /\ t # AtEntry => base.rsp - 16 \in DOMAIN mem /\ mem[base.rsp - 16] = FrameBase(base.rbp)
             /\ Len(calls) > 0 => base.rsp - 8 \in DOMAIN mem /\ mem[base.rsp - 8] = ReturnTo(base.pc)
<1> DEFINE n == Len(calls)
<1>1. n \in 0 .. n
  BY BaseTypes
<1>2. Frame(n, at[Pc(n) + 1])
  BY <1>1 DEF Frames
<1>3. Pc(n) = pc /\ Sp(n) = rsp_value /\ Bp(n) = rbp_value
  BY DEF Pc, Sp, Bp, Last
<1> QED
  BY <1>2, <1>3 DEF Frame

(* The frames before the last one are above it: no step hits their words.    *)
LEMMA WordsKept ==
  ASSUME MachineTyped, NEW at, Frames(at), \A i \in 0 .. Len(calls) : at[Pc(i) + 1] \in Int,
         DOMAIN mem' = DOMAIN mem,
         \A a \in DOMAIN mem : mem'[a] = mem[a] \/ a <= Base(Len(calls)).rsp - 16
  PROVE  \A i \in 0 .. Len(calls) :
           /\ at[Pc(i) + 1] # AtEntry /\ i # Len(calls) =>
                Base(i).rsp - 16 \in DOMAIN mem' /\ mem'[Base(i).rsp - 16] = FrameBase(Base(i).rbp)
           /\ i > 0 => Base(i).rsp - 8 \in DOMAIN mem' /\ mem'[Base(i).rsp - 8] = ReturnTo(Base(i).pc)
<1> SUFFICES ASSUME NEW i \in 0 .. Len(calls)
             PROVE  /\ at[Pc(i) + 1] # AtEntry /\ i # Len(calls) =>
                         Base(i).rsp - 16 \in DOMAIN mem' /\ mem'[Base(i).rsp - 16] = FrameBase(Base(i).rbp)
                    /\ i > 0 => Base(i).rsp - 8 \in DOMAIN mem' /\ mem'[Base(i).rsp - 8] = ReturnTo(Base(i).pc)
  OBVIOUS
<1> DEFINE n == Len(calls)
           t == at[Pc(i) + 1]
<1>1. n \in Nat /\ n \in 0 .. n /\ Base(n).rsp \in Int /\ Base(i).rsp \in Int
  BY BaseTypes
<1>2. Frame(i, t) /\ t \in Int
  BY DEF Frames
<1>3. \A j \in 0 .. n : j <= n => Base(n).rsp <= Base(j).rsp
  <2> SUFFICES ASSUME NEW j \in 0 .. n PROVE Base(n).rsp <= Base(j).rsp
    OBVIOUS
  <2>1. j = n \/ j < n
    BY <1>1
  <2>2. j < n => Base(n).rsp < Base(j).rsp
    BY <1>1 DEF Frames
  <2>3. Base(j).rsp \in Int
    BY BaseTypes
  <2> QED
    BY <1>1, <2>1, <2>2, <2>3
<1>4. i # n /\ t # AtEntry => Base(n).rsp <= Base(i).rsp - 16
  <2> SUFFICES ASSUME i # n, t # AtEntry PROVE Base(n).rsp <= Base(i).rsp - 16
    OBVIOUS
  <2>1. i + 1 \in 0 .. n /\ i + 1 <= n /\ i + 1 # 0
    BY <1>1
  <2>2. Sp(i) = Base(i + 1).rsp
    BY <2>1 DEF Sp, Last, Base
  <2>3. Base(n).rsp <= Sp(i) /\ Sp(i) \in Int
    BY <1>3, <2>1, <2>2, BaseTypes
  <2>4. t = Pushed \/ t >= 0
    BY <1>2 DEF Frame, AtEntry, Pushed
  <2>5. Sp(i) <= Base(i).rsp - 16
    BY <1>1, <1>2, <2>4 DEF Frame
  <2> QED
    BY <1>1, <2>3, <2>5
<1>5. /\ i # n /\ t # AtEntry => ~(Base(i).rsp - 16 <= Base(n).rsp - 16)
      /\ ~(Base(i).rsp - 8 <= Base(n).rsp - 16)
  <2>1. Base(n).rsp <= Base(i).rsp
    BY <1>1, <1>3
  <2> QED
    BY <1>1, <1>4, <2>1
<1>6. \A a \in DOMAIN mem : ~(a <= Base(n).rsp - 16) => mem'[a] = mem[a]
  OBVIOUS
<1> QED
  BY <1>2, <1>5, <1>6 DEF Frame

(* A step in the last frame.                                                 *)
LEMMA FrameMoves ==
  ASSUME MachineTyped, NEW at, Frames(at), \A i \in 0 .. Len(calls) : at[Pc(i) + 1] \in Int,
         calls' = calls, DOMAIN mem' = DOMAIN mem,
         \A a \in DOMAIN mem : mem'[a] = mem[a] \/ a <= Base(Len(calls)).rsp - 16,
         LET base == Base(Len(calls))
             t == at[pc' + 1]
         IN  /\ t >= AtEntry
             /\ t = AtEntry => rsp_value' = base.rsp - 8 /\ rbp_value' = base.rbp
             /\ t = Pushed => rsp_value' = base.rsp - 16 /\ rbp_value' = base.rbp
             /\ t >= 0 => rbp_value' = base.rsp - 16 /\ rsp_value' = rbp_value' - t
             /\ t # AtEntry => base.rsp - 16 \in DOMAIN mem /\ mem'[base.rsp - 16] = FrameBase(base.rbp)
  PROVE  Frames(at)'
<1> DEFINE n == Len(calls)
<1>1. \A i : Base(i)' = Base(i) /\ Last(i)' = Last(i)
  BY DEF Base, Last
<1>2. \A i \in 0 .. n : ~Last(i) => Pc(i)' = Pc(i) /\ Sp(i)' = Sp(i) /\ Bp(i)' = Bp(i)
  BY <1>1 DEF Pc, Sp, Bp
<1>3. \A i \in 0 .. n : Last(i) => i = n /\ Pc(i)' = pc' /\ Sp(i)' = rsp_value' /\ Bp(i)' = rbp_value'
  BY <1>1 DEF Pc, Sp, Bp, Last
<1>4. \A i \in 0 .. n :
        /\ at[Pc(i) + 1] # AtEntry /\ i # n =>
             Base(i).rsp - 16 \in DOMAIN mem' /\ mem'[Base(i).rsp - 16] = FrameBase(Base(i).rbp)
        /\ i > 0 => Base(i).rsp - 8 \in DOMAIN mem' /\ mem'[Base(i).rsp - 8] = ReturnTo(Base(i).pc)
  BY WordsKept
<1>5. ASSUME NEW i \in 0 .. n
      PROVE  Frame(i, at[Pc(i) + 1])'
  <2>1. CASE Last(i)
    BY <1>1, <1>3, <1>4, <2>1 DEF Frame
  <2>2. CASE ~Last(i)
    <3>1. Frame(i, at[Pc(i) + 1]) /\ i # n
      BY <2>2 DEF Frames, Last
    <3> QED
      BY <1>1, <1>2, <1>4, <2>2, <3>1 DEF Frame
  <2> QED
    BY <2>1, <2>2
<1>6. (\A i, j \in 0 .. Len(calls) : i < j => Base(j).rsp < Base(i).rsp)'
  BY <1>1 DEF Frames
<1> QED
  BY <1>5, <1>6 DEF Frames

(* A step that leaves rsp and rbp as they are.                               *)
LEMMA FrameStays ==
  ASSUME MachineTyped, NEW at, Frames(at), \A i \in 0 .. Len(calls) : at[Pc(i) + 1] \in Int,
         at[pc' + 1] = at[pc + 1],
         UNCHANGED <<calls, rsp_value, rbp_value>>, DOMAIN mem' = DOMAIN mem,
         \A a \in DOMAIN mem : mem'[a] = mem[a] \/ a < Base(Len(calls)).rsp - 16
  PROVE  Frames(at)'
<1>1. Base(Len(calls)).rsp \in Int /\ DOMAIN mem \subseteq Int
  BY BaseTypes DEF MachineTyped
<1>2. \A a \in DOMAIN mem : mem'[a] = mem[a] \/ a <= Base(Len(calls)).rsp - 16
  BY <1>1
<1>3. Base(Len(calls)).rsp - 16 \in DOMAIN mem => mem'[Base(Len(calls)).rsp - 16] = mem[Base(Len(calls)).rsp - 16]
  BY <1>1
<1> QED
  BY <1>2, <1>3, LastFrame, FrameMoves

(* The annotations where the frames stand are numbers.                       *)
LEMMA FramesAt ==
  ASSUME Typed, MachineTyped, NEW level, NEW at, Flow(level, at)
  PROVE  \A i \in 0 .. Len(calls) : at[Pc(i) + 1] \in Int
<1>1. at \in [1 .. Len(instructions) + 1 -> Int] /\ Len(instructions) \in Nat
  BY DEF Flow, CodeAt, Typed
<1>2. \A i \in 0 .. Len(calls) : Pc(i) \in 0 .. Len(instructions)
  <2>1. pc \in 0 .. Len(instructions)
    BY DEF MachineTyped
  <2>2. \A i \in 0 .. Len(calls) : i # Len(calls) => i + 1 \in 1 .. Len(calls)
    BY CallTypes
  <2> QED
    BY <2>1, <2>2, CallTypes DEF Pc, Last
<1>3. \A k \in 0 .. Len(instructions) : k + 1 \in 1 .. Len(instructions) + 1
  BY <1>1
<1> QED
  BY <1>1, <1>2, <1>3

LEMMA TypedStays ==
  ASSUME MachineTyped, machine = "running", UNCHANGED vars, machine' \in {"running", "exited"},
         pc' \in 0 .. Len(instructions), rsp_value' \in Int, rbp_value' \in Int, calls' = calls,
         DOMAIN mem' = DOMAIN mem
  PROVE  MachineTyped'
<1>1. instructions' = instructions /\ status' = status
  BY DEF vars
<1> QED
  BY <1>1 DEF MachineTyped

(* Instructions that are no moves of the stack, whether or not they store.   *)
LEMMA SteadySteps ==
  ASSUME Annotated, MachineTyped, NEW level, NEW at, Flow(level, at), Frames(at), UNCHANGED vars,
         Movsd \/ Sse \/ Ucomisd \/ Branch \/ __out \/ __in \/ Syscall
  PROVE  MachineTyped' /\ Frames(at)'
<1> DEFINE a == at[pc + 1]
           base == Base(Len(calls))
<1>1. /\ machine = "running" /\ pc < Len(instructions)
      /\ machine' \in {"running", "exited"} /\ UNCHANGED <<calls, rsp_value, rbp_value>>
  BY DEF Movsd, Sse, Ucomisd, Branch, __out, __in, LibraryCall, Syscall, Fetched
<1>2. /\ a \in Int /\ at[(pc + 1) + 1] \in Int /\ pc + 1 \in 0 .. Len(instructions)
      /\ Passes(level, Fetch, a, at[(pc + 1) + 1])
  BY <1>1, AtInstruction DEF Annotated, MachineTyped
<1>3. /\ Fetch.m \in {"movsd", "addsd", "subsd", "mulsd", "divsd", "sqrtsd", "xorpd", "ucomisd", "call",
                      "syscall", "xor"} \cup Branches
         \/ (Fetch.m = "mov" /\ Fetch.dst # rbp)
  BY DEF Movsd, Sse, Ucomisd, Branch, __out, __in, LibraryCall, Syscall, Fetched, Branches
<1>4. at[(pc + 1) + 1] = a
  BY <1>2, <1>3 DEF Passes, StackMoves, Branches
<1>5. pc' \in 0 .. Len(instructions) /\ at[pc' + 1] = a
  <2>1. CASE Branch /\ Taken(Fetch.m)
    <3>1. HasLabel(LabelOf(Fetch.dst)) /\ pc' = IndexOf(LabelOf(Fetch.dst), labels) /\ Fetch.m \in Branches
      BY <2>1 DEF Branch, Goto, Fetched, Branches
    <3>2. level[LabelOf(Fetch.dst)] = a
      BY <1>2, <3>1 DEF Passes
    <3> HIDE DEF a
    <3> QED
      BY <3>1, <3>2, AtLabel
  <2>2. CASE ~(Branch /\ Taken(Fetch.m))
    <3>1. pc' = pc + 1
      BY <2>2 DEF Movsd, Sse, Ucomisd, Branch, __out, __in, LibraryCall, Syscall, NextPc
    <3> QED
      BY <1>2, <1>4, <3>1
  <2> QED
    BY <2>1, <2>2
<1>6. rsp_value \in Int /\ rbp_value \in Int /\ base.rsp \in Int /\ DOMAIN mem \subseteq Int
  BY BaseTypes DEF MachineTyped
<1>7. DOMAIN mem' = DOMAIN mem /\ \A x \in DOMAIN mem : mem'[x] = mem[x] \/ x < base.rsp - 16
  <2>1. CASE Sse \/ Ucomisd \/ Branch \/ Syscall \/ (Movsd /\ mem' = mem)
    BY <2>1 DEF Sse, Ucomisd, Branch, Syscall
  <2>2. CASE Movsd /\ mem' # mem
    <3>1. /\ Fetch.m = "movsd" /\ Fetch.dst.k = "mem"
          /\ mem' = [mem EXCEPT ![Address(Fetch.dst)] = xmm0_value]
      BY <2>2 DEF Movsd, Fetched
    <3>2. a >= 0 /\ IF Fetch.dst.l = "rbp" THEN Fetch.dst.v <= -8 ELSE Fetch.dst.v \in 0 .. a - 8
      BY <1>2, <3>1 DEF Passes
    <3>3. rbp_value = base.rsp - 16 /\ rsp_value = rbp_value - a
      BY <3>2, LastFrame
    <3>4. Fetch.dst.v \in Int
      <4> DEFINE S == Code(Names)
      <4>1. instructions \in Seq(S) /\ pc + 1 \in 1 .. Len(instructions)
        BY <1>1 DEF Annotated, Typed, MachineTyped
      <4>2. \A i \in S : i.dst.v \in Int
        BY DEF Code, Operands
      <4> HIDE DEF S
      <4>3. Fetch \in S
        BY <4>1 DEF Fetch
      <4> QED
        BY <4>2, <4>3
    <3> HIDE DEF a, base
    <3>5. Address(Fetch.dst) < base.rsp - 16
      <4>1. CASE Fetch.dst.l = "rbp"
        BY <1>6, <3>2, <3>3, <3>4, <4>1 DEF Address
      <4>2. CASE Fetch.dst.l # "rbp"
        <5>1. PICK v \in Int : v = Fetch.dst.v
          BY <3>4
        <5>2. 0 <= v /\ v <= a - 8
          BY <1>2, <3>2, <4>2, <5>1
        <5>3. rsp_value + v < base.rsp - 16
          BY <1>2, <1>6, <3>3, <3>2, <5>2
        <5> QED
          BY <4>2, <5>1, <5>3 DEF Address
      <4> QED
        BY <4>1, <4>2
    <3> QED
      BY <3>1, <3>5
  <2>3. CASE __out \/ __in
    <3>1. PICK bytes \in {56, 40} :
            /\ Fetch.m = "call" /\ Fetch.dst.l \in {"__out", "__in"}
            /\ mem' = [x \in DOMAIN mem |-> IF x \in LibraryFrame(bytes) THEN Junk ELSE mem[x]]
      BY <2>3 DEF __out, __in, LibraryCall, Fetched, LabelOf
    <3>2. a >= 0
      BY <1>2, <3>1 DEF Passes
    <3>3. rbp_value = base.rsp - 16 /\ rsp_value = rbp_value - a
      BY <3>2, LastFrame
    <3> HIDE DEF a, base
    <3>4. \A x \in LibraryFrame(bytes) : x < base.rsp - 16
      BY <1>2, <1>6, <3>2, <3>3 DEF LibraryFrame
    <3> QED
      BY <3>1, <3>4
  <2> QED
    BY <2>1, <2>2, <2>3
<1>8. \A i \in 0 .. Len(calls) : at[Pc(i) + 1] \in Int
  BY FramesAt DEF Annotated
<1>9. MachineTyped'
  BY <1>1, <1>5, <1>6, <1>7, TypedStays
<1>10. Frames(at)'
  BY <1>1, <1>5, <1>7, <1>8, FrameStays
<1> QED
  BY <1>9, <1>10

(* push, pop, mov rbp, rsp and the moves of rsp.                             *)
LEMMA StackSteps ==
  ASSUME Annotated, MachineTyped, NEW level, NEW at, Flow(level, at), Frames(at), UNCHANGED vars, MoveStack
  PROVE  MachineTyped' /\ Frames(at)'
<1> DEFINE a == at[pc + 1]
           b == at[(pc + 1) + 1]
           base == Base(Len(calls))
<1>1. /\ machine = "running" /\ pc < Len(instructions) /\ machine' = machine /\ calls' = calls /\ pc' = pc + 1
  BY DEF MoveStack, Fetched, NextPc
<1>2. a \in Int /\ b \in Int /\ pc + 1 \in 0 .. Len(instructions) /\ Passes(level, Fetch, a, b)
  BY <1>1, AtInstruction DEF Annotated, MachineTyped
<1>3. /\ rsp_value \in Int /\ rbp_value \in Int /\ base.rsp \in Int /\ base.rbp \in Int
      /\ DOMAIN mem \subseteq Int
  BY BaseTypes DEF MachineTyped
<1>4. \A i \in 0 .. Len(calls) : at[Pc(i) + 1] \in Int
  BY FramesAt DEF Annotated
<1>5. /\ a = AtEntry => rsp_value = base.rsp - 8 /\ rbp_value = base.rbp
      /\ a = Pushed => rsp_value = base.rsp - 16 /\ rbp_value = base.rbp
      /\ a >= 0 => rbp_value = base.rsp - 16 /\ rsp_value = rbp_value - a
      /\ a # AtEntry => base.rsp - 16 \in DOMAIN mem /\ mem[base.rsp - 16] = FrameBase(base.rbp)
  BY LastFrame
<1>6. at[pc' + 1] = b
  BY <1>1
<1>7. AtEntry = -2 /\ Pushed = -1
  BY DEF AtEntry, Pushed
<1> HIDE DEF a, b, base
<1>8. ASSUME DOMAIN mem' = DOMAIN mem, rsp_value' \in Int, rbp_value' \in Int,
             \A x \in DOMAIN mem : mem'[x] = mem[x] \/ x <= base.rsp - 16,
             b >= AtEntry,
             b = AtEntry => rsp_value' = base.rsp - 8 /\ rbp_value' = base.rbp,
             b = Pushed => rsp_value' = base.rsp - 16 /\ rbp_value' = base.rbp,
             b >= 0 => rbp_value' = base.rsp - 16 /\ rsp_value' = rbp_value' - b,
             b # AtEntry => base.rsp - 16 \in DOMAIN mem /\ mem'[base.rsp - 16] = FrameBase(base.rbp)
      PROVE  MachineTyped' /\ Frames(at)'
  <2>1. MachineTyped'
    BY <1>1, <1>2, <1>8, TypedStays
  <2>2. Frames(at)'
    BY <1>1, <1>4, <1>6, <1>8, FrameMoves DEF base
  <2> QED
    BY <2>1, <2>2
<1>9. CASE Fetched({"push"})
  <2>1. /\ Fetch.m = "push" /\ rsp_value - 8 \in DOMAIN mem /\ rsp_value' = rsp_value - 8 /\ rbp_value' = rbp_value
        /\ mem' = [mem EXCEPT ![rsp_value - 8] = FrameBase(rbp_value)]
    BY <1>9 DEF MoveStack, Fetched
  <2>2. a = AtEntry /\ b = Pushed
    BY <1>2, <2>1 DEF Passes
  <2>3. rsp_value - 8 = base.rsp - 16 /\ rbp_value = base.rbp
    BY <1>3, <1>5, <2>2
  <2>4. /\ DOMAIN mem' = DOMAIN mem /\ mem'[base.rsp - 16] = FrameBase(base.rbp)
        /\ \A x \in DOMAIN mem : mem'[x] = mem[x] \/ x <= base.rsp - 16
    <3>1. base.rsp - 16 \in Int
      BY <1>3
    <3> QED
      BY <2>1, <2>3, <3>1
  <2> QED
    BY <1>3, <1>7, <1>8, <2>1, <2>2, <2>3, <2>4
<1>10. CASE Fetched({"pop"})
  <2>1. /\ Fetch.m = "pop" /\ rbp_value' = mem[rsp_value].v /\ rsp_value' = rsp_value + 8 /\ mem' = mem
    BY <1>10 DEF MoveStack, Fetched
  <2>2. a = 0 /\ b = AtEntry
    BY <1>2, <2>1 DEF Passes
  <2>3. rsp_value = base.rsp - 16 /\ mem[rsp_value] = FrameBase(base.rbp)
    BY <1>3, <1>5, <1>7, <2>2
  <2>4. rbp_value' = base.rbp /\ rsp_value' = base.rsp - 8
    BY <1>3, <2>1, <2>3 DEF FrameBase
  <2> QED
    BY <1>3, <1>7, <1>8, <2>1, <2>2, <2>4
<1>11. CASE Fetched({"mov"})
  <2>1. /\ Fetch.m = "mov" /\ Fetch.dst = rbp /\ rbp_value' = rsp_value /\ UNCHANGED <<rsp_value, mem>>
    BY <1>11 DEF MoveStack, Fetched
  <2>2. a = Pushed /\ b = 0
    BY <1>2, <2>1 DEF Passes
  <2> QED
    BY <1>3, <1>5, <1>7, <1>8, <2>1, <2>2
<1>12. CASE Fetched({"add", "sub"})
  <2>1. /\ Fetch.m \in {"add", "sub"} /\ UNCHANGED <<rbp_value, mem>>
        /\ rsp_value' = rsp_value + (IF Fetch.m = "add" THEN 1 ELSE -1) * Fetch.src.v
    BY <1>12 DEF MoveStack, Fetched
  <2>2. Fetch.src.v \in Int
    <3> DEFINE S == Code(Names)
    <3>1. instructions \in Seq(S) /\ pc + 1 \in 1 .. Len(instructions)
      BY <1>1 DEF Annotated, Typed, MachineTyped
    <3>2. \A i \in S : i.src.v \in Int
      BY DEF Code, Operands
    <3> HIDE DEF S
    <3>3. Fetch \in S
      BY <3>1 DEF Fetch
    <3> QED
      BY <3>2, <3>3
  <2>3. a >= 0 /\ b >= 0 /\ rsp_value' \in Int /\ rsp_value' = rsp_value - (b - a)
    <3>1. CASE Fetch.m = "add"
      <4>1. Fetch.src.v \in 0 .. a /\ b = a - Fetch.src.v
        BY <1>2, <3>1 DEF Passes
      <4>2. rsp_value' = rsp_value + Fetch.src.v
        BY <1>3, <2>1, <2>2, <3>1
      <4>3. PICK v \in Int : v = Fetch.src.v
        BY <2>2
      <4>4. 0 <= v /\ v <= a /\ b = a - v /\ rsp_value' = rsp_value + v
        BY <1>2, <4>1, <4>2, <4>3
      <4> QED
        BY <1>2, <1>3, <4>4
    <3>2. CASE Fetch.m = "sub"
      <4>1. a >= 0 /\ Fetch.src.v >= 0 /\ b = a + Fetch.src.v
        BY <1>2, <3>2 DEF Passes
      <4>2. rsp_value' = rsp_value - Fetch.src.v
        BY <1>3, <2>1, <2>2, <3>2
      <4> QED
        BY <1>2, <1>3, <2>2, <4>1, <4>2
    <3> QED
      BY <2>1, <3>1, <3>2
  <2>4. b >= 0 => rbp_value' = base.rsp - 16 /\ rsp_value' = rbp_value' - b
    BY <1>2, <1>3, <1>5, <2>1, <2>3
  <2>5. /\ b # AtEntry /\ b # Pushed /\ a # AtEntry
    BY <1>2, <1>7, <2>3
  <2> QED
    BY <1>2, <1>3, <1>5, <1>7, <1>8, <2>1, <2>3, <2>4, <2>5
<1> QED
  BY <1>9, <1>10, <1>11, <1>12 DEF MoveStack

-----------------------------------------------------------------------------
(* Calls and returns.                                                        *)

(* The program starts in frame 0.                                            *)
LEMMA StartStep ==
  ASSUME Annotated, MachineTyped, NEW level, NEW at, Flow(level, at), UNCHANGED vars, Start
  PROVE  MachineTyped' /\ Frames(at)'
<1>1. /\ status = "done" /\ machine = "off" /\ machine' = "running" /\ HasLabel(<<"main", 0>>)
      /\ pc' = IndexOf(<<"main", 0>>, labels) /\ UNCHANGED <<rsp_value, rbp_value, mem, calls>>
  BY DEF Start
<1>2. rsp_value' = 0 /\ rbp_value' = 0 /\ calls' = <<>>
  BY <1>1 DEF MachineTyped
<1>3. pc' \in 0 .. Len(instructions) /\ at[pc' + 1] = AtEntry
  <2> DEFINE main == <<"main", 0>>
  <2>1. main[1] \in EntryLabels
    BY DEF EntryLabels
  <2> HIDE DEF main
  <2>2. pc' = IndexOf(main, labels) /\ HasLabel(main)
    BY <1>1 DEF main
  <2>3. pc' \in 0 .. Len(instructions) /\ at[pc' + 1] = level[main] /\ main \in Names
    BY <2>2, AtLabel
  <2>4. level[main] = AtEntry
    BY <2>1, <2>3 DEF Flow, Levels
  <2> QED
    BY <2>3, <2>4
<1>4. instructions' = instructions /\ status' = status
  BY DEF vars
<1>5. MachineTyped'
  BY <1>1, <1>3, <1>4 DEF MachineTyped
<1>6. Len(calls') = 0
  BY <1>2
<1>7. Frame(0, at[Pc(0) + 1])'
  <2>1. Pc(0)' = pc' /\ Sp(0)' = 0 /\ Bp(0)' = 0 /\ Base(0)' = [pc |-> 0, rsp |-> 8, rbp |-> 0]
    BY <1>2, <1>6 DEF Pc, Sp, Bp, Last, Base
  <2> QED
    BY <1>3, <2>1 DEF Frame, AtEntry, Pushed
<1>8. \A i \in 0 .. Len(calls') : i = 0
  BY <1>6
<1>9. \A i \in 0 .. Len(calls') : Frame(i, at[Pc(i) + 1])'
  BY <1>7, <1>8
<1>10. \A i, j \in 0 .. Len(calls') : ~(i < j)
  BY <1>8
<1> QED
  BY <1>5, <1>9, <1>10 DEF Frames

(* A call opens a frame below the others.                                    *)
LEMMA CallStep ==
  ASSUME Annotated, MachineTyped, NEW level, NEW at, Flow(level, at), Frames(at), UNCHANGED vars, Call
  PROVE  MachineTyped' /\ Frames(at)'
<1>0. PICK n \in Nat : n = Len(calls)
  BY CallTypes
<1> DEFINE a == at[pc + 1]
           b == at[(pc + 1) + 1]
           base == Base(n)
           open == [pc |-> pc + 1, rsp |-> rsp_value, rbp |-> rbp_value]
           R == [pc : 0 .. Len(instructions), rsp : Int, rbp : Int]
<1>1. /\ machine = "running" /\ pc < Len(instructions) /\ machine' = machine /\ Fetch.m = "call"
      /\ HasLabel(LabelOf(Fetch.dst)) /\ pc' = IndexOf(LabelOf(Fetch.dst), labels)
      /\ rsp_value - 8 \in DOMAIN mem /\ mem' = [mem EXCEPT ![rsp_value - 8] = ReturnTo(pc + 1)]
      /\ rsp_value' = rsp_value - 8 /\ rbp_value' = rbp_value /\ calls' = Append(calls, open)
  BY DEF Call, Fetched, Goto
<1>2. a \in Int /\ b \in Int /\ pc + 1 \in 0 .. Len(instructions) /\ Passes(level, Fetch, a, b)
  BY <1>1, AtInstruction DEF Annotated, MachineTyped
<1>3. /\ Fetch.dst.l \in {"func", "__exit", "__out", "__in"} /\ b = a
      /\ IF Fetch.dst.l = "__exit" THEN a = AtEntry ELSE a >= 0
  BY <1>1, <1>2 DEF Passes, StackMoves
<1>4. pc' \in 0 .. Len(instructions) /\ at[pc' + 1] = AtEntry
  <2> DEFINE name == LabelOf(Fetch.dst)
  <2>1. name[1] = Fetch.dst.l
    BY DEF LabelOf
  <2> HIDE DEF name
  <2>2. pc' = IndexOf(name, labels) /\ HasLabel(name)
    BY <1>1 DEF name
  <2>3. /\ pc' \in 0 .. Len(instructions) /\ at[pc' + 1] = level[name]
        /\ name \in Names /\ name[1] \notin {"__out", "__in"}
    BY <2>2, AtLabel
  <2>4. name[1] \in EntryLabels
    BY <1>3, <2>1, <2>3 DEF EntryLabels
  <2>5. level[name] = AtEntry
    BY <2>3, <2>4 DEF Flow, Levels
  <2> QED
    BY <2>3, <2>5
<1>5. /\ rsp_value \in Int /\ rbp_value \in Int /\ base.rsp \in Int /\ n \in Nat
      /\ DOMAIN mem \subseteq Int /\ calls \in Seq(R) /\ open \in R
  BY <1>0, <1>2, BaseTypes DEF MachineTyped
<1>6. rsp_value < base.rsp /\ rsp_value - 8 <= base.rsp - 16 /\ (a # AtEntry => rsp_value - 8 < base.rsp - 16)
  <2>1. a = AtEntry \/ a >= 0
    BY <1>3
  <2>2. /\ a = AtEntry => rsp_value = base.rsp - 8
        /\ a >= 0 => rbp_value = base.rsp - 16 /\ rsp_value = rbp_value - a
    BY <1>0, LastFrame
  <2> HIDE DEF a, base
  <2> QED
    BY <1>2, <1>5, <2>1, <2>2
<1>7. DOMAIN mem' = DOMAIN mem /\ \A x \in DOMAIN mem : mem'[x] = mem[x] \/ x = rsp_value - 8
  BY <1>1
<1>8. \A i \in 0 .. n :
        /\ at[Pc(i) + 1] # AtEntry =>
             Base(i).rsp - 16 \in DOMAIN mem' /\ mem'[Base(i).rsp - 16] = FrameBase(Base(i).rbp)
        /\ i > 0 => Base(i).rsp - 8 \in DOMAIN mem' /\ mem'[Base(i).rsp - 8] = ReturnTo(Base(i).pc)
  <2>1. \A i \in 0 .. n : at[Pc(i) + 1] \in Int
    BY <1>0, FramesAt DEF Annotated
  <2>2. \A x \in DOMAIN mem : mem'[x] = mem[x] \/ x <= Base(n).rsp - 16
    BY <1>6, <1>7
  <2>3. \A i \in 0 .. n :
          /\ at[Pc(i) + 1] # AtEntry /\ i # n =>
               Base(i).rsp - 16 \in DOMAIN mem' /\ mem'[Base(i).rsp - 16] = FrameBase(Base(i).rbp)
          /\ i > 0 => Base(i).rsp - 8 \in DOMAIN mem' /\ mem'[Base(i).rsp - 8] = ReturnTo(Base(i).pc)
    BY <1>0, <1>7, <2>1, <2>2, WordsKept
  <2>4. Pc(n) = pc
    BY <1>0 DEF Pc, Last
  <2>5. a # AtEntry => Base(n).rsp - 16 \in DOMAIN mem' /\ mem'[Base(n).rsp - 16] = FrameBase(Base(n).rbp)
    <3> SUFFICES ASSUME a # AtEntry
                 PROVE  base.rsp - 16 \in DOMAIN mem' /\ mem'[base.rsp - 16] = FrameBase(base.rbp)
      OBVIOUS
    <3>1. base.rsp - 16 \in DOMAIN mem /\ mem[base.rsp - 16] = FrameBase(base.rbp)
      BY <1>0, LastFrame
    <3>2. base.rsp - 16 # rsp_value - 8
      <4> HIDE DEF base
      <4> QED
        BY <1>5, <1>6
    <3> QED
      BY <1>7, <3>1, <3>2
  <2> QED
    BY <2>3, <2>4, <2>5
<1> HIDE DEF open, R
<1>9. /\ Len(calls') = n + 1 /\ calls'[n + 1] = open /\ calls' \in Seq(R)
      /\ \A i \in 1 .. n : calls'[i] = calls[i]
  BY <1>0, <1>1, <1>5
<1>10. MachineTyped'
  <2>1. instructions' = instructions /\ status' = status
    BY DEF vars
  <2>2. rsp_value' \in Int /\ rbp_value' \in Int
    BY <1>1, <1>5
  <2> QED
    BY <1>0, <1>1, <1>4, <1>7, <1>9, <2>1, <2>2 DEF MachineTyped, R
<1>11. /\ \A i \in 0 .. n : Base(i)' = Base(i) /\ ~Last(i)'
       /\ Base(n + 1)' = open /\ Last(n + 1)'
  BY <1>0, <1>5, <1>9 DEF Base, Last
<1>12. \A i \in 0 .. n : Sp(i)' = Sp(i) /\ Bp(i)' = Bp(i) /\ at[Pc(i)' + 1] = at[Pc(i) + 1]
  <2> SUFFICES ASSUME NEW i \in 0 .. n
               PROVE  Sp(i)' = Sp(i) /\ Bp(i)' = Bp(i) /\ at[Pc(i)' + 1] = at[Pc(i) + 1]
    OBVIOUS
  <2>1. Pc(i)' = calls'[i + 1].pc /\ Sp(i)' = calls'[i + 1].rsp /\ Bp(i)' = calls'[i + 1].rbp
    BY <1>11 DEF Pc, Sp, Bp
  <2>2. CASE i = n
    <3>1. Pc(i)' = pc + 1 /\ Sp(i)' = rsp_value /\ Bp(i)' = rbp_value
      BY <1>9, <2>1, <2>2 DEF open
    <3>2. Pc(i) = pc /\ Sp(i) = rsp_value /\ Bp(i) = rbp_value
      BY <1>0, <2>2 DEF Pc, Sp, Bp, Last
    <3>3. at[(pc + 1) + 1] = at[pc + 1]
      BY <1>3
    <3> QED
      BY <3>1, <3>2, <3>3
  <2>3. CASE i # n
    <3>1. calls'[i + 1] = calls[i + 1]
      BY <1>5, <1>9, <2>3
    <3> QED
      BY <1>0, <2>1, <2>3, <3>1 DEF Pc, Sp, Bp, Last
  <2> QED
    BY <2>2, <2>3
<1>13. \A i \in 0 .. n : Frame(i, at[Pc(i) + 1])'
  <2> SUFFICES ASSUME NEW i \in 0 .. n PROVE Frame(i, at[Pc(i) + 1])'
    OBVIOUS
  <2>1. Frame(i, at[Pc(i) + 1])
    BY <1>0 DEF Frames
  <2> QED
    BY <1>8, <1>11, <1>12, <2>1 DEF Frame
<1>14. Frame(n + 1, at[Pc(n + 1) + 1])'
  <2>1. Pc(n + 1)' = pc' /\ Sp(n + 1)' = rsp_value - 8 /\ Bp(n + 1)' = rbp_value
    BY <1>1, <1>11 DEF Pc, Sp, Bp
  <2>2. open.rsp = rsp_value /\ open.rbp = rbp_value /\ open.pc = pc + 1
    BY DEF open
  <2>3. mem'[rsp_value - 8] = ReturnTo(pc + 1) /\ rsp_value - 8 \in DOMAIN mem'
    BY <1>1
  <2>4. n + 1 \in Nat /\ AtEntry # Pushed /\ ~(AtEntry >= 0) /\ AtEntry >= AtEntry
    BY <1>5 DEF AtEntry, Pushed
  <2> QED
    BY <1>4, <1>11, <2>1, <2>2, <2>3, <2>4 DEF Frame
<1>15. \A i \in 0 .. n + 1 : i \in 0 .. n \/ i = n + 1
  BY <1>5
<1>16. ASSUME NEW i \in 0 .. n + 1, NEW j \in 0 .. n + 1, i < j
       PROVE  Base(j)'.rsp < Base(i)'.rsp
  <2>1. i \in 0 .. n
    BY <1>5, <1>16
  <2>2. CASE j \in 0 .. n
    <3>1. Base(j).rsp < Base(i).rsp
      BY <1>0, <1>16, <2>1, <2>2 DEF Frames
    <3> QED
      BY <1>11, <2>1, <2>2, <3>1
  <2>3. CASE j = n + 1
    <3>1. Base(j)'.rsp = rsp_value
      BY <1>11, <2>3 DEF open
    <3>2. i = n \/ Base(n).rsp < Base(i).rsp
      <4>1. n \in 0 .. n /\ (i = n \/ i < n)
        BY <1>5, <2>1
      <4> QED
        BY <1>0, <2>1, <4>1 DEF Frames
    <3>3. Base(i).rsp \in Int
      BY <1>0, <2>1, BaseTypes
    <3>4. rsp_value < Base(i).rsp
      <4>1. rsp_value < Base(n).rsp /\ Base(n).rsp \in Int
        BY <1>5, <1>6
      <4> QED
        BY <1>5, <3>2, <3>3, <4>1
    <3> QED
      BY <1>11, <2>1, <3>1, <3>4
  <2> QED
    BY <1>15, <2>2, <2>3
<1>17. Frames(at)'
  <2>1. \A i \in 0 .. Len(calls') : Frame(i, at[Pc(i) + 1])'
    BY <1>0, <1>9, <1>13, <1>14, <1>15
  <2>2. \A i, j \in 0 .. Len(calls') : i < j => Base(j)'.rsp < Base(i)'.rsp
    BY <1>0, <1>9, <1>16
  <2> QED
    BY <1>0, <2>1, <2>2 DEF Frames
<1> QED
  BY <1>10, <1>17

(* A return leaves the last frame for the one before it, as it was.          *)
LEMMA ReturnStep ==
  ASSUME Annotated, MachineTyped, NEW level, NEW at, Flow(level, at), Frames(at), UNCHANGED vars, Ret
  PROVE  /\ MachineTyped' /\ Frames(at)'
         /\ calls[Len(calls)] = [pc |-> pc', rsp |-> rsp_value', rbp |-> rbp_value']
<1>0. PICK n \in Nat : n = Len(calls)
  BY CallTypes
<1> DEFINE R == [pc : 0 .. Len(instructions), rsp : Int, rbp : Int]
<1>1. /\ machine = "running" /\ pc < Len(instructions) /\ machine' = machine /\ Fetch.m = "ret"
      /\ rsp_value \in DOMAIN mem /\ pc' = mem[rsp_value].v /\ rsp_value' = rsp_value + 8
      /\ calls' = SubSeq(calls, 1, n - 1) /\ UNCHANGED <<rbp_value, mem>>
  BY <1>0 DEF Ret, Fetched
<1>2. at[pc + 1] = AtEntry
  <2>1. Passes(level, Fetch, at[pc + 1], at[(pc + 1) + 1])
    BY <1>1, AtInstruction DEF Annotated, MachineTyped
  <2> QED
    BY <1>1, <2>1 DEF Passes
<1>3. /\ rsp_value = Base(n).rsp - 8 /\ rbp_value = Base(n).rbp /\ Base(n).rsp \in Int
      /\ n > 0 => mem[Base(n).rsp - 8] = ReturnTo(Base(n).pc)
  BY <1>0, <1>2, LastFrame, BaseTypes
<1>4. n # 0
  <2> SUFFICES ASSUME n = 0 PROVE FALSE
    OBVIOUS
  <2>1. rsp_value = 0
    BY <1>3 DEF Base
  <2>2. rsp_value < 0
    BY <1>1 DEF MachineTyped
  <2> QED
    BY <2>1, <2>2
<1>5. /\ pc' = calls[n].pc /\ rsp_value' = calls[n].rsp /\ rbp_value' = calls[n].rbp
      /\ pc' \in 0 .. Len(instructions) /\ rsp_value' \in Int /\ rbp_value' \in Int /\ calls[n] \in R
      /\ calls \in Seq(R)
  <2>1. Base(n) = calls[n]
    BY <1>4 DEF Base
  <2>2. calls \in Seq(R)
    BY DEF MachineTyped
  <2>3. \A c \in R : c.pc \in 0 .. Len(instructions) /\ c.rsp \in Int /\ c.rbp \in Int
    OBVIOUS
  <2> HIDE DEF R
  <2>4. calls[n] \in R
    BY <1>0, <1>4, <2>2
  <2>5. mem[rsp_value].v = calls[n].pc
    BY <1>3, <1>4, <2>1 DEF ReturnTo
  <2> QED
    BY <1>1, <1>3, <2>1, <2>2, <2>3, <2>4, <2>5
<1>6. calls[n] = [pc |-> pc', rsp |-> rsp_value', rbp |-> rbp_value']
  BY <1>5
<1> HIDE DEF R
<1>7. n - 1 \in Nat /\ Len(calls') = n - 1 /\ calls' \in Seq(R) /\ \A i \in 1 .. n - 1 : calls'[i] = calls[i]
  BY <1>0, <1>1, <1>4, <1>5
<1>8. MachineTyped'
  <2>1. instructions' = instructions /\ status' = status
    BY DEF vars
  <2> QED
    BY <1>1, <1>5, <1>7, <2>1 DEF MachineTyped, R
<1>9. \A i \in 0 .. n - 1 : Base(i)' = Base(i) /\ Pc(i)' = Pc(i) /\ Sp(i)' = Sp(i) /\ Bp(i)' = Bp(i)
  <2> SUFFICES ASSUME NEW i \in 0 .. n - 1
               PROVE  Base(i)' = Base(i) /\ Pc(i)' = Pc(i) /\ Sp(i)' = Sp(i) /\ Bp(i)' = Bp(i)
    OBVIOUS
  <2>1. i # n
    BY <1>7
  <2>2. Pc(i) = calls[i + 1].pc /\ Sp(i) = calls[i + 1].rsp /\ Bp(i) = calls[i + 1].rbp
    BY <1>0, <2>1 DEF Pc, Sp, Bp, Last
  <2>3. Base(i)' = Base(i)
    BY <1>7 DEF Base
  <2>4. CASE i = n - 1
    <3>1. i + 1 = n
      BY <2>4
    <3> QED
      BY <1>5, <1>7, <2>2, <2>3, <2>4, <3>1 DEF Pc, Sp, Bp, Last
  <2>5. CASE i # n - 1
    <3>1. calls'[i + 1] = calls[i + 1]
      BY <1>7, <2>5
    <3> QED
      BY <1>7, <2>2, <2>3, <2>5, <3>1 DEF Pc, Sp, Bp, Last
  <2> QED
    BY <2>4, <2>5
<1>10. 0 .. n - 1 \subseteq 0 .. n
  OBVIOUS
<1>11. \A i \in 0 .. n - 1 : Frame(i, at[Pc(i) + 1])'
  <2>1. \A i \in 0 .. n - 1 : Frame(i, at[Pc(i) + 1])
    BY <1>0, <1>10 DEF Frames
  <2> QED
    BY <1>1, <1>9, <2>1 DEF Frame
<1>12. \A i, j \in 0 .. n - 1 : i < j => Base(j)'.rsp < Base(i)'.rsp
  <2>1. \A i, j \in 0 .. n - 1 : i < j => Base(j).rsp < Base(i).rsp
    BY <1>0, <1>10 DEF Frames
  <2> QED
    BY <1>9, <2>1
<1>13. Frames(at)'
  BY <1>7, <1>11, <1>12 DEF Frames
<1> QED
  BY <1>0, <1>6, <1>8, <1>13

-----------------------------------------------------------------------------
(* The generator and the machine.                                            *)

(* What holds of both.                                                       *)
Discipline == Annotated /\ MachineTyped /\ InFrames

LEMMA DisciplineInit == ExecInit => Discipline
<1> SUFFICES ASSUME ExecInit PROVE Discipline
  OBVIOUS
<1>1. Annotated
  BY AnnotatedInit DEF ExecInit
<1>2. MachineTyped
  <2>1. Len(instructions) \in Nat
    BY <1>1 DEF Annotated, Typed
  <2>2. DOMAIN mem = {-8 * i : i \in 1 .. StackWords}
    BY DEF ExecInit
  <2>3. \A i \in 1 .. StackWords : -8 * i \in Int /\ -8 * i < 0
    BY StackAssumption
  <2>4. DOMAIN mem \subseteq {a \in Int : a < 0}
    BY <2>2, <2>3
  <2>5. calls = <<>> /\ <<>> \in Seq([pc : 0 .. Len(instructions), rsp : Int, rbp : Int])
    BY DEF ExecInit
  <2> QED
    BY <2>1, <2>4, <2>5 DEF ExecInit, MachineTyped
<1>3. InFrames
  BY DEF ExecInit, InFrames
<1> QED
  BY <1>1, <1>2, <1>3 DEF Discipline

LEMMA DisciplineNext == Discipline /\ [ExecNext]_<<vars, machine_vars>> => Discipline'
<1> SUFFICES ASSUME Discipline, [ExecNext]_<<vars, machine_vars>> PROVE Discipline'
  OBVIOUS
<1>1. Annotated /\ MachineTyped /\ InFrames
  BY DEF Discipline
<1>2. Annotated'
  <2>1. [Next]_vars
    BY DEF ExecNext, Next
  <2> QED
    BY <1>1, <2>1, AnnotatedNext
<1>3. ASSUME UNCHANGED vars, NEW level, NEW at, Flow(level, at), MachineTyped', Frames(at)'
      PROVE  Discipline'
  <2>1. UNCHANGED <<instructions, labels, todo, counters>>
    BY <1>3 DEF vars
  <2>2. Flow(level, at)'
    BY <1>3, <2>1 DEF Flow, EndLabel
  <2>3. InFrames'
    BY <1>3, <2>2 DEF InFrames
  <2> QED
    BY <1>2, <1>3, <2>3 DEF Discipline
<1>4. CASE Generate /\ UNCHANGED machine_vars
  <2>1. machine = "off"
    <3>1. status = "generating"
      BY <1>4, GeneratesFirst
    <3> QED
      BY <1>1, <3>1 DEF MachineTyped
  <2>2. UNCHANGED <<machine, pc, rsp_value, rbp_value, mem, calls>>
    BY <1>4 DEF machine_vars, registers
  <2>3. Len(instructions') \in Nat
    BY <1>2 DEF Annotated, Typed
  <2>4. calls = <<>> /\ <<>> \in Seq([pc : 0 .. Len(instructions'), rsp : Int, rbp : Int])
    BY <1>1, <2>1 DEF MachineTyped
  <2>5. MachineTyped'
    BY <1>1, <2>1, <2>2, <2>3, <2>4 DEF MachineTyped
  <2>6. InFrames'
    BY <2>1, <2>2 DEF InFrames
  <2> QED
    BY <1>2, <2>5, <2>6 DEF Discipline
<1>5. CASE Start /\ UNCHANGED vars
  <2>1. PICK level, at : Flow(level, at)
    BY <1>1 DEF Annotated, Flows
  <2>2. MachineTyped' /\ Frames(at)'
    BY <1>1, <1>5, <2>1, StartStep
  <2> QED
    BY <1>3, <1>5, <2>1, <2>2
<1>6. CASE Step /\ ~Start /\ UNCHANGED vars
  <2>1. machine = "running"
    BY <1>6 DEF Step, Movsd, Sse, Ucomisd, Branch, MoveStack, Call, Ret, __out, __in, LibraryCall, Syscall, Fetched
  <2>2. PICK level, at : Flow(level, at) /\ Frames(at)
    BY <1>1, <2>1 DEF InFrames
  <2>3. CASE Movsd \/ Sse \/ Ucomisd \/ Branch \/ __out \/ __in \/ Syscall
    BY <1>1, <1>3, <1>6, <2>2, <2>3, SteadySteps
  <2>4. CASE MoveStack
    BY <1>1, <1>3, <1>6, <2>2, <2>4, StackSteps
  <2>5. CASE Call
    BY <1>1, <1>3, <1>6, <2>2, <2>5, CallStep
  <2>6. CASE Ret
    BY <1>1, <1>3, <1>6, <2>2, <2>6, ReturnStep
  <2> QED
    BY <1>6, <2>3, <2>4, <2>5, <2>6 DEF Step
<1>7. CASE UNCHANGED <<vars, machine_vars>>
  <2>1. UNCHANGED vars /\ UNCHANGED <<machine, pc, rsp_value, rbp_value, mem, calls>>
    BY <1>7 DEF machine_vars, registers
  <2>2. UNCHANGED <<instructions, labels, todo, counters, status>>
    BY <2>1 DEF vars
  <2>3. MachineTyped'
    BY <1>1, <2>1, <2>2 DEF MachineTyped
  <2>4. InFrames'
    BY <1>1, <2>1, <2>2 DEF InFrames, Flow, EndLabel, Frames, Frame, Base, Pc, Sp, Bp, Last
  <2> QED
    BY <1>2, <2>3, <2>4 DEF Discipline
<1> QED
  BY <1>4, <1>5, <1>6, <1>7 DEF ExecNext

LEMMA DisciplineInvariant == ExecSpec => []Discipline
BY DisciplineInit, DisciplineNext, PTL DEF ExecSpec

(* Whatever the analysed program, its input and what it computes, no store   *)
(* hits the return address of an open call, and rsp stays below it.          *)
THEOREM ReturnAddressesSafe == ExecSpec => []ReturnAddressesKept
<1>1. Discipline => ReturnAddressesKept
  <2> SUFFICES ASSUME Discipline, NEW i \in 1 .. Len(calls)
               PROVE  /\ mem[calls[i].rsp - 8] = ReturnTo(calls[i].pc)
                      /\ rsp_value < calls[i].rsp
    BY DEF ReturnAddressesKept
  <2>1. Annotated /\ MachineTyped /\ InFrames
    BY DEF Discipline
  <2>2. machine # "off"
    <3>1. calls # <<>>
      OBVIOUS
    <3> QED
      BY <2>1, <3>1 DEF MachineTyped
  <2>3. PICK level, at : Flow(level, at) /\ Frames(at)
    BY <2>1, <2>2 DEF InFrames
  <2>4. Len(calls) \in Nat /\ i \in 0 .. Len(calls) /\ i > 0 /\ Len(calls) \in 0 .. Len(calls) /\ Base(i) = calls[i]
    BY <2>1, CallTypes DEF Base
  <2>5. mem[Base(i).rsp - 8] = ReturnTo(Base(i).pc)
    BY <2>3, <2>4 DEF Frames, Frame
  <2>6. rsp_value < Base(Len(calls)).rsp
    <3> DEFINE t == at[pc + 1]
               base == Base(Len(calls))
    <3>1. t \in Int
      <4>1. Pc(Len(calls)) = pc
        BY DEF Pc, Last
      <4> QED
        BY <2>1, <2>3, <2>4, <4>1, FramesAt DEF Annotated
    <3>2. /\ t >= AtEntry
          /\ t = AtEntry => rsp_value = base.rsp - 8
          /\ t = Pushed => rsp_value = base.rsp - 16
          /\ t >= 0 => rbp_value = base.rsp - 16 /\ rsp_value = rbp_value - t
      BY <2>1, <2>3, LastFrame
    <3>3. base.rsp \in Int /\ rsp_value \in Int /\ rbp_value \in Int
      BY <2>1, BaseTypes DEF MachineTyped
    <3> HIDE DEF t, base
    <3>4. t = AtEntry \/ t = Pushed \/ t >= 0
      BY <3>1, <3>2 DEF AtEntry, Pushed
    <3>5. rsp_value < base.rsp
      BY <3>1, <3>2, <3>3, <3>4
    <3> QED
      BY <3>5 DEF base
  <2>7. Base(Len(calls)).rsp <= Base(i).rsp
    <3>1. i = Len(calls) \/ i < Len(calls)
      BY <2>4
    <3>2. i < Len(calls) => Base(Len(calls)).rsp < Base(i).rsp
      BY <2>3, <2>4 DEF Frames
    <3>3. Base(i).rsp \in Int /\ Base(Len(calls)).rsp \in Int
      BY <2>1, <2>4, BaseTypes
    <3> QED
      BY <3>1, <3>2, <3>3
  <2>8. Base(i).rsp \in Int /\ Base(Len(calls)).rsp \in Int /\ rsp_value \in Int
    BY <2>1, <2>4, BaseTypes DEF MachineTyped
  <2>9. rsp_value < Base(i).rsp
    BY <2>6, <2>7, <2>8
  <2> QED
    BY <2>4, <2>5, <2>9
<1> QED
  BY <1>1, DisciplineInvariant, PTL

(* README 342, "functions restore rbp and rsp before they return": a return  *)
(* goes to the instruction after the call that is open, with rsp and rbp as  *)
(* they were before that call.                                               *)
THEOREM EveryReturnRestores == ExecSpec => ReturnsRestore
<1>1. ASSUME Discipline, [ExecNext]_<<vars, machine_vars>>
      PROVE  [Len(calls') < Len(calls) =>
                calls[Len(calls)] = [pc |-> pc', rsp |-> rsp_value', rbp |-> rbp_value']]_machine_vars
  <2> SUFFICES ASSUME Len(calls') < Len(calls)
               PROVE  calls[Len(calls)] = [pc |-> pc', rsp |-> rsp_value', rbp |-> rbp_value']
    OBVIOUS
  <2>1. Annotated /\ MachineTyped /\ InFrames
    BY <1>1 DEF Discipline
  <2>2. PICK n \in Nat : n = Len(calls)
    BY <2>1, CallTypes
  <2>3. calls' # calls
    BY <2>2
  <2>4. ~Call
    <3> SUFFICES ASSUME Call PROVE FALSE
      OBVIOUS
    <3> DEFINE R == [pc : 0 .. Len(instructions), rsp : Int, rbp : Int]
               open == [pc |-> pc + 1, rsp |-> rsp_value, rbp |-> rbp_value]
    <3>1. calls \in Seq(R) /\ calls' = Append(calls, open)
      BY <2>1 DEF MachineTyped, Call
    <3> HIDE DEF R, open
    <3>2. Len(Append(calls, open)) = Len(calls) + 1
      BY <3>1
    <3> QED
      BY <2>2, <3>1, <3>2
  <2>5. Ret /\ UNCHANGED vars
    BY <1>1, <2>3, <2>4 DEF ExecNext, Step, machine_vars, Start, Movsd, Sse, Ucomisd, Branch, MoveStack,
                            __out, __in, LibraryCall, Syscall
  <2>6. machine # "off"
    BY <2>5 DEF Ret, Fetched
  <2>7. PICK level, at : Flow(level, at) /\ Frames(at)
    BY <2>1, <2>6 DEF InFrames
  <2> QED
    BY <2>1, <2>5, <2>7, ReturnStep
<1> QED
  BY <1>1, DisciplineInvariant, PTL DEF ExecSpec, ReturnsRestore
=============================================================================
