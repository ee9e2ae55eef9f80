----------------------------- MODULE Execution -----------------------------
(***************************************************************************)
(* The generated program at run time: CodeGen, then the part of an x86-64  *)
(* processor that the generated instructions use, and the two functions of *)
(* my_stdlib.asm.  The processor is external to the repository; it is      *)
(* modelled as the code generator uses it.                                 *)
(*                                                                         *)
(* Memory is the stack, in words of 8 bytes at negative addresses.  A word *)
(* has a kind, so that an instruction that takes a return address for a    *)
(* number, or a number for a return address, has no step.  Numbers are     *)
(* integers and NaN: the control flow of the generated code only depends   *)
(* on how two numbers compare and on which operation is applied to which   *)
(* operands.                                                               *)
(***************************************************************************)
EXTENDS CodeGen, Values

CONSTANTS
  Inputs,       (* The numbers the user may type, sequences; zeros follow.    *)
  StackWords    (* Bound: the words of the stack.                             *)

ASSUME StackAssumption == StackWords \in Nat

VARIABLES
  machine,                      (* "off", "running" or "exited".              *)
  pc, xmm0_value, rsp_value, rbp_value, flags, mem,
  input, taken, output,         (* What is typed, how much of it is read.       *)
  calls                         (* History: what each open call must restore. *)

registers == <<pc, xmm0_value, rsp_value, rbp_value, flags>>
machine_vars == <<machine, registers, mem, input, taken, output, calls>>

-----------------------------------------------------------------------------
(* Numbers. *)

Flags(a, b) ==
  IF NaN \in {a, b} THEN {"ZF", "PF", "CF"}
  ELSE {f \in {"ZF", "CF"} : (f = "ZF" /\ a = b) \/ (f = "CF" /\ a < b)}

-----------------------------------------------------------------------------
(* Words, operands and labels. *)

Number(n) == [is |-> "number", v |-> n]
ReturnTo(index) == [is |-> "return", v |-> index]
FrameBase(address) == [is |-> "frame", v |-> address]
Junk == [is |-> "junk", v |-> 0]

Address(operand) == (IF operand.l = "rbp" THEN rbp_value ELSE rsp_value) + operand.v

(* A name that is defined twice means its first definition.                  *)
IndexOf(name, list) ==
  LET holders == {i \in 1 .. Len(list) : list[i].label = name}
  IN  list[CHOOSE i \in holders : \A j \in holders : i <= j].index

HasLabel(name) == \E i \in 1 .. Len(labels) : labels[i].label = name
Goto(operand) == pc' = IndexOf(LabelOf(operand), labels)

Word(operand) ==
  CASE operand.k = "reg" -> xmm0_value
    [] operand.k = "mem" -> IF Address(operand) \in DOMAIN mem THEN mem[Address(operand)] ELSE Junk
    [] operand.k = "rel" -> Number(instructions[IndexOf(LabelOf(operand), labels) + 1].dst.v)

IsNumber(operand) == Word(operand).is = "number"

-----------------------------------------------------------------------------
ExecInit ==
  /\ Init
  /\ machine = "off"
  /\ pc = 0 /\ rsp_value = 0 /\ rbp_value = 0
  /\ xmm0_value = Junk /\ flags = {}
  /\ mem = [a \in {-8 * i : i \in 1 .. StackWords} |-> Junk]
  /\ input = <<>> /\ taken = 0
  /\ output = <<>> /\ calls = <<>>

(* The loader jumps to the entry point of the ELF file, the label main.      *)
Start ==
  /\ status = "done" /\ machine = "off" /\ HasLabel(<<"main", 0>>)
  /\ machine' = "running"
  /\ pc' = IndexOf(<<"main", 0>>, labels)
  /\ input' \in Inputs
  /\ UNCHANGED <<xmm0_value, rsp_value, rbp_value, flags, mem, taken, output, calls>>

Fetch == instructions[pc + 1]
Fetched(mnemonics) ==
  machine = "running" /\ pc < Len(instructions) /\ Fetch.m \in mnemonics
NextPc == pc' = pc + 1

Movsd ==
  /\ Fetched({"movsd"}) /\ IsNumber(Fetch.src)
  /\ \/ /\ Fetch.dst = xmm0
        /\ xmm0_value' = Word(Fetch.src)
        /\ UNCHANGED mem
     \/ /\ Fetch.dst.k = "mem" /\ Address(Fetch.dst) \in DOMAIN mem
        /\ mem' = [mem EXCEPT ![Address(Fetch.dst)] = xmm0_value]
        /\ UNCHANGED xmm0_value
  /\ NextPc
  /\ UNCHANGED <<machine, rsp_value, rbp_value, flags, input, taken, output, calls>>

Sse ==
  /\ Fetched({"addsd", "subsd", "mulsd", "divsd", "sqrtsd", "xorpd"})
  /\ \/ /\ Fetch.m = "xorpd"
        /\ xmm0_value' = Number(0)
     \/ /\ Fetch.m = "sqrtsd" /\ IsNumber(xmm0)
        /\ xmm0_value' = Number(Root(xmm0_value.v))
     \/ /\ Fetch.m \notin {"xorpd", "sqrtsd"} /\ IsNumber(xmm0) /\ IsNumber(Fetch.src)
        /\ xmm0_value' = Number(Compute(Fetch.m, xmm0_value.v, Word(Fetch.src).v))
  /\ NextPc
  /\ UNCHANGED <<machine, rsp_value, rbp_value, flags, mem, input, taken, output, calls>>

Ucomisd ==
  /\ Fetched({"ucomisd"}) /\ IsNumber(xmm0) /\ IsNumber(Fetch.src)
  /\ flags' = Flags(xmm0_value.v, Word(Fetch.src).v)
  /\ NextPc
  /\ UNCHANGED <<machine, xmm0_value, rsp_value, rbp_value, mem, input, taken, output, calls>>

Taken(jump) ==
  CASE jump = "jmp" -> TRUE
    [] jump = "je" -> "ZF" \in flags
    [] jump = "jne" -> "ZF" \notin flags
    [] jump = "jp" -> "PF" \in flags
    [] jump = "ja" -> "CF" \notin flags /\ "ZF" \notin flags
    [] jump = "jae" -> "CF" \notin flags
    [] jump = "jb" -> "CF" \in flags
    [] jump = "jbe" -> "CF" \in flags \/ "ZF" \in flags

Branch ==
  /\ Fetched({"jmp", "je", "jne", "jp", "ja", "jae", "jb", "jbe"})
  /\ IF Taken(Fetch.m)
     THEN HasLabel(LabelOf(Fetch.dst)) /\ Goto(Fetch.dst)
     ELSE NextPc
  /\ UNCHANGED <<machine, xmm0_value, rsp_value, rbp_value, flags, mem, input, taken, output, calls>>

(* push, pop, mov rbp, rsp and the moves of rsp. *)
MoveStack ==
  /\ \/ /\ Fetched({"push"}) /\ rsp_value - 8 \in DOMAIN mem
        /\ mem' = [mem EXCEPT ![rsp_value - 8] = FrameBase(rbp_value)]
        /\ rsp_value' = rsp_value - 8
        /\ UNCHANGED rbp_value
     \/ /\ Fetched({"pop"}) /\ rsp_value \in DOMAIN mem /\ mem[rsp_value].is = "frame"
        /\ rbp_value' = mem[rsp_value].v
        /\ rsp_value' = rsp_value + 8
        /\ UNCHANGED mem
     \/ /\ Fetched({"mov"}) /\ Fetch.dst = rbp
        /\ rbp_value' = rsp_value
        /\ UNCHANGED <<rsp_value, mem>>
     \/ /\ Fetched({"add", "sub"})
        /\ rsp_value' = rsp_value + (IF Fetch.m = "add" THEN 1 ELSE -1) * Fetch.src.v
        /\ UNCHANGED <<rbp_value, mem>>
  /\ NextPc
  /\ UNCHANGED <<machine, xmm0_value, flags, input, taken, output, calls>>

Call ==
  /\ Fetched({"call"}) /\ HasLabel(LabelOf(Fetch.dst)) /\ rsp_value - 8 \in DOMAIN mem
  /\ mem' = [mem EXCEPT ![rsp_value - 8] = ReturnTo(pc + 1)]
  /\ rsp_value' = rsp_value - 8
  /\ calls' = Append(calls, [pc |-> pc + 1, rsp |-> rsp_value, rbp |-> rbp_value])
  /\ Goto(Fetch.dst)
  /\ UNCHANGED <<machine, xmm0_value, rbp_value, flags, input, taken, output>>

Ret ==
  /\ Fetched({"ret"}) /\ rsp_value \in DOMAIN mem /\ mem[rsp_value].is = "return"
  /\ pc' = mem[rsp_value].v
  /\ rsp_value' = rsp_value + 8
  /\ calls' = SubSeq(calls, 1, Len(calls) - 1)
  /\ UNCHANGED <<machine, xmm0_value, rbp_value, flags, mem, input, taken, output>>

(* The library keeps its return address, rbp, rbx and a buffer below rsp.    *)
LibraryFrame(bytes) == {a \in DOMAIN mem : rsp_value - bytes <= a /\ a < rsp_value}
LibraryCall(name, bytes) ==
  /\ Fetched({"call"}) /\ LabelOf(Fetch.dst) = <<name, 0>>
  /\ rsp_value - bytes \in DOMAIN mem
  /\ mem' = [a \in DOMAIN mem |-> IF a \in LibraryFrame(bytes) THEN Junk ELSE mem[a]]
  /\ NextPc
  /\ UNCHANGED <<machine, rsp_value, rbp_value, calls>>

__out ==
  /\ LibraryCall("__out", 56) /\ IsNumber(xmm0)
  /\ output' = Append(output, xmm0_value.v)
  /\ xmm0_value' = Junk
  /\ flags' \in {{}, {"ZF", "PF", "CF"}}
  /\ UNCHANGED <<input, taken>>

__in ==
  /\ LibraryCall("__in", 40)
  /\ xmm0_value' = Number(TypedNumber(input, taken))
  /\ taken' = taken + 1
  /\ flags' \in {{}, {"ZF", "PF", "CF"}}
  /\ UNCHANGED <<input, output>>

(* mov rax, 60 and xor rdi, rdi touch nothing that is modelled.              *)
Syscall ==
  /\ Fetched({"syscall", "mov", "xor"}) /\ Fetch.dst # rbp
  /\ machine' = IF Fetch.m = "syscall" THEN "exited" ELSE machine
  /\ NextPc
  /\ UNCHANGED <<xmm0_value, rsp_value, rbp_value, flags, mem, input, taken, output, calls>>

Step == Start \/ Movsd \/ Sse \/ Ucomisd \/ Branch \/ MoveStack \/ Call \/ Ret
        \/ __out \/ __in \/ Syscall

ExecNext ==
  \/ Generate /\ UNCHANGED machine_vars
  \/ Step /\ UNCHANGED vars

ExecSpec == ExecInit /\ [][ExecNext]_<<vars, machine_vars>> /\ WF_<<vars, machine_vars>>(ExecNext)


-----------------------------------------------------------------------------
(* Properties. *)

(* Every step the generated code comes to can be taken: it never jumps to a  *)
(* label that is not there, runs past its end, takes a return address or a   *)
(* saved rbp for a number or the reverse, reads a word of the stack that was *)
(* never written, or leaves the stack.                                       *)
NeverStuck == machine = "running" => ENABLED Step

(* README 342, "functions restore rbp and rsp before they return": a return  *)
(* goes to the instruction after the call that is open, with rsp and rbp as  *)
(* they were before that call.                                               *)
ReturnsRestore ==
  [][Len(calls') < Len(calls) =>
       calls[Len(calls)] = [pc |-> pc', rsp |-> rsp_value', rbp |-> rbp_value']]_machine_vars

(* Whatever is computed in between, no store hits the return address of an   *)
(* open call, and rsp stays below it.                                        *)
ReturnAddressesKept ==
  \A i \in 1 .. Len(calls) :
    /\ mem[calls[i].rsp - 8] = ReturnTo(calls[i].pc)
    /\ rsp_value < calls[i].rsp

(* README 342: a function, the entry point like any other, returns to its    *)
(* caller; only the call of __exit never does.                               *)
AllCallsReturn == machine = "exited" => Len(calls) = 1

(* Generation ends, and the generated program ends when its source does: the *)
(* programs of the runs all do.                                              *)
Terminates == <>(machine = "exited")
=============================================================================
