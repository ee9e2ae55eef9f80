---------------------------- MODULE Instructions ----------------------------
(***************************************************************************)
(* The two lists that the passes of the back end share,                    *)
(* back_end/headers/instructions.h and back_end/source/instructions.c: the *)
(* code generator fills them and the binary back end reads them.  A list   *)
(* that is full doubles its capacity, so a list here is a sequence.        *)
(*                                                                         *)
(* An operand has a kind, a name (of a register, or the prefix of a label) *)
(* and a number (a displacement, a value, or the number in a label).  The  *)
(* register numbers and sizes of the code are told apart by their names.   *)
(***************************************************************************)
EXTENDS Integers, Sequences

VARIABLES instructions, labels

Operand == [k : {"reg", "mem", "rel", "imm", "label", "none"}, l : STRING, v : Int]
Instruction == [m : STRING, dst : Operand, src : Operand]
Label == [label : STRING \X Int, index : Nat]

Reg(name) == [k |-> "reg", l |-> name, v |-> 0]
Mem(base, displacement) == [k |-> "mem", l |-> base, v |-> displacement]
Rel(label) == [k |-> "rel", l |-> label[1], v |-> label[2]]
Imm(value) == [k |-> "imm", l |-> "", v |-> value]
Target(label) == [k |-> "label", l |-> label[1], v |-> label[2]]
NoOperand == [k |-> "none", l |-> "", v |-> 0]

Instr(mnemonic, dst, src) == [m |-> mnemonic, dst |-> dst, src |-> src]
Instr1(mnemonic, operand) == Instr(mnemonic, operand, NoOperand)
Instr0(mnemonic) == Instr(mnemonic, NoOperand, NoOperand)

xmm0 == Reg("xmm0")
rsp == Reg("rsp")
rbp == Reg("rbp")

LabelOf(operand) == <<operand.l, operand.v>>

instruction_list_push_back(code) == instructions' = instructions \o code
label_list_push_back(list) == labels' = labels \o list
=============================================================================
