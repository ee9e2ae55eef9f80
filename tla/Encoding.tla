------------------------------ MODULE Encoding ------------------------------
(***************************************************************************)
(* The size of an instruction, back_end/source/instructions_to_bin/        *)
(* compute_sizes.c, and its bytes, encode_instructions.c in the same       *)
(* directory.  The two files decide independently how an operand is        *)
(* written; every address of a program rests on their agreement.           *)
(*                                                                         *)
(* Instructions and operands are those of CodeGen.  A name of a register   *)
(* stands for its number and size.  A byte is a number in 0 .. 255; the    *)
(* eight bytes of a double are eight parts of its value.                   *)
(***************************************************************************)
EXTENDS Integers, Sequences

RegNum == [rax |-> 0, rcx |-> 1, rdx |-> 2, rbx |-> 3, rsp |-> 4, rbp |-> 5, rsi |-> 6, rdi |-> 7,
           al |-> 0, cl |-> 1, dl |-> 2, bl |-> 3, xmm0 |-> 0, xmm1 |-> 1]

OneByte(op) == op.l \in {"al", "cl", "dl", "bl"}           (* reg_size = 1     *)
IsXmm(op) == op.k = "reg" /\ op.l \in {"xmm0", "xmm1"}
IsReg(op) == op.k = "reg" /\ ~IsXmm(op)
IsMem(op) == op.k = "mem"
IsMemRel(op) == op.k = "rel"
IsImm(op) == op.k = "imm"
OnRsp(op) == RegNum[op.l] = 4

Arithmetic64 == {"add", "sub", "cmp"}
SseArithmetic == {"addsd", "subsd", "mulsd", "divsd", "sqrtsd"}
ConditionalJumps == {"je", "jz", "jne", "jnz", "jp", "jl", "jge", "jle", "jg", "ja", "jb", "jae", "jbe"}

-----------------------------------------------------------------------------
(* compute_sizes.c *)

(* As if 128 fitted in a signed byte when sizes are computed.                *)
SizedAsWideInt8(value) == -128 <= value /\ value <= 128
SizedAsInt8(value) == -128 <= value /\ value <= 127

FixedSize == [syscall |-> 2, ret |-> 1, push |-> 1, pop |-> 1, dq |-> 8, xor |-> 3, test |-> 3,
              inc |-> 3, dec |-> 3, div |-> 3, lea |-> 4, cvttsd2si |-> 5, cvtsi2sd |-> 5,
              jmp |-> 5, call |-> 5]

SizeOfMov(dst, src) ==
  CASE IsReg(dst) /\ IsImm(src) -> IF OneByte(dst) THEN 2 ELSE 7
    [] IsReg(dst) /\ IsReg(src) -> 3
    [] IsMem(dst) /\ IsReg(src) -> IF dst.v = 0 THEN 2 ELSE 3

SizeOfArithmetic64(dst, src) ==
  IF OneByte(dst) THEN 3 ELSE IF SizedAsInt8(src.v) THEN 4 ELSE 7

(* An address on rsp takes one byte more, unless nothing is added to rsp.    *)
SizeOfMovsd(dst, src) ==
  LET memory == IF IsMem(dst) THEN dst ELSE src
  IN  CASE IsMemRel(dst) \/ IsMemRel(src) -> 8
        [] IsMem(memory) /\ ~SizedAsInt8(memory.v) -> IF OnRsp(memory) THEN 9 ELSE 8
        [] IsMem(memory) /\ SizedAsInt8(memory.v) ->
             IF OnRsp(memory) /\ memory.v # 0 THEN 6 ELSE 5
        [] IsXmm(dst) /\ IsXmm(src) -> 4
        [] OTHER -> 5

SizeOfXorpd(src) == IF IsMemRel(src) THEN 8 ELSE 4
SizeOfSse(src) == CASE IsXmm(src) -> 4 [] IsMemRel(src) -> 8 [] OTHER -> 5

get_instruction_size(i) ==
  CASE i.m \in DOMAIN FixedSize -> FixedSize[i.m]
    [] i.m = "mov" -> SizeOfMov(i.dst, i.src)
    [] i.m \in Arithmetic64 -> SizeOfArithmetic64(i.dst, i.src)
    [] i.m = "movzx" -> IF IsReg(i.src) THEN 4 ELSE 5
    [] i.m = "movsd" -> SizeOfMovsd(i.dst, i.src)
    [] i.m = "xorpd" -> SizeOfXorpd(i.src)
    [] i.m \in SseArithmetic \cup {"ucomisd"} -> SizeOfSse(i.src)
    [] i.m \in ConditionalJumps -> 6

-----------------------------------------------------------------------------
(* encode_instructions.c *)

fits_in_int8(value) == -128 <= value /\ value <= 127

Byte(value) == value % 256                                 (* (uint8_t) value  *)
emit_4_bytes(value) ==
  <<Byte(value), Byte(value \div 256), Byte(value \div 65536), Byte(value \div 16777216)>>
emit_8_bytes(value) == [part \in 1 .. 8 |-> <<value, part>>]

RexW == 72
ModRM(mod, reg, rm) == 64 * mod + 8 * reg + rm
RspSib == 36

Displacement(op) == IF fits_in_int8(op.v) THEN <<Byte(op.v)>> ELSE emit_4_bytes(op.v)

(* [rsp] itself: without a displacement, with a SIB byte. *)
OnlyRsp(op) == OnRsp(op) /\ op.v = 0
RspOperand(reg) == <<ModRM(0, reg, 4), RspSib>>

(* The memory operand of movsd, and the one of ucomisd and the arithmetic,   *)
(* which always takes one byte of displacement and no SIB byte.              *)
MovsdOperand(reg, op) ==
  IF OnlyRsp(op) THEN RspOperand(reg)
  ELSE <<ModRM(IF fits_in_int8(op.v) THEN 1 ELSE 2, reg, RegNum[op.l])>>
       \o (IF OnRsp(op) THEN <<RspSib>> ELSE <<>>) \o Displacement(op)
ShortOperand(reg, op) ==
  IF OnlyRsp(op) THEN RspOperand(reg) ELSE <<ModRM(1, reg, RegNum[op.l]), Byte(op.v)>>

(* As if a distance were counted from the beginning of an instruction.       *)
DistanceFromStart(target, address, length) == target - address
Distance(target, address, length) == target - (address + length)

RelOperand(reg, target, address) == <<ModRM(0, reg, 5)>> \o emit_4_bytes(Distance(target, address, 8))

Registers(reg, rm) == <<ModRM(3, RegNum[reg.l], RegNum[rm.l])>>
Digit(digit, rm) == <<ModRM(3, digit, RegNum[rm.l])>>

encode_mov(dst, src) ==
  CASE IsReg(dst) /\ IsImm(src) /\ OneByte(dst) -> <<176 + RegNum[dst.l], Byte(src.v)>>
    [] IsReg(dst) /\ IsImm(src) /\ ~OneByte(dst) ->
         <<RexW, 199>> \o Digit(0, dst) \o emit_4_bytes(src.v)
    [] IsReg(dst) /\ IsReg(src) -> <<RexW, 137>> \o Registers(src, dst)
    [] IsMem(dst) /\ IsReg(src) /\ dst.v = 0 -> <<136, ModRM(0, RegNum[src.l], RegNum[dst.l])>>
    [] IsMem(dst) /\ IsReg(src) /\ dst.v # 0 ->
         <<136, ModRM(1, RegNum[src.l], RegNum[dst.l]), Byte(dst.v)>>

(* encode_add, encode_sub and encode_cmp differ in the digit in ModRM.       *)
ArithmeticDigit == [add |-> 0, sub |-> 5, cmp |-> 7]
EncodeArithmetic64(m, dst, src) ==
  LET operand == Digit(ArithmeticDigit[m], dst)
  IN  CASE OneByte(dst) -> <<128>> \o operand \o <<Byte(src.v)>>
        [] ~OneByte(dst) /\ ~fits_in_int8(src.v) -> <<RexW, 129>> \o operand \o emit_4_bytes(src.v)
        [] ~OneByte(dst) /\ fits_in_int8(src.v) -> <<RexW, 131>> \o operand \o <<Byte(src.v)>>

encode_movzx(dst, src) ==
  <<RexW, 15, 182>> \o (IF IsReg(src) THEN Registers(dst, src)
                        ELSE <<ModRM(1, RegNum[dst.l], RegNum[src.l]), Byte(src.v)>>)

encode_movsd(dst, src, target, address) ==
  CASE IsXmm(dst) /\ IsMemRel(src) -> <<242, 15, 16>> \o RelOperand(RegNum[dst.l], target, address)
    [] IsXmm(dst) /\ IsMem(src) -> <<242, 15, 16>> \o MovsdOperand(RegNum[dst.l], src)
    [] IsMem(dst) /\ IsXmm(src) -> <<242, 15, 17>> \o MovsdOperand(RegNum[src.l], dst)
    [] IsXmm(dst) /\ IsXmm(src) -> <<242, 15, 16>> \o Registers(dst, src)

(* xorpd, ucomisd and the arithmetic instructions. *)
SseOpcode == [addsd |-> 88, subsd |-> 92, mulsd |-> 89, divsd |-> 94, sqrtsd |-> 81,
              xorpd |-> 87, ucomisd |-> 46]
EncodeSse(m, dst, src, target, address) ==
  <<IF m \in SseArithmetic THEN 242 ELSE 102, 15, SseOpcode[m]>>
  \o CASE IsXmm(src) -> Registers(dst, src)
       [] IsMemRel(src) -> RelOperand(RegNum[dst.l], target, address)
       [] IsMem(src) -> ShortOperand(RegNum[dst.l], src)

JccOpcode == [je |-> 132, jz |-> 132, jne |-> 133, jnz |-> 133, jp |-> 138, jl |-> 140, jge |-> 141,
              jle |-> 142, jg |-> 143, ja |-> 135, jb |-> 130, jae |-> 131, jbe |-> 134]

encode_instruction(i, target, address) ==
  LET dst == i.dst
      src == i.src
  IN  CASE i.m = "syscall" -> <<15, 5>>
        [] i.m = "ret" -> <<195>>
        [] i.m = "push" -> <<80 + RegNum[dst.l]>>
        [] i.m = "pop" -> <<88 + RegNum[dst.l]>>
        [] i.m = "dq" -> emit_8_bytes(dst.v)
        [] i.m = "xor" -> <<RexW, 51>> \o Registers(dst, src)
        [] i.m = "test" -> <<RexW, 133>> \o Registers(dst, src)
        [] i.m = "mov" -> encode_mov(dst, src)
        [] i.m \in Arithmetic64 -> EncodeArithmetic64(i.m, dst, src)
        [] i.m = "inc" -> <<RexW, 255>> \o Digit(0, dst)
        [] i.m = "dec" -> <<RexW, 255>> \o Digit(1, dst)
        [] i.m = "div" -> <<RexW, 247>> \o Digit(6, dst)
        [] i.m = "lea" -> <<RexW, 141, ModRM(1, RegNum[dst.l], RegNum[src.l]), Byte(src.v)>>
        [] i.m = "movzx" -> encode_movzx(dst, src)
        [] i.m = "movsd" -> encode_movsd(dst, src, target, address)
        [] i.m \in DOMAIN SseOpcode -> EncodeSse(i.m, dst, src, target, address)
        [] i.m = "cvttsd2si" -> <<242, RexW, 15, 44>> \o Registers(dst, src)
        [] i.m = "cvtsi2sd" -> <<242, RexW, 15, 42>> \o Registers(dst, src)
        [] i.m = "jmp" -> <<233>> \o emit_4_bytes(Distance(target, address, 5))
        [] i.m = "call" -> <<232>> \o emit_4_bytes(Distance(target, address, 5))
        [] i.m \in ConditionalJumps ->
             <<15, JccOpcode[i.m]>> \o emit_4_bytes(Distance(target, address, 6))

(* The combinations of operands that no encoder refuses with an assertion.   *)
Accepted(i) ==
  \/ i.m \in {"syscall", "ret", "push", "pop", "dq", "xor", "test", "inc", "dec", "div", "lea"}
  \/ i.m \in Arithmetic64
  \/ i.m = "mov" /\ ((IsReg(i.dst) /\ (IsImm(i.src) \/ IsReg(i.src))) \/ (IsMem(i.dst) /\ IsReg(i.src)))
  \/ i.m = "movzx" /\ IsReg(i.dst) /\ (IsReg(i.src) \/ IsMem(i.src))
  \/ i.m = "movsd" /\ IsXmm(i.dst) /\ (IsXmm(i.src) \/ IsMem(i.src) \/ IsMemRel(i.src))
  \/ i.m = "movsd" /\ IsMem(i.dst) /\ IsXmm(i.src)
  \/ i.m = "xorpd" /\ IsXmm(i.dst) /\ (IsXmm(i.src) \/ IsMemRel(i.src))
  \/ i.m \in SseArithmetic \cup {"ucomisd"}
       /\ IsXmm(i.dst) /\ (IsXmm(i.src) \/ IsMem(i.src) \/ IsMemRel(i.src))
  \/ i.m = "cvttsd2si" /\ IsReg(i.dst) /\ IsXmm(i.src)
  \/ i.m = "cvtsi2sd" /\ IsXmm(i.dst) /\ IsReg(i.src)
  \/ i.m \in {"jmp", "call"} \cup ConditionalJumps /\ i.dst.k = "label"
=============================================================================
