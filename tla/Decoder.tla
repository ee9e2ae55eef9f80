------------------------------ MODULE Decoder ------------------------------
(***************************************************************************)
(* The reference for Encoding: what a processor makes of bytes, for the    *)
(* part of the x86-64 instruction set that the code generator uses.  It is *)
(* written from the side of the processor: a prefix and an opcode select   *)
(* an instruction, a ModRM byte, a SIB byte and a displacement say what    *)
(* the operands are.  Nothing here comes from the repository.              *)
(***************************************************************************)
EXTENDS Integers, Sequences

(* The byte after n others, and a number of four bytes there.                *)
At(bytes, n) == bytes[n + 1]
Signed(byte) == IF byte < 128 THEN byte ELSE byte - 256
Dword(bytes, n) ==
  At(bytes, n) + 256 * At(bytes, n + 1) + 65536 * At(bytes, n + 2) + 16777216 * Signed(At(bytes, n + 3))

General == <<"rax", "rcx", "rdx", "rbx", "rsp", "rbp", "rsi", "rdi">>
Sse == <<"xmm0", "xmm1", "xmm2", "xmm3", "xmm4", "xmm5", "xmm6", "xmm7">>

An(kind, name, number) == [k |-> kind, l |-> name, v |-> number]
Is(instruction, dst, src, length) == [m |-> instruction, dst |-> dst, src |-> src, length |-> length]
No == An("none", "", 0)

RegField(byte) == (byte \div 8) % 8

(* The operand that ModRM at n describes: its length with all that follows,  *)
(* and for an operand relative to the next instruction the distance.         *)
RmOperand(bytes, n, registers) ==
  LET mod == At(bytes, n) \div 64
      rm == At(bytes, n) % 8
      sib == IF rm = 4 THEN 1 ELSE 0
      base == General[(IF rm = 4 THEN At(bytes, n + 1) % 8 ELSE rm) + 1]
  IN  CASE mod = 3 -> [operand |-> An("reg", registers[rm + 1], 0), length |-> 1]
        [] mod = 0 /\ rm = 5 -> [operand |-> An("rel", "", Dword(bytes, n + 1)), length |-> 5]
        [] mod = 0 /\ rm # 5 -> [operand |-> An("mem", base, 0), length |-> 1 + sib]
        [] mod = 1 -> [operand |-> An("mem", base, Signed(At(bytes, n + 1 + sib))), length |-> 2 + sib]
        [] mod = 2 -> [operand |-> An("mem", base, Dword(bytes, n + 1 + sib)), length |-> 5 + sib]

(* Distances count from the end of the instruction.                          *)
Absolute(operand, end) == IF operand.k = "rel" THEN [operand EXCEPT !.v = @ + end] ELSE operand

JccName == [code \in {2, 3, 4, 5, 6, 7, 10, 12, 13, 14, 15} |->
  CASE code = 2 -> "jb" [] code = 3 -> "jae" [] code = 4 -> "je" [] code = 5 -> "jne"
    [] code = 6 -> "jbe" [] code = 7 -> "ja" [] code = 10 -> "jp"
    [] code = 12 -> "jl" [] code = 13 -> "jge" [] code = 14 -> "jle" [] code = 15 -> "jg"]

Group1 == [digit \in {0, 5, 7} |-> CASE digit = 0 -> "add" [] digit = 5 -> "sub" [] digit = 7 -> "cmp"]

SseName == [opcode \in {16, 81, 88, 89, 92, 94} |->
  CASE opcode = 16 -> "movsd" [] opcode = 81 -> "sqrtsd" [] opcode = 88 -> "addsd"
    [] opcode = 89 -> "mulsd" [] opcode = 92 -> "subsd" [] opcode = 94 -> "divsd"]

(* Instructions on 64 bits, behind the prefix REX.W at n.                    *)
Decode64(bytes, n) ==
  LET opcode == At(bytes, n + 1)
      rm == RmOperand(bytes, n + 2, General)
      reg == An("reg", General[RegField(At(bytes, n + 2)) + 1], 0)
      digit == RegField(At(bytes, n + 2))
      end == 2 + rm.length
  IN  CASE opcode = 51 -> Is("xor", reg, rm.operand, end)
        [] opcode = 137 -> Is("mov", rm.operand, reg, end)
        [] opcode = 199 -> Is("mov", rm.operand, An("imm", "", Dword(bytes, n + end)), end + 4)
        [] opcode = 129 -> Is(Group1[digit], rm.operand, An("imm", "", Dword(bytes, n + end)), end + 4)
        [] opcode = 131 -> Is(Group1[digit], rm.operand, An("imm", "", Signed(At(bytes, n + end))), end + 1)

(* Instructions on doubles, behind a prefix at n.                            *)
DecodeSse(bytes, n) ==
  LET prefix == At(bytes, n)
      opcode == At(bytes, n + 2)
      rm == RmOperand(bytes, n + 3, Sse)
      reg == An("reg", Sse[RegField(At(bytes, n + 3)) + 1], 0)
      end == 3 + rm.length
  IN  CASE prefix = 242 /\ opcode = 17 -> Is("movsd", rm.operand, reg, end)
        [] prefix = 242 /\ opcode # 17 -> Is(SseName[opcode], reg, rm.operand, end)
        [] prefix = 102 /\ opcode = 87 -> Is("xorpd", reg, rm.operand, end)
        [] prefix = 102 /\ opcode = 46 -> Is("ucomisd", reg, rm.operand, end)

(* The instruction whose bytes begin after n others, which are in memory at  *)
(* `address`.                                                                *)
Decode(bytes, n, address) ==
  LET first == At(bytes, n)
      To(distance, length) == An("label", "", address + length + distance)
      found ==
        CASE first = 195 -> Is("ret", No, No, 1)
          [] first \in 80 .. 87 -> Is("push", An("reg", General[first - 80 + 1], 0), No, 1)
          [] first \in 88 .. 95 -> Is("pop", An("reg", General[first - 88 + 1], 0), No, 1)
          [] first = 233 -> Is("jmp", To(Dword(bytes, n + 1), 5), No, 5)
          [] first = 232 -> Is("call", To(Dword(bytes, n + 1), 5), No, 5)
          [] first = 15 /\ At(bytes, n + 1) = 5 -> Is("syscall", No, No, 2)
          [] first = 15 /\ At(bytes, n + 1) # 5 ->
               Is(JccName[At(bytes, n + 1) - 128], To(Dword(bytes, n + 2), 6), No, 6)
          [] first = 72 -> Decode64(bytes, n)
          [] first \in {242, 102} -> DecodeSse(bytes, n)
  IN  [found EXCEPT !.src = Absolute(@, address + found.length)]
=============================================================================
