---------------------------- MODULE BackEndProofs ----------------------------
(***************************************************************************)
(* Theorems about the binary back end: first the layout, for all lists,    *)
(* page sizes and sizes of the library; then the back end as a whole, from *)
(* the analysed program to the file.  The layout works on the lists that   *)
(* the generator leaves, and the file is one that can be loaded and        *)
(* started.                                                                *)
(***************************************************************************)
EXTENDS BackEnd, CodeGenLabels

-----------------------------------------------------------------------------
(* Lengths of the parts of an encoding. *)

(* The length of a concatenation, whatever the elements are. *)
LEMMA LenConcat ==
  ASSUME NEW s, NEW t, Len(s) \in Nat, Len(t) \in Nat
  PROVE  Len(s \o t) = Len(s) + Len(t)
OBVIOUS

(* The parts that always have the same length. *)
LEMMA FixedParts ==
  /\ \A value : Len(emit_4_bytes(value)) = 4 /\ Len(emit_8_bytes(value)) = 8
  /\ \A reg, rm : Len(Registers(reg, rm)) = 1 /\ Len(Digit(reg, rm)) = 1
BY DEF emit_4_bytes, emit_8_bytes, Registers, Digit

(* An operand relative to rip: ModRM and a distance. *)
LEMMA RelOperandLength ==
  ASSUME NEW reg, NEW target, NEW address
  PROVE  Len(RelOperand(reg, target, address)) = 5
<1> DEFINE modrm == <<ModRM(0, reg, 5)>>
           distance == emit_4_bytes(Distance(target, address, 8))
<1>1. Len(modrm) = 1 /\ Len(distance) = 4
  BY FixedParts
<1>2. RelOperand(reg, target, address) = modrm \o distance
  BY DEF RelOperand
<1> HIDE DEF modrm, distance
<1>3. Len(modrm) \in Nat /\ Len(distance) \in Nat
  BY <1>1
<1>4. Len(modrm \o distance) = Len(modrm) + Len(distance)
  BY <1>3, LenConcat
<1> QED
  BY <1>1, <1>2, <1>4

(* The memory operand of movsd. *)
LEMMA MovsdOperandLength ==
  ASSUME NEW reg, NEW op
  PROVE  Len(MovsdOperand(reg, op)) =
           IF OnlyRsp(op) THEN 2
           ELSE (IF OnRsp(op) THEN 2 ELSE 1) + (IF fits_in_int8(op.v) THEN 1 ELSE 4)
<1> DEFINE modrm == <<ModRM(IF fits_in_int8(op.v) THEN 1 ELSE 2, reg, RegNum[op.l])>>
           sib == IF OnRsp(op) THEN <<RspSib>> ELSE <<>>
           displacement == Displacement(op)
<1>1. Len(modrm) = 1 /\ Len(sib) = IF OnRsp(op) THEN 1 ELSE 0
  OBVIOUS
<1>2. Len(displacement) = IF fits_in_int8(op.v) THEN 1 ELSE 4
  BY FixedParts DEF Displacement
<1>3. MovsdOperand(reg, op) = IF OnlyRsp(op) THEN RspOperand(reg) ELSE modrm \o sib \o displacement
  BY DEF MovsdOperand
<1>4. Len(RspOperand(reg)) = 2
  BY DEF RspOperand
<1> HIDE DEF modrm, sib, displacement
<1>5. Len(modrm) \in Nat /\ Len(sib) \in Nat /\ Len(displacement) \in Nat
  BY <1>1, <1>2
<1>6. Len(modrm \o sib) = Len(modrm) + Len(sib)
  BY <1>5, LenConcat
<1>7. Len(modrm \o sib) \in Nat
  BY <1>5, <1>6
<1>8. Len(modrm \o sib \o displacement) = Len(modrm \o sib) + Len(displacement)
  BY <1>5, <1>7, LenConcat
<1>9. Len(modrm \o sib \o displacement) =
        (IF OnRsp(op) THEN 2 ELSE 1) + (IF fits_in_int8(op.v) THEN 1 ELSE 4)
  BY <1>1, <1>2, <1>5, <1>6, <1>8
<1>10. CASE OnlyRsp(op)
  BY <1>3, <1>4, <1>10
<1>11. CASE ~OnlyRsp(op)
  BY <1>3, <1>9, <1>11
<1> QED
  BY <1>10, <1>11

(* The memory operand of the other instructions on doubles. *)
LEMMA ShortOperandLength ==
  ASSUME NEW reg, NEW op
  PROVE  Len(ShortOperand(reg, op)) = 2
BY DEF ShortOperand, RspOperand

-----------------------------------------------------------------------------
(* The size that compute_sizes.c gives is the number of bytes. *)

(* Fixed bytes before something else. *)
LEMMA PrefixLength ==
  ASSUME NEW a, NEW b, NEW c, NEW t, Len(t) \in Nat
  PROVE  /\ Len(<<a>> \o t) = 1 + Len(t)
         /\ Len(<<a, b>> \o t) = 2 + Len(t)
         /\ Len(<<a, b, c>> \o t) = 3 + Len(t)
<1> DEFINE one == <<a>>
           two == <<a, b>>
           three == <<a, b, c>>
<1>1. Len(one) = 1 /\ Len(two) = 2 /\ Len(three) = 3
  OBVIOUS
<1>2. Len(one) \in Nat /\ Len(two) \in Nat /\ Len(three) \in Nat
  BY <1>1
<1> HIDE DEF one, two, three
<1>3. /\ Len(one \o t) = Len(one) + Len(t)
      /\ Len(two \o t) = Len(two) + Len(t)
      /\ Len(three \o t) = Len(three) + Len(t)
  BY <1>2, LenConcat
<1>4. /\ Len(one \o t) = 1 + Len(t)
      /\ Len(two \o t) = 2 + Len(t)
      /\ Len(three \o t) = 3 + Len(t)
  BY <1>1, <1>3
<1> QED
  BY <1>4 DEF one, two, three

(* mov. *)
LEMMA MovLength ==
  ASSUME NEW dst, NEW src,
         (IsReg(dst) /\ (IsImm(src) \/ IsReg(src))) \/ (IsMem(dst) /\ IsReg(src))
  PROVE  Len(encode_mov(dst, src)) = SizeOfMov(dst, src)
<1> DEFINE operand == Digit(0, dst)
           value == emit_4_bytes(src.v)
           registers == Registers(src, dst)
<1>1. Len(operand) = 1 /\ Len(value) = 4 /\ Len(registers) = 1
  BY FixedParts
<1>2. Len(operand) \in Nat /\ Len(value) \in Nat /\ Len(registers) \in Nat
  BY <1>1
<1>3. Len(<<RexW, 199>> \o operand \o value) = 7 /\ Len(<<RexW, 137>> \o registers) = 3
  <2> HIDE DEF operand, value, registers
  <2>1. Len(<<RexW, 199>> \o operand) = 2 + Len(operand) /\ Len(<<RexW, 137>> \o registers) = 2 + Len(registers)
    BY <1>2, PrefixLength
  <2> DEFINE before == <<RexW, 199>> \o operand
  <2>2. Len(before) \in Nat /\ Len(before) = 3
    BY <1>1, <2>1
  <2> HIDE DEF before
  <2>3. Len(before \o value) = Len(before) + Len(value)
    BY <1>2, <2>2, LenConcat
  <2>4. Len(before \o value) = 7
    BY <1>1, <2>2, <2>3
  <2> QED
    BY <1>1, <2>1, <2>4 DEF before
<1>4. ~(IsReg(src) /\ IsImm(src)) /\ ~(IsReg(dst) /\ IsMem(dst))
  BY DEF IsReg, IsImm, IsMem
<1>5. CASE IsReg(dst) /\ IsImm(src)
  BY <1>3, <1>4, <1>5 DEF encode_mov, SizeOfMov
<1>6. CASE IsReg(dst) /\ IsReg(src)
  BY <1>3, <1>4, <1>6 DEF encode_mov, SizeOfMov
<1>7. CASE IsMem(dst) /\ IsReg(src)
  BY <1>4, <1>7 DEF encode_mov, SizeOfMov
<1> QED
  BY <1>5, <1>6, <1>7

(* add, sub and cmp. *)
LEMMA Arithmetic64Length ==
  ASSUME NEW m, NEW dst, NEW src
  PROVE  Len(EncodeArithmetic64(m, dst, src)) = SizeOfArithmetic64(dst, src)
<1> DEFINE operand == Digit(ArithmeticDigit[m], dst)
           value == emit_4_bytes(src.v)
           short == <<Byte(src.v)>>
           byteform == <<128>> \o operand
           shortform == <<RexW, 131>> \o operand
           longform == <<RexW, 129>> \o operand
<1>1. Len(operand) = 1 /\ Len(value) = 4 /\ Len(short) = 1
  BY FixedParts
<1>2. Len(operand) \in Nat /\ Len(value) \in Nat /\ Len(short) \in Nat
  BY <1>1
<1>3. EncodeArithmetic64(m, dst, src) =
        CASE OneByte(dst) -> byteform \o short
          [] ~OneByte(dst) /\ ~fits_in_int8(src.v) -> longform \o value
          [] ~OneByte(dst) /\ fits_in_int8(src.v) -> shortform \o short
  BY DEF EncodeArithmetic64
<1> HIDE DEF operand, value, short
<1>4. /\ Len(byteform) = 1 + Len(operand)
      /\ Len(shortform) = 2 + Len(operand)
      /\ Len(longform) = 2 + Len(operand)
  BY <1>2, PrefixLength
<1>5. /\ Len(byteform) \in Nat /\ Len(byteform) = 2
      /\ Len(shortform) \in Nat /\ Len(shortform) = 3
      /\ Len(longform) \in Nat /\ Len(longform) = 3
  BY <1>1, <1>4
<1> HIDE DEF byteform, shortform, longform
<1>6. /\ Len(byteform \o short) = Len(byteform) + Len(short)
      /\ Len(shortform \o short) = Len(shortform) + Len(short)
      /\ Len(longform \o value) = Len(longform) + Len(value)
  BY <1>2, <1>5, LenConcat
<1>7. /\ Len(byteform \o short) = 3
      /\ Len(shortform \o short) = 4
      /\ Len(longform \o value) = 7
  BY <1>1, <1>5, <1>6
<1> QED
  BY <1>3, <1>7 DEF SizeOfArithmetic64, SizedAsInt8, fits_in_int8

(* movzx. *)
LEMMA MovzxLength ==
  ASSUME NEW dst, NEW src
  PROVE  Len(encode_movzx(dst, src)) = IF IsReg(src) THEN 4 ELSE 5
<1> DEFINE operand == IF IsReg(src) THEN Registers(dst, src)
                      ELSE <<ModRM(1, RegNum[dst.l], RegNum[src.l]), Byte(src.v)>>
<1>1. Len(operand) = IF IsReg(src) THEN 1 ELSE 2
  BY FixedParts
<1>2. Len(operand) \in Nat
  BY <1>1
<1>3. encode_movzx(dst, src) = <<RexW, 15, 182>> \o operand
  BY DEF encode_movzx
<1> HIDE DEF operand
<1>4. \A a : Len(<<a, 15, 182>> \o operand) = 3 + Len(operand)
  BY <1>2, PrefixLength
<1>5. Len(encode_movzx(dst, src)) = 3 + Len(operand)
  BY <1>3, <1>4
<1> QED
  BY <1>1, <1>5

(* movsd. *)
LEMMA MovsdLength ==
  ASSUME NEW dst, NEW src, NEW target, NEW address,
         \/ IsXmm(dst) /\ (IsXmm(src) \/ IsMem(src) \/ IsMemRel(src))
         \/ IsMem(dst) /\ IsXmm(src)
  PROVE  Len(encode_movsd(dst, src, target, address)) = SizeOfMovsd(dst, src)
<1> DEFINE relative == RelOperand(RegNum[dst.l], target, address)
           loaded == MovsdOperand(RegNum[dst.l], src)
           stored == MovsdOperand(RegNum[src.l], dst)
           registers == Registers(dst, src)
           LengthOn(op) == IF OnlyRsp(op) THEN 2
                           ELSE (IF OnRsp(op) THEN 2 ELSE 1) + (IF fits_in_int8(op.v) THEN 1 ELSE 4)
<1>1. Len(relative) = 5 /\ Len(registers) = 1
  BY RelOperandLength, FixedParts
<1>2. Len(loaded) = LengthOn(src) /\ Len(stored) = LengthOn(dst)
  BY MovsdOperandLength
<1>3. LengthOn(src) \in Nat /\ LengthOn(dst) \in Nat
  OBVIOUS
<1>4. encode_movsd(dst, src, target, address) =
        CASE IsXmm(dst) /\ IsMemRel(src) -> <<242, 15, 16>> \o relative
          [] IsXmm(dst) /\ IsMem(src) -> <<242, 15, 16>> \o loaded
          [] IsMem(dst) /\ IsXmm(src) -> <<242, 15, 17>> \o stored
          [] IsXmm(dst) /\ IsXmm(src) -> <<242, 15, 16>> \o registers
  BY DEF encode_movsd
<1> HIDE DEF relative, loaded, stored, registers, LengthOn
<1>5. Len(relative) \in Nat /\ Len(loaded) \in Nat /\ Len(stored) \in Nat /\ Len(registers) \in Nat
  BY <1>1, <1>2, <1>3
<1>6. /\ Len(<<242, 15, 16>> \o relative) = 3 + Len(relative)
      /\ Len(<<242, 15, 16>> \o loaded) = 3 + Len(loaded)
      /\ Len(<<242, 15, 17>> \o stored) = 3 + Len(stored)
      /\ Len(<<242, 15, 16>> \o registers) = 3 + Len(registers)
  BY <1>5, PrefixLength
<1>7. \A op : IsMem(op) => ~IsXmm(op) /\ ~IsMemRel(op)
  BY DEF IsMem, IsXmm, IsMemRel
<1>8. \A op : IsMemRel(op) => ~IsXmm(op)
  BY DEF IsXmm, IsMemRel
<1>9. \A op : fits_in_int8(op.v) <=> SizedAsInt8(op.v)
  BY DEF fits_in_int8, SizedAsInt8
<1>10. fits_in_int8(0)
  BY DEF fits_in_int8
<1>11. CASE IsXmm(dst) /\ IsMemRel(src)
  BY <1>1, <1>4, <1>6, <1>7, <1>8, <1>11 DEF SizeOfMovsd
<1>12. CASE IsXmm(dst) /\ IsMem(src)
  <2>1. Len(encode_movsd(dst, src, target, address)) = 3 + LengthOn(src)
    BY <1>2, <1>4, <1>6, <1>7, <1>8, <1>12
  <2>2. SizeOfMovsd(dst, src) = IF ~SizedAsInt8(src.v) THEN (IF OnRsp(src) THEN 9 ELSE 8)
                                ELSE IF OnRsp(src) /\ src.v # 0 THEN 6 ELSE 5
    BY <1>7, <1>8, <1>12 DEF SizeOfMovsd
  <2> QED
    BY <2>1, <2>2, <1>9, <1>10 DEF LengthOn, OnlyRsp
<1>13. CASE IsMem(dst) /\ IsXmm(src)
  <2>1. Len(encode_movsd(dst, src, target, address)) = 3 + LengthOn(dst)
    BY <1>2, <1>4, <1>6, <1>7, <1>8, <1>13
  <2>2. SizeOfMovsd(dst, src) = IF ~SizedAsInt8(dst.v) THEN (IF OnRsp(dst) THEN 9 ELSE 8)
                                ELSE IF OnRsp(dst) /\ dst.v # 0 THEN 6 ELSE 5
    BY <1>7, <1>8, <1>13 DEF SizeOfMovsd
  <2> QED
    BY <2>1, <2>2, <1>9, <1>10 DEF LengthOn, OnlyRsp
<1>14. CASE IsXmm(dst) /\ IsXmm(src)
  BY <1>1, <1>4, <1>6, <1>7, <1>8, <1>14 DEF SizeOfMovsd
<1> QED
  BY <1>11, <1>12, <1>13, <1>14

(* xorpd, ucomisd and the arithmetic instructions. *)
LEMMA SseLength ==
  ASSUME NEW m, NEW dst, NEW src, NEW target, NEW address,
         IsXmm(src) \/ IsMem(src) \/ IsMemRel(src)
  PROVE  Len(EncodeSse(m, dst, src, target, address)) = SizeOfSse(src)
<1> DEFINE operand == CASE IsXmm(src) -> Registers(dst, src)
                        [] IsMemRel(src) -> RelOperand(RegNum[dst.l], target, address)
                        [] IsMem(src) -> ShortOperand(RegNum[dst.l], src)
<1>1. \A op : ~(IsMem(op) /\ IsXmm(op)) /\ ~(IsMem(op) /\ IsMemRel(op)) /\ ~(IsMemRel(op) /\ IsXmm(op))
  BY DEF IsMem, IsXmm, IsMemRel
<1>2. Len(operand) = IF IsXmm(src) THEN 1 ELSE IF IsMemRel(src) THEN 5 ELSE 2
  BY <1>1, FixedParts, RelOperandLength, ShortOperandLength
<1>3. Len(operand) \in Nat
  BY <1>2
<1>4. EncodeSse(m, dst, src, target, address) =
        <<IF m \in SseArithmetic THEN 242 ELSE 102, 15, SseOpcode[m]>> \o operand
  BY DEF EncodeSse
<1> HIDE DEF operand
<1>5. Len(EncodeSse(m, dst, src, target, address)) = 3 + Len(operand)
  BY <1>3, <1>4, PrefixLength
<1> QED
  BY <1>1, <1>2, <1>5 DEF SizeOfSse

(* Fixed bytes before a distance. *)
LEMMA DistanceLength ==
  ASSUME NEW a, NEW b, NEW value
  PROVE  /\ Len(<<a>> \o emit_4_bytes(value)) = 5
         /\ Len(<<a, b>> \o emit_4_bytes(value)) = 6
<1> DEFINE bytes == emit_4_bytes(value)
<1>1. Len(bytes) = 4
  BY FixedParts
<1> HIDE DEF bytes
<1>2. Len(bytes) \in Nat
  BY <1>1
<1>3. Len(<<a>> \o bytes) = 1 + Len(bytes) /\ Len(<<a, b>> \o bytes) = 2 + Len(bytes)
  BY <1>2, PrefixLength
<1>4. Len(<<a>> \o bytes) = 5 /\ Len(<<a, b>> \o bytes) = 6
  BY <1>1, <1>3
<1> QED
  BY <1>4 DEF bytes

(* Fixed bytes before registers. *)
LEMMA RegistersLength ==
  ASSUME NEW a, NEW b, NEW reg, NEW rm
  PROVE  Len(<<a, b>> \o Registers(reg, rm)) = 3 /\ Len(<<a, b>> \o Digit(reg, rm)) = 3
<1> DEFINE registers == Registers(reg, rm)
           digit == Digit(reg, rm)
<1>1. Len(registers) = 1 /\ Len(digit) = 1
  BY FixedParts
<1> HIDE DEF registers, digit
<1>2. Len(registers) \in Nat /\ Len(digit) \in Nat
  BY <1>1
<1>3. Len(<<a, b>> \o registers) = 2 + Len(registers) /\ Len(<<a, b>> \o digit) = 2 + Len(digit)
  BY <1>2, PrefixLength
<1>4. Len(<<a, b>> \o registers) = 3 /\ Len(<<a, b>> \o digit) = 3
  BY <1>1, <1>3
<1> QED
  BY <1>4 DEF registers, digit

(* The conversions: four fixed bytes and registers. *)
LEMMA ConversionLength ==
  ASSUME NEW a, NEW b, NEW c, NEW d, NEW reg, NEW rm
  PROVE  Len(<<a, b, c, d>> \o Registers(reg, rm)) = 5
<1> DEFINE prefix == <<a, b, c, d>>
           registers == Registers(reg, rm)
<1>1. Len(prefix) = 4 /\ Len(registers) = 1
  BY FixedParts
<1> HIDE DEF prefix, registers
<1>2. Len(prefix) \in Nat /\ Len(registers) \in Nat
  BY <1>1
<1>3. Len(prefix \o registers) = Len(prefix) + Len(registers)
  BY <1>2, LenConcat
<1>4. Len(prefix \o registers) = 5
  BY <1>1, <1>3
<1> QED
  BY <1>4 DEF prefix, registers


(* The tables of the two files as sets and values. *)
LEMMA Tables ==
  /\ DOMAIN FixedSize = {"syscall", "ret", "push", "pop", "dq", "xor", "test", "inc", "dec", "div",
                         "lea", "cvttsd2si", "cvtsi2sd", "jmp", "call"}
  /\ FixedSize["syscall"] = 2
  /\ \A m \in {"ret", "push", "pop"} : FixedSize[m] = 1
  /\ FixedSize["dq"] = 8
  /\ \A m \in {"xor", "test", "inc", "dec", "div"} : FixedSize[m] = 3
  /\ FixedSize["lea"] = 4
  /\ \A m \in {"cvttsd2si", "cvtsi2sd", "jmp", "call"} : FixedSize[m] = 5
  /\ DOMAIN SseOpcode = SseArithmetic \cup {"ucomisd", "xorpd"}
BY DEF FixedSize, SseOpcode, SseArithmetic

(* An instruction that is accepted has as many bytes as calculate_sizes has  *)
(* counted for it, wherever it is and whatever address it refers to.         *)
THEOREM SizeIsLength ==
  ASSUME NEW i, NEW target, NEW address, Accepted(i)
  PROVE  /\ Len(encode_instruction(i, target, address)) = get_instruction_size(i)
         /\ get_instruction_size(i) \in Nat
<1> DEFINE dst == i.dst
           src == i.src
           bytes == encode_instruction(i, target, address)
           size == get_instruction_size(i)
<1> USE DEF Arithmetic64, SseArithmetic, ConditionalJumps
<1>1. CASE i.m = "syscall"
  <2>1. bytes = <<15, 5>>
    BY <1>1, Tables DEF encode_instruction
  <2>2. size = 2
    BY <1>1, Tables DEF get_instruction_size
  <2> QED
    BY <2>1, <2>2
<1>2. CASE i.m = "ret"
  <2>1. bytes = <<195>>
    BY <1>2, Tables DEF encode_instruction
  <2>2. size = 1
    BY <1>2, Tables DEF get_instruction_size
  <2> QED
    BY <2>1, <2>2
<1>3. CASE i.m = "push"
  <2>1. bytes = <<80 + RegNum[dst.l]>>
    BY <1>3, Tables DEF encode_instruction
  <2>2. size = 1
    BY <1>3, Tables DEF get_instruction_size
  <2> QED
    BY <2>1, <2>2
<1>4. CASE i.m = "pop"
  <2>1. bytes = <<88 + RegNum[dst.l]>>
    BY <1>4, Tables DEF encode_instruction
  <2>2. size = 1
    BY <1>4, Tables DEF get_instruction_size
  <2> QED
    BY <2>1, <2>2
<1>5. CASE i.m = "dq"
  <2>1. bytes = emit_8_bytes(dst.v)
    BY <1>5, Tables DEF encode_instruction
  <2>2. size = 8
    BY <1>5, Tables DEF get_instruction_size
  <2> QED
    BY <2>1, <2>2, FixedParts
<1>6. CASE i.m = "xor"
  <2>1. bytes = <<RexW, 51>> \o Registers(dst, src)
    BY <1>6, Tables DEF encode_instruction
  <2>2. size = 3
    BY <1>6, Tables DEF get_instruction_size
  <2> QED
    BY <2>1, <2>2, RegistersLength
<1>7. CASE i.m = "test"
  <2>1. bytes = <<RexW, 133>> \o Registers(dst, src)
    BY <1>7, Tables DEF encode_instruction
  <2>2. size = 3
    BY <1>7, Tables DEF get_instruction_size
  <2> QED
    BY <2>1, <2>2, RegistersLength
<1>8. CASE i.m = "inc"
  <2>1. bytes = <<RexW, 255>> \o Digit(0, dst)
    BY <1>8, Tables DEF encode_instruction
  <2>2. size = 3
    BY <1>8, Tables DEF get_instruction_size
  <2> QED
    BY <2>1, <2>2, RegistersLength
<1>9. CASE i.m = "dec"
  <2>1. bytes = <<RexW, 255>> \o Digit(1, dst)
    BY <1>9, Tables DEF encode_instruction
  <2>2. size = 3
    BY <1>9, Tables DEF get_instruction_size
  <2> QED
    BY <2>1, <2>2, RegistersLength
<1>10. CASE i.m = "div"
  <2>1. bytes = <<RexW, 247>> \o Digit(6, dst)
    BY <1>10, Tables DEF encode_instruction
  <2>2. size = 3
    BY <1>10, Tables DEF get_instruction_size
  <2> QED
    BY <2>1, <2>2, RegistersLength
<1>11. CASE i.m = "lea"
  <2>1. bytes = <<RexW, 141, ModRM(1, RegNum[dst.l], RegNum[src.l]), Byte(src.v)>>
    BY <1>11, Tables DEF encode_instruction
  <2>2. size = 4
    BY <1>11, Tables DEF get_instruction_size
  <2> QED
    BY <2>1, <2>2
<1>12. CASE i.m = "cvttsd2si"
  <2>1. bytes = <<242, RexW, 15, 44>> \o Registers(dst, src)
    BY <1>12, Tables DEF encode_instruction
  <2>2. size = 5
    BY <1>12, Tables DEF get_instruction_size
  <2> QED
    BY <2>1, <2>2, ConversionLength
<1>13. CASE i.m = "cvtsi2sd"
  <2>1. bytes = <<242, RexW, 15, 42>> \o Registers(dst, src)
    BY <1>13, Tables DEF encode_instruction
  <2>2. size = 5
    BY <1>13, Tables DEF get_instruction_size
  <2> QED
    BY <2>1, <2>2, ConversionLength
<1>14. CASE i.m = "jmp"
  <2>1. bytes = <<233>> \o emit_4_bytes(Distance(target, address, 5))
    BY <1>14, Tables DEF encode_instruction
  <2>2. size = 5
    BY <1>14, Tables DEF get_instruction_size
  <2> QED
    BY <2>1, <2>2, DistanceLength
<1>15. CASE i.m = "call"
  <2>1. bytes = <<232>> \o emit_4_bytes(Distance(target, address, 5))
    BY <1>15, Tables DEF encode_instruction
  <2>2. size = 5
    BY <1>15, Tables DEF get_instruction_size
  <2> QED
    BY <2>1, <2>2, DistanceLength
<1>16. CASE i.m \in ConditionalJumps
  <2>1. bytes = <<15, JccOpcode[i.m]>> \o emit_4_bytes(Distance(target, address, 6))
    BY <1>16, Tables DEF encode_instruction
  <2>2. size = 6
    BY <1>16, Tables DEF get_instruction_size
  <2> QED
    BY <2>1, <2>2, DistanceLength
<1>17. CASE i.m \in Arithmetic64
  <2>1. bytes = EncodeArithmetic64(i.m, dst, src)
    BY <1>17, Tables DEF encode_instruction
  <2>2. size = SizeOfArithmetic64(dst, src)
    BY <1>17, Tables DEF get_instruction_size
  <2>3. SizeOfArithmetic64(dst, src) \in Nat
    BY DEF SizeOfArithmetic64
  <2> QED
    BY <2>1, <2>2, <2>3, Arithmetic64Length
<1>18. CASE i.m = "mov"
  <2>1. bytes = encode_mov(dst, src)
    BY <1>18, Tables DEF encode_instruction
  <2>2. size = SizeOfMov(dst, src)
    BY <1>18, Tables DEF get_instruction_size
  <2>3. (IsReg(dst) /\ (IsImm(src) \/ IsReg(src))) \/ (IsMem(dst) /\ IsReg(src))
    BY <1>18 DEF Accepted
  <2>4. SizeOfMov(dst, src) \in Nat
    BY <2>3 DEF SizeOfMov, IsReg, IsImm, IsMem
  <2> QED
    BY <2>1, <2>2, <2>3, <2>4, MovLength
<1>19. CASE i.m = "movzx"
  <2>1. bytes = encode_movzx(dst, src)
    BY <1>19, Tables DEF encode_instruction
  <2>2. size = IF IsReg(src) THEN 4 ELSE 5
    BY <1>19, Tables DEF get_instruction_size
  <2>3. Len(encode_movzx(dst, src)) = IF IsReg(src) THEN 4 ELSE 5
    BY MovzxLength
  <2> HIDE DEF bytes, size
  <2>4. Len(bytes) = size /\ size \in Nat
    BY <2>1, <2>2, <2>3
  <2> QED
    BY <2>4 DEF bytes, size
<1>20. CASE i.m = "movsd"
  <2>1. bytes = encode_movsd(dst, src, target, address)
    BY <1>20, Tables DEF encode_instruction
  <2>2. size = SizeOfMovsd(dst, src)
    BY <1>20, Tables DEF get_instruction_size
  <2>3. \/ IsXmm(dst) /\ (IsXmm(src) \/ IsMem(src) \/ IsMemRel(src))
        \/ IsMem(dst) /\ IsXmm(src)
    BY <1>20 DEF Accepted
  <2>4. SizeOfMovsd(dst, src) \in Nat
    BY <2>3 DEF SizeOfMovsd, IsXmm, IsMem, IsMemRel
  <2> QED
    BY <2>1, <2>2, <2>3, <2>4, MovsdLength
<1>21. CASE i.m \in SseArithmetic \cup {"ucomisd"}
  <2>1. bytes = EncodeSse(i.m, dst, src, target, address)
    BY <1>21, Tables DEF encode_instruction
  <2>2. size = SizeOfSse(src)
    BY <1>21, Tables DEF get_instruction_size
  <2>3. IsXmm(src) \/ IsMem(src) \/ IsMemRel(src)
    BY <1>21 DEF Accepted
  <2>4. SizeOfSse(src) \in Nat
    BY <2>3 DEF SizeOfSse, IsXmm, IsMem, IsMemRel
  <2> QED
    BY <2>1, <2>2, <2>3, <2>4, SseLength
<1>22. CASE i.m = "xorpd"
  <2>1. bytes = EncodeSse(i.m, dst, src, target, address)
    BY <1>22, Tables DEF encode_instruction
  <2>2. size = SizeOfXorpd(src)
    BY <1>22, Tables DEF get_instruction_size
  <2>3. IsXmm(src) \/ IsMemRel(src)
    BY <1>22 DEF Accepted
  <2>4. SizeOfXorpd(src) = SizeOfSse(src) /\ SizeOfXorpd(src) \in Nat
    BY <2>3 DEF SizeOfXorpd, SizeOfSse, IsXmm, IsMem, IsMemRel
  <2> QED
    BY <2>1, <2>2, <2>3, <2>4, SseLength
<1> QED
  BY <1>1, <1>2, <1>3, <1>4, <1>5, <1>6, <1>7, <1>8, <1>9, <1>10, <1>11, <1>12, <1>13, <1>14, <1>15, <1>16, <1>17, <1>18, <1>19, <1>20, <1>21, <1>22 DEF Accepted

-----------------------------------------------------------------------------
(* The inductive invariant. *)

(* The labels that the layout is given stand at instructions.                *)
Marked == Len(labels) \in Nat /\ \A j \in 1 .. Len(labels) : labels[j].index \in Nat

(* How far the layout is, and the types of what it computes with.            *)
Positions ==
  /\ Len(instructions) \in Nat /\ use_stdlib \in BOOLEAN
  /\ pass = "sizes" => Marked
  /\ pass \in {"sizes", "text", "rodata", "written", "failed"}
  /\ rodata_index \in 0 .. Len(instructions) /\ next \in 0 .. Len(instructions)
  /\ pass = "sizes" => next = 0 /\ rodata_index = 0
  /\ pass \in {"text", "failed"} => next <= rodata_index
  /\ pass \in {"rodata", "written"} => next >= rodata_index

(* Offsets are the sums of the sizes, so they never decrease.                *)
OffsetsAreSums ==
  /\ offset \in Seq(Nat)
  /\ Len(offset) \in 1 .. Len(instructions) + 1 /\ offset[1] = 0
  /\ pass # "sizes" => Len(offset) = Len(instructions) + 1
  /\ \A i \in 1 .. Len(offset) - 1 :
       /\ Accepted(instructions[i])
       /\ offset[i + 1] = offset[i] + get_instruction_size(instructions[i])
  /\ \A i, j \in 1 .. Len(offset) : i <= j => offset[i] <= offset[j]

(* The buffers end at the offset of the instruction that comes next.         *)
BuffersReachNext ==
  LET text_size == offset[rodata_index + 1]
  IN  /\ pass \in {"sizes", "text", "failed"} =>
           Len(text_buffer) = offset[next + 1] /\ Len(rodata_buffer) = 0
      /\ pass = "text" => current_address = TextStart + offset[next + 1]
      /\ pass \in {"rodata", "written"} =>
           Len(text_buffer) = text_size /\ Len(rodata_buffer) = offset[next + 1] - text_size
      /\ pass = "rodata" => current_address = RodataStart(text_size) + (offset[next + 1] - text_size)

(* Instructions begin at their offsets in their segment.                     *)
StartsAreOffsets ==
  /\ starts \in Seq(Nat) /\ Len(starts) = next
  /\ \A j \in 1 .. next :
       starts[j] = IF j <= rodata_index THEN offset[j] ELSE offset[j] - offset[rodata_index + 1]

(* Labels have the addresses that the offsets give them.                     *)
AddressesFromOffsets ==
  /\ pass = "sizes" => Len(addresses) = 0
  /\ \A j \in 1 .. Len(addresses) :
       labels[j].label[1] \notin DOMAIN LibraryEntry =>
         labels[j].index \in Nat /\ addresses[j] = AddressOf(labels[j].index, rodata_index)

LayoutInv ==
  Positions /\ OffsetsAreSums /\ BuffersReachNext /\ StartsAreOffsets /\ AddressesFromOffsets

-----------------------------------------------------------------------------
(* Facts the steps share. *)

(* A concatenation begins with its first part. *)
LEMMA ConcatLeft ==
  ASSUME NEW s, NEW t, Len(s) \in Nat, Len(t) \in Nat, NEW j \in 1 .. Len(s)
  PROVE  (s \o t)[j] = s[j]
OBVIOUS

(* The segment of the constants is at an integer. *)
LEMMA RodataStartInt ==
  ASSUME use_stdlib \in BOOLEAN, NEW size \in Nat
  PROVE  RodataStart(size) \in Int
<1> DEFINE sum == FileSizeOfText(size) + PageSize - 1
           pages == sum \div PageSize
<1>1. PageSize \in Nat \ {0} /\ StdlibSize \in Nat
  BY SizesAssumption
<1>2. FileSizeOfText(size) \in Nat
  BY <1>1 DEF FileSizeOfText, CODE_OFFSET
<1>3. sum \in Int
  BY <1>1, <1>2
<1> HIDE DEF sum
<1>4. pages \in Int
  BY <1>1, <1>3
<1> HIDE DEF pages
<1>5. pages * PageSize \in Int
  BY <1>1, <1>4
<1>6. RodataStart(size) = BASE_VADDR + pages * PageSize
  BY DEF RodataStart, align_up, pages, sum
<1> QED
  BY <1>5, <1>6 DEF BASE_VADDR

(* In the passes that encode, the bytes of the next instruction reach from   *)
(* its offset to the offset of the one after it.                             *)
LEMMA EncodedReaches ==
  ASSUME Positions, OffsetsAreSums, pass # "sizes", next < Len(instructions)
  PROVE  /\ offset[next + 1] \in Nat /\ offset[next + 2] \in Nat /\ offset[rodata_index + 1] \in Nat
         /\ Len(Encoded) = offset[next + 2] - offset[next + 1]
         /\ Size(next + 1) = offset[next + 2] - offset[next + 1]
         /\ Len(Encoded) \in Nat
<1>1. /\ next \in Nat /\ Len(instructions) \in Nat /\ rodata_index \in 0 .. Len(instructions)
      /\ Len(offset) = Len(instructions) + 1 /\ offset \in Seq(Nat)
  BY DEF Positions, OffsetsAreSums
<1>2. offset[next + 1] \in Nat /\ offset[next + 2] \in Nat /\ offset[rodata_index + 1] \in Nat
  <2>1. \A k \in 1 .. Len(offset) : offset[k] \in Nat
    BY <1>1
  <2>2. next + 1 \in 1 .. Len(offset) /\ next + 2 \in 1 .. Len(offset) /\ rodata_index + 1 \in 1 .. Len(offset)
    BY <1>1
  <2> QED
    BY <2>1, <2>2
<1>3. /\ Accepted(instructions[next + 1])
      /\ offset[next + 1 + 1] = offset[next + 1] + get_instruction_size(instructions[next + 1])
  BY <1>1 DEF OffsetsAreSums
<1>4. /\ Len(Encoded) = get_instruction_size(instructions[next + 1])
      /\ get_instruction_size(instructions[next + 1]) \in Nat
  BY <1>3, SizeIsLength DEF Encoded, Current
<1>5. next + 1 + 1 = next + 2
  BY <1>1
<1> QED
  BY <1>2, <1>3, <1>4, <1>5 DEF Size

-----------------------------------------------------------------------------
(* Each step preserves the invariant. *)

(* Nothing has been laid out yet. *)
Listed == Len(instructions) \in Nat /\ Marked /\ use_stdlib \in BOOLEAN

LEMMA IdleEstablishes == Idle /\ Listed => LayoutInv
<1> SUFFICES ASSUME Idle, Listed PROVE LayoutInv
  OBVIOUS
<1>1. Idle /\ Len(instructions) \in Nat /\ Marked /\ use_stdlib \in BOOLEAN
  BY DEF Listed
<1>2. Positions
  BY <1>1 DEF Positions, Idle
<1>3. OffsetsAreSums
  BY <1>1 DEF OffsetsAreSums, Idle
<1>4. BuffersReachNext
  BY <1>1 DEF BuffersReachNext, Idle
<1>5. StartsAreOffsets
  BY <1>1 DEF StartsAreOffsets, Idle
<1>6. AddressesFromOffsets
  BY <1>1 DEF AddressesFromOffsets, Idle
<1> QED
  BY <1>2, <1>3, <1>4, <1>5, <1>6 DEF LayoutInv

(* The first state. *)
LEMMA InitEstablishes == LayoutInit => LayoutInv
<1>1. ASSUME LayoutInit PROVE Idle /\ Listed
  <2>1. PICK list \in Lists : instructions = list.instructions /\ labels = list.labels /\ use_stdlib = list.use_stdlib
    BY <1>1 DEF LayoutInit
  <2>2. instructions \in Seq(Instruction) /\ labels \in Seq(Label) /\ use_stdlib \in BOOLEAN
    BY <2>1, ListsAssumption
  <2>3. \A j \in 1 .. Len(labels) : labels[j].index \in Nat
    <3>1. \A j \in 1 .. Len(labels) : labels[j] \in Label
      BY <2>2
    <3> QED
      BY <3>1 DEF Label
  <2> QED
    BY <1>1, <2>2, <2>3 DEF LayoutInit, Listed, Marked
<1> QED
  BY <1>1, IdleEstablishes

(* calculate_sizes adds one offset and changes nothing else. *)
LEMMA CalculateSizesPreserves ==
  LayoutInv /\ calculate_sizes /\ UNCHANGED instructions => LayoutInv'
<1> SUFFICES ASSUME LayoutInv, calculate_sizes, UNCHANGED instructions PROVE LayoutInv'
  OBVIOUS
<1> USE DEF LayoutInv
<1> DEFINE n == Len(offset)
           size == get_instruction_size(instructions[n])
<1>1. /\ n \in 1 .. Len(instructions) /\ Accepted(instructions[n])
      /\ offset' = Append(offset, offset[n] + size)
      /\ pass = "sizes" /\ pass' = pass /\ next' = next /\ rodata_index' = rodata_index
      /\ instructions' = instructions /\ labels' = labels /\ use_stdlib' = use_stdlib
      /\ text_buffer' = text_buffer /\ rodata_buffer' = rodata_buffer /\ starts' = starts
      /\ addresses' = addresses /\ current_address' = current_address
  BY DEF calculate_sizes, buffers, OffsetsAreSums, Positions
<1>2. size \in Nat
  BY <1>1, SizeIsLength
<1>3. Positions'
  BY <1>1 DEF Positions, Marked
<1>4. OffsetsAreSums'
  <2> HIDE DEF size
  <2>1. offset \in Seq(Nat) /\ Len(instructions) \in Nat /\ offset[n] \in Nat
    BY <1>1 DEF OffsetsAreSums, Positions
  <2>2. /\ offset' \in Seq(Nat) /\ Len(offset') = n + 1
        /\ offset'[n + 1] = offset[n] + size
        /\ \A i \in 1 .. n : offset'[i] = offset[i]
    BY <1>1, <1>2, <2>1
  <2>3. \A i \in 1 .. n :
          /\ Accepted(instructions[i])
          /\ offset'[i + 1] = offset'[i] + get_instruction_size(instructions[i])
    <3> TAKE i \in 1 .. n
    <3>1. CASE i = n
      BY <3>1, <1>1, <2>2 DEF size
    <3>2. CASE i < n
      BY <3>2, <1>1, <2>1, <2>2 DEF OffsetsAreSums
    <3> QED
      BY <3>1, <3>2
  <2>4. \A i, j \in 1 .. n + 1 : i <= j => offset'[i] <= offset'[j]
    <3> TAKE i, j \in 1 .. n + 1
    <3> HAVE i <= j
    <3>1. CASE j <= n
      BY <3>1, <1>1, <2>2 DEF OffsetsAreSums
    <3>2. CASE j = n + 1 /\ i = n + 1
      BY <3>2, <2>1, <2>2, <1>2
    <3>3. CASE j = n + 1 /\ i <= n
      <4>1. offset[i] \in Nat /\ offset[i] <= offset[n]
        BY <3>3, <1>1, <2>1 DEF OffsetsAreSums
      <4> QED
        BY <4>1, <3>3, <2>1, <2>2, <1>2
    <3> QED
      BY <3>1, <3>2, <3>3, <1>1
  <2>5. offset'[1] = 0
    BY <1>1, <2>2 DEF OffsetsAreSums
  <2> QED
    BY <1>1, <2>1, <2>2, <2>3, <2>4, <2>5 DEF OffsetsAreSums
<1>5. BuffersReachNext'
  <2>1. next = 0 /\ offset'[1] = offset[1]
    BY <1>1, <1>2 DEF Positions, OffsetsAreSums
  <2> QED
    BY <1>1, <2>1 DEF BuffersReachNext
<1>6. StartsAreOffsets'
  BY <1>1 DEF StartsAreOffsets, Positions
<1>7. AddressesFromOffsets'
  BY <1>1 DEF AddressesFromOffsets
<1> QED
  BY <1>3, <1>4, <1>5, <1>6, <1>7

(* compute_labels_addresses gives the labels their addresses, and begins the *)
(* code.                                                                     *)
LEMMA AddressesPreserve ==
  LayoutInv /\ compute_labels_addresses /\ UNCHANGED instructions => LayoutInv'
<1> SUFFICES ASSUME LayoutInv, compute_labels_addresses, UNCHANGED instructions PROVE LayoutInv'
  OBVIOUS
<1> USE DEF LayoutInv
<1> DEFINE library == IF use_stdlib THEN LibraryLabels ELSE <<>>
           new == [j \in 1 .. Len(library) |-> [label |-> <<library[j], 0>>, index |-> Len(labels) + j - 1]]
           others == [j \in 1 .. Len(library) |->
                        TextStart + offset[rodata_index' + 1] + LibraryEntry[library[j]]]
           own == [j \in 1 .. Len(labels) |-> AddressOf(labels[j].index, rodata_index')]
<1>1. /\ pass = "sizes" /\ Len(offset) > Len(instructions)
      /\ rodata_index' \in 0 .. Len(instructions)
      /\ labels' = labels \o new /\ addresses' = own \o others
      /\ pass' = "text" /\ current_address' = TextStart
      /\ instructions' = instructions /\ use_stdlib' = use_stdlib /\ offset' = offset /\ next' = next
      /\ text_buffer' = text_buffer /\ rodata_buffer' = rodata_buffer /\ starts' = starts
  BY DEF compute_labels_addresses, label_list_push_back
<1>2. /\ \A j \in 1 .. Len(library) : library[j] \in DOMAIN LibraryEntry
      /\ Len(library) \in Nat
      /\ Marked /\ Len(labels) \in Nat
  <2>1. Marked /\ Len(labels) \in Nat
    BY <1>1 DEF Positions, Marked
  <2>2. DOMAIN LibraryEntry = {"__out", "__in"}
    BY DEF LibraryEntry
  <2>3. library = <<>> \/ library = <<"__out", "__in">>
    BY DEF LibraryLabels
  <2> HIDE DEF library
  <2>4. CASE library = <<>>
    BY <2>1, <2>4
  <2>5. CASE library = <<"__out", "__in">>
    BY <2>1, <2>2, <2>5
  <2> QED
    BY <2>3, <2>4, <2>5
<1>3. /\ Len(own) = Len(labels) /\ Len(new) = Len(library) /\ Len(others) = Len(library)
      /\ Len(library) \in Nat
  <2> HIDE DEF library
  <2> QED
    BY <1>2
<1>4. \A j \in 1 .. Len(new) : new[j].label[1] \in DOMAIN LibraryEntry
  <2> HIDE DEF library
  <2> QED
    BY <1>2, <1>3
<1> HIDE DEF library, new, others
<1>5. Positions'
  BY <1>1 DEF Positions
<1>6. OffsetsAreSums'
  BY <1>1 DEF OffsetsAreSums, Positions
<1>7. BuffersReachNext'
  <2>1. next = 0 /\ offset[1] = 0
    BY <1>1 DEF Positions, OffsetsAreSums
  <2> QED
    BY <1>1, <2>1 DEF BuffersReachNext, TextStart, BASE_VADDR, CODE_OFFSET
<1>8. StartsAreOffsets'
  BY <1>1 DEF StartsAreOffsets, Positions
<1>9. AddressesFromOffsets'
  <2> SUFFICES ASSUME NEW j \in 1 .. Len(addresses'), labels'[j].label[1] \notin DOMAIN LibraryEntry
               PROVE  /\ labels'[j].index \in Nat
                      /\ addresses'[j] = AddressOf(labels[j].index, rodata_index)'
    BY <1>1 DEF AddressesFromOffsets
  <2>1. Len(own) \in Nat /\ Len(others) \in Nat /\ Len(new) \in Nat
    BY <1>2, <1>3
  <2> HIDE DEF own
  <2>2. Len(own \o others) = Len(own) + Len(others)
    BY <2>1, LenConcat
  <2>3. CASE j \in 1 .. Len(labels)
    <3>1. labels'[j] = labels[j]
      BY <1>1, <1>2, <2>1, <2>3, ConcatLeft
    <3>2. labels[j].index \in Nat
      BY <1>2, <2>3 DEF Marked
    <3>3. addresses'[j] = own[j]
      BY <1>1, <1>3, <2>1, <2>3, ConcatLeft
    <3>4. own[j] = AddressOf(labels[j].index, rodata_index')
      BY <2>3 DEF own
    <3>5. AddressOf(labels[j].index, rodata_index)' = AddressOf(labels[j].index, rodata_index')
      BY <1>1, <3>1 DEF AddressOf, RodataStart, FileSizeOfText
    <3> QED
      BY <3>1, <3>2, <3>3, <3>4, <3>5
  <2>4. CASE j \notin 1 .. Len(labels)
    <3>1. j \in Len(labels) + 1 .. Len(labels) + Len(new)
      BY <1>1, <1>2, <1>3, <2>1, <2>2, <2>4
    <3>2. labels'[j] = new[j - Len(labels)] /\ j - Len(labels) \in 1 .. Len(new)
      BY <1>1, <1>2, <1>4, <2>1, <3>1
    <3> QED
      BY <1>4, <3>2
  <2> QED
    BY <2>3, <2>4
<1> QED
  BY <1>5, <1>6, <1>7, <1>8, <1>9

(* EncodeText appends the bytes of one instruction to the code. *)
LEMMA EncodeTextPreserves ==
  LayoutInv /\ EncodeText /\ UNCHANGED instructions => LayoutInv'
<1> SUFFICES ASSUME LayoutInv, EncodeText, UNCHANGED instructions PROVE LayoutInv'
  OBVIOUS
<1> USE DEF LayoutInv
<1>1. /\ pass = "text" /\ next < rodata_index
      /\ text_buffer' = text_buffer \o Encoded
      /\ starts' = Append(starts, Len(text_buffer))
      /\ current_address' = current_address + Size(next + 1)
      /\ next' = next + 1
      /\ instructions' = instructions /\ labels' = labels /\ use_stdlib' = use_stdlib /\ pass' = pass
      /\ offset' = offset /\ rodata_index' = rodata_index /\ addresses' = addresses
      /\ rodata_buffer' = rodata_buffer
  BY DEF EncodeText
<1>2. next \in Nat /\ rodata_index \in Nat /\ Len(instructions) \in Nat /\ rodata_index <= Len(instructions)
  BY DEF Positions
<1>3. /\ offset[next + 1] \in Nat /\ offset[next + 2] \in Nat
      /\ Len(Encoded) = offset[next + 2] - offset[next + 1]
      /\ Size(next + 1) = offset[next + 2] - offset[next + 1]
      /\ Len(Encoded) \in Nat
  BY <1>1, <1>2, EncodedReaches
<1>4. Len(text_buffer) = offset[next + 1] /\ Len(rodata_buffer) = 0
  BY <1>1 DEF BuffersReachNext
<1>5. Len(text_buffer') = offset[next + 2]
  <2>1. Len(text_buffer \o Encoded) = Len(text_buffer) + Len(Encoded)
    BY <1>3, <1>4, LenConcat
  <2> QED
    BY <1>1, <1>3, <1>4, <2>1
<1>6. Positions'
  BY <1>1, <1>2 DEF Positions
<1>7. OffsetsAreSums'
  BY <1>1 DEF OffsetsAreSums
<1>8. BuffersReachNext'
  <2>1. next + 1 + 1 = next + 2
    BY <1>2
  <2>2. current_address' = TextStart + offset[next + 2]
    <3>1. current_address = TextStart + offset[next + 1] /\ TextStart \in Nat
      BY <1>1 DEF BuffersReachNext, TextStart, BASE_VADDR, CODE_OFFSET
    <3>2. current_address' = TextStart + offset[next + 1] + (offset[next + 2] - offset[next + 1])
      BY <1>1, <1>3, <3>1
    <3>3. offset[next + 1] \in Nat /\ offset[next + 2] \in Nat
      BY <1>3
    <3> QED
      BY <3>1, <3>2, <3>3
  <2> QED
    BY <1>1, <1>4, <1>5, <2>1, <2>2 DEF BuffersReachNext, TextStart
<1>9. StartsAreOffsets'
  <2>1. starts \in Seq(Nat) /\ Len(starts) = next
    BY DEF StartsAreOffsets
  <2>2. /\ starts' \in Seq(Nat) /\ Len(starts') = next + 1
        /\ \A j \in 1 .. next : starts'[j] = starts[j]
        /\ starts'[next + 1] = offset[next + 1]
    BY <1>1, <1>2, <1>3, <1>4, <2>1
  <2>3. \A j \in 1 .. next + 1 :
          starts'[j] = IF j <= rodata_index THEN offset[j] ELSE offset[j] - offset[rodata_index + 1]
    BY <1>1, <1>2, <2>2 DEF StartsAreOffsets
  <2> QED
    BY <1>1, <2>2, <2>3 DEF StartsAreOffsets
<1>10. AddressesFromOffsets'
  BY <1>1 DEF AddressesFromOffsets, AddressOf, RodataStart, FileSizeOfText
<1> QED
  BY <1>6, <1>7, <1>8, <1>9, <1>10

(* The constants: bytes are appended to the other buffer. *)
LEMMA EncodeRodataPreserves ==
  LayoutInv /\ EncodeRodata /\ UNCHANGED instructions => LayoutInv'
<1> SUFFICES ASSUME LayoutInv, EncodeRodata, UNCHANGED instructions PROVE LayoutInv'
  OBVIOUS
<1> USE DEF LayoutInv
<1> DEFINE text_size == offset[rodata_index + 1]
<1>1. /\ pass = "rodata" /\ next < Len(instructions)
      /\ rodata_buffer' = rodata_buffer \o Encoded
      /\ starts' = Append(starts, Len(rodata_buffer))
      /\ current_address' = current_address + Size(next + 1)
      /\ next' = next + 1
      /\ instructions' = instructions /\ labels' = labels /\ use_stdlib' = use_stdlib /\ pass' = pass
      /\ offset' = offset /\ rodata_index' = rodata_index /\ addresses' = addresses
      /\ text_buffer' = text_buffer
  BY DEF EncodeRodata
<1>2. next \in Nat /\ rodata_index \in Nat /\ Len(instructions) \in Nat /\ rodata_index <= next
  BY <1>1 DEF Positions
<1>3. /\ offset[next + 1] \in Nat /\ offset[next + 2] \in Nat /\ text_size \in Nat
      /\ Len(Encoded) = offset[next + 2] - offset[next + 1]
      /\ Size(next + 1) = offset[next + 2] - offset[next + 1]
      /\ Len(Encoded) \in Nat
  BY <1>1, <1>2, EncodedReaches
<1>4. /\ Len(text_buffer) = text_size /\ Len(rodata_buffer) = offset[next + 1] - text_size
      /\ current_address = RodataStart(text_size) + (offset[next + 1] - text_size)
  BY <1>1 DEF BuffersReachNext
<1>5. text_size <= offset[next + 1]
  <2>1. /\ Len(offset) = Len(instructions) + 1
        /\ \A i, j \in 1 .. Len(offset) : i <= j => offset[i] <= offset[j]
    BY <1>1 DEF OffsetsAreSums
  <2>2. /\ rodata_index + 1 \in 1 .. Len(offset) /\ next + 1 \in 1 .. Len(offset)
        /\ rodata_index + 1 <= next + 1
    BY <1>1, <1>2, <2>1
  <2> QED
    BY <2>1, <2>2
<1> HIDE DEF text_size
<1>6. Len(rodata_buffer) \in Nat
  BY <1>3, <1>4, <1>5
<1>7. Len(rodata_buffer') = offset[next + 2] - text_size
  <2>1. Len(rodata_buffer \o Encoded) = Len(rodata_buffer) + Len(Encoded)
    BY <1>3, <1>6, LenConcat
  <2>2. Len(rodata_buffer) = offset[next + 1] - text_size
    BY <1>4
  <2>3. Len(rodata_buffer \o Encoded) = (offset[next + 1] - text_size) + (offset[next + 2] - offset[next + 1])
    BY <1>3, <2>1, <2>2
  <2>4. Len(rodata_buffer \o Encoded) = offset[next + 2] - text_size
    BY <1>3, <2>3
  <2> QED
    BY <1>1, <2>4
<1>8. Positions'
  BY <1>1, <1>2 DEF Positions
<1>9. OffsetsAreSums'
  BY <1>1 DEF OffsetsAreSums
<1>10. BuffersReachNext'
  <2>1. next + 1 + 1 = next + 2
    BY <1>2
  <2>2. RodataStart(text_size) \in Int
    BY <1>3, RodataStartInt DEF Positions
  <2>3. current_address' = RodataStart(text_size) + (offset[next + 2] - text_size)
    <3>1. RodataStart(text_size) + (offset[next + 1] - text_size) + (offset[next + 2] - offset[next + 1])
            = RodataStart(text_size) + (offset[next + 2] - text_size)
      BY <1>3, <2>2
    <3> QED
      BY <1>1, <1>3, <1>4, <3>1
  <2>4. RodataStart(text_size)' = RodataStart(text_size)
    BY <1>1 DEF RodataStart, FileSizeOfText, text_size
  <2> QED
    BY <1>1, <1>4, <1>7, <2>1, <2>3, <2>4 DEF BuffersReachNext, text_size
<1>11. StartsAreOffsets'
  <2>1. starts \in Seq(Nat) /\ Len(starts) = next
    BY DEF StartsAreOffsets
  <2>2. /\ starts' \in Seq(Nat) /\ Len(starts') = next + 1
        /\ \A j \in 1 .. next : starts'[j] = starts[j]
        /\ starts'[next + 1] = offset[next + 1] - text_size
    BY <1>1, <1>2, <1>4, <1>6, <2>1
  <2>3. \A j \in 1 .. next + 1 :
          starts'[j] = IF j <= rodata_index THEN offset[j] ELSE offset[j] - offset[rodata_index + 1]
    BY <1>1, <1>2, <2>2 DEF StartsAreOffsets, text_size
  <2> QED
    BY <1>1, <2>2, <2>3 DEF StartsAreOffsets
<1>12. AddressesFromOffsets'
  BY <1>1 DEF AddressesFromOffsets, AddressOf, RodataStart, FileSizeOfText
<1> QED
  BY <1>8, <1>9, <1>10, <1>11, <1>12

(* LabelNotFound, BeginRodata and WriteFile only change the pass. *)
LEMMA OtherStepsPreserve ==
  LayoutInv /\ (LabelNotFound \/ BeginRodata \/ WriteFile) /\ UNCHANGED instructions => LayoutInv'
<1> SUFFICES ASSUME LayoutInv, LabelNotFound \/ BeginRodata \/ WriteFile, UNCHANGED instructions
             PROVE  LayoutInv'
  OBVIOUS
<1> USE DEF LayoutInv
<1>1. /\ \/ pass = "text" /\ pass' = "failed" /\ current_address' = current_address
         \/ /\ pass = "text" /\ next = rodata_index
            /\ pass' = "rodata" /\ current_address' = RodataStart(offset[rodata_index + 1])
         \/ pass = "rodata" /\ pass' = "written" /\ current_address' = current_address
      /\ instructions' = instructions /\ labels' = labels /\ use_stdlib' = use_stdlib
      /\ offset' = offset /\ rodata_index' = rodata_index /\ addresses' = addresses /\ next' = next
      /\ text_buffer' = text_buffer /\ rodata_buffer' = rodata_buffer /\ starts' = starts
  BY DEF LabelNotFound, BeginRodata, WriteFile, buffers
<1>2. Positions'
  BY <1>1 DEF Positions
<1>3. OffsetsAreSums'
  BY <1>1 DEF OffsetsAreSums
<1>4. BuffersReachNext'
  <2>1. RodataStart(offset[rodata_index + 1])' = RodataStart(offset[rodata_index + 1])
    BY <1>1 DEF RodataStart, FileSizeOfText
  <2>2. offset[rodata_index + 1] \in Nat /\ RodataStart(offset[rodata_index + 1]) \in Int
    <3>1. offset \in Seq(Nat) /\ Len(offset) = Len(instructions) + 1
      BY <1>1 DEF OffsetsAreSums
    <3>2. rodata_index \in 0 .. Len(instructions) /\ use_stdlib \in BOOLEAN /\ Len(instructions) \in Nat
      BY DEF Positions
    <3>3. offset[rodata_index + 1] \in Nat
      BY <3>1, <3>2
    <3> QED
      BY <3>2, <3>3, RodataStartInt
  <2> QED
    BY <1>1, <2>1, <2>2 DEF BuffersReachNext
<1>5. StartsAreOffsets'
  BY <1>1 DEF StartsAreOffsets
<1>6. AddressesFromOffsets'
  BY <1>1 DEF AddressesFromOffsets, AddressOf, RodataStart, FileSizeOfText
<1> QED
  BY <1>2, <1>3, <1>4, <1>5, <1>6

-----------------------------------------------------------------------------
(* The theorems. *)

(* Every step preserves the invariant. *)
LEMMA LayoutNextPreserves == LayoutInv /\ [LayoutNext]_<<instructions, labels, layout_vars>> => LayoutInv'
<1> SUFFICES ASSUME LayoutInv, [LayoutNext]_<<instructions, labels, layout_vars>> PROVE LayoutInv'
  OBVIOUS
<1>1. CASE calculate_sizes /\ UNCHANGED instructions
  BY <1>1, CalculateSizesPreserves
<1>2. CASE compute_labels_addresses /\ UNCHANGED instructions
  BY <1>2, AddressesPreserve
<1>3. CASE EncodeText /\ UNCHANGED instructions
  BY <1>3, EncodeTextPreserves
<1>4. CASE EncodeRodata /\ UNCHANGED instructions
  BY <1>4, EncodeRodataPreserves
<1>5. CASE (LabelNotFound \/ BeginRodata \/ WriteFile) /\ UNCHANGED instructions
  BY <1>5, OtherStepsPreserve
<1>6. CASE UNCHANGED <<instructions, labels, layout_vars>>
  BY <1>6 DEF layout_vars, LayoutInv, Positions, Marked, OffsetsAreSums, BuffersReachNext, StartsAreOffsets,
              AddressesFromOffsets, AddressOf, RodataStart, FileSizeOfText
<1> QED
  BY <1>1, <1>2, <1>3, <1>4, <1>5, <1>6 DEF LayoutNext

(* The invariant holds in every state of the layout. *)
THEOREM LayoutInvariant == LayoutSpec => []LayoutInv
<1>1. LayoutInv /\ [LayoutNext]_<<instructions, labels, layout_vars>> => LayoutInv'
  BY LayoutNextPreserves
<1> QED
  BY InitEstablishes, <1>1, PTL DEF LayoutSpec

LEMMA BytesFromInvariant == LayoutInv => BytesMatchSizes
<1> SUFFICES ASSUME LayoutInv PROVE BytesMatchSizes
  OBVIOUS
<1> USE DEF LayoutInv
<1> DEFINE text_size == offset[rodata_index + 1]
           last == Len(instructions) + 1
<1>1. CASE pass = "text"
  <2>1. next + 1 \in 1 .. Len(offset) /\ rodata_index + 1 \in 1 .. Len(offset) /\ next <= rodata_index
    BY <1>1 DEF Positions, OffsetsAreSums
  <2>2. offset[next + 1] <= text_size
    BY <2>1 DEF OffsetsAreSums, Positions
  <2> QED
    BY <1>1, <2>2 DEF BytesMatchSizes, BuffersReachNext
<1>2. CASE pass = "rodata"
  <2>1. /\ Len(offset) = last /\ offset \in Seq(Nat)
        /\ next \in 0 .. Len(instructions) /\ rodata_index \in 0 .. Len(instructions)
        /\ Len(instructions) \in Nat
    BY <1>2 DEF Positions, OffsetsAreSums
  <2>2. next + 1 \in 1 .. Len(offset) /\ last \in 1 .. Len(offset) /\ next + 1 <= last
    BY <2>1
  <2>3. offset[next + 1] <= offset[last]
    BY <2>2 DEF OffsetsAreSums
  <2>4. offset[next + 1] \in Nat /\ offset[last] \in Nat /\ text_size \in Nat
    BY <2>1, <2>2
  <2>5. offset[next + 1] - text_size <= offset[last] - text_size
    BY <2>3, <2>4
  <2> QED
    BY <1>2, <2>5 DEF BytesMatchSizes, BuffersReachNext
<1> QED
  BY <1>1, <1>2 DEF BytesMatchSizes

(* The address an instruction is encoded for is where its bytes get, and no  *)
(* buffer is written past its end: calculate_sizes and encode_all agree.     *)
THEOREM BytesAlwaysMatchSizes == LayoutSpec => []BytesMatchSizes
<1>1. LayoutInv => BytesMatchSizes
  BY BytesFromInvariant
<1> QED
  BY LayoutInvariant, <1>1, PTL

LEMMA LabelsFromInvariant == LayoutInv => LabelsAtTheirCode
<1> SUFFICES ASSUME LayoutInv, NEW j \in 1 .. Len(addresses),
                    labels[j].label[1] \notin DOMAIN LibraryEntry, labels[j].index < next
             PROVE  addresses[j] = starts[labels[j].index + 1] +
                      (IF labels[j].index < rodata_index THEN TextStart
                       ELSE RodataStart(offset[rodata_index + 1]))
  BY DEF LabelsAtTheirCode
<1> USE DEF LayoutInv
<1> DEFINE index == labels[j].index
           text_size == offset[rodata_index + 1]
<1>1. index \in Nat /\ addresses[j] = AddressOf(index, rodata_index)
  BY DEF AddressesFromOffsets
<1>2. /\ next \in 0 .. Len(instructions) /\ rodata_index \in 0 .. Len(instructions)
      /\ Len(instructions) \in Nat /\ use_stdlib \in BOOLEAN /\ pass # "sizes"
  BY <1>1 DEF Positions
<1>3. offset \in Seq(Nat) /\ Len(offset) = Len(instructions) + 1
  BY <1>2 DEF OffsetsAreSums
<1> HIDE DEF index
<1>4. index < next
  BY DEF index
<1>5. offset[index + 1] \in Nat /\ text_size \in Nat
  <2>1. \A k \in 0 .. Len(instructions) : offset[k + 1] \in Nat
    BY <1>2, <1>3
  <2>2. index \in 0 .. Len(instructions)
    BY <1>1, <1>2, <1>4
  <2> QED
    BY <1>2, <2>1, <2>2
<1>6. starts[index + 1] = IF index + 1 <= rodata_index THEN offset[index + 1]
                          ELSE offset[index + 1] - text_size
  BY <1>1, <1>2, <1>4 DEF StartsAreOffsets
<1>7. CASE index < rodata_index
  <2>1. addresses[j] = TextStart + offset[index + 1] /\ starts[index + 1] = offset[index + 1]
    <3>1. ~(index >= rodata_index) /\ index + 1 <= rodata_index
      BY <1>1, <1>2, <1>7
    <3>2. addresses[j] = TextStart + offset[index + 1]
      BY <1>1, <3>1 DEF AddressOf, InRodata
    <3> QED
      BY <1>6, <3>1, <3>2
  <2> QED
    BY <1>5, <1>7, <2>1 DEF TextStart, BASE_VADDR, CODE_OFFSET, index
<1>8. CASE index >= rodata_index
  <2>1. /\ addresses[j] = RodataStart(text_size) + (offset[index + 1] - text_size)
        /\ starts[index + 1] = offset[index + 1] - text_size
    <3>1. addresses[j] = RodataStart(text_size) + (offset[index + 1] - text_size)
      BY <1>1, <1>8 DEF AddressOf, InRodata
    <3>2. ~(index + 1 <= rodata_index)
      BY <1>1, <1>2, <1>8
    <3> QED
      BY <1>6, <3>1, <3>2
  <2>2. RodataStart(text_size) \in Int
    BY <1>2, <1>5, RodataStartInt
  <2>3. ~(index < rodata_index)
    BY <1>1, <1>2, <1>8
  <2>4. addresses[j] = starts[index + 1] + RodataStart(text_size)
    BY <1>5, <2>1, <2>2
  <2> QED
    BY <2>3, <2>4 DEF index
<1> QED
  BY <1>1, <1>2, <1>7, <1>8

(* A label has the address where the bytes after it begin in memory.         *)
THEOREM LabelsAlwaysAtTheirCode == LayoutSpec => []LabelsAtTheirCode
<1>1. LayoutInv => LabelsAtTheirCode
  BY LabelsFromInvariant
<1> QED
  BY LayoutInvariant, <1>1, PTL

-----------------------------------------------------------------------------
(* Pages. *)

(* An address that is a number of pages. *)
LEMMA WholePages ==
  ASSUME NEW page \in Nat \ {0}, NEW k \in Int
  PROVE  (k * page) \div page = k /\ (k * page) % page = 0 /\ k * page \in Int
OBVIOUS

(* What lies before a page is on an earlier one. *)
LEMMA EarlierPage ==
  ASSUME NEW page \in Nat \ {0}, NEW k \in Int, NEW n \in Int, n < k * page
  PROVE  n \div page \in Int /\ n \div page < k
OBVIOUS

LEMMA RoundedUp ==
  ASSUME NEW page \in Nat \ {0}, NEW n \in Int
  PROVE  /\ (n + page - 1) \div page \in Int
         /\ ((n + page - 1) \div page) * page >= n
OBVIOUS

-----------------------------------------------------------------------------
(* The file. *)

(* The total of a few sizes. *)
LEMMA TotalOfFew ==
  ASSUME NEW sizes \in Seq(Int), Len(sizes) \in 0 .. 4
  PROVE  /\ Len(sizes) = 1 => Total(sizes) = sizes[1]
         /\ Len(sizes) = 3 => Total(sizes) = sizes[1] + sizes[2] + sizes[3]
         /\ Len(sizes) = 4 => Total(sizes) = sizes[1] + sizes[2] + sizes[3] + sizes[4]
<1> DEFINE n == Len(sizes)
           Sums(sum) == sum = [i \in 0 .. n |-> IF i = 0 THEN 0 ELSE sum[i - 1] + sizes[i]]
           one == sizes[1]
           two == one + sizes[2]
           three == two + sizes[3]
           four == three + sizes[4]
           known == [i \in 0 .. n |-> IF i = 0 THEN 0 ELSE IF i = 1 THEN one ELSE IF i = 2 THEN two
                                      ELSE IF i = 3 THEN three ELSE four]
           total == CHOOSE sum : Sums(sum)
<1>1. n \in 0 .. 4
  OBVIOUS
<1>2. n >= 1 => one = 0 + sizes[1]
  OBVIOUS
<1>3. two = one + sizes[2] /\ three = two + sizes[3] /\ four = three + sizes[4]
  OBVIOUS
<1> HIDE DEF n, one, two, three, four
<1>4. Sums(known)
  <2>1. ASSUME NEW i \in 0 .. n
        PROVE  known[i] = IF i = 0 THEN 0 ELSE known[i - 1] + sizes[i]
    <3>1. CASE i = 0
      BY <3>1
    <3>2. CASE i # 0
      <4>1. i \in 1 .. 4 /\ i - 1 \in 0 .. n /\ n >= 1
        BY <1>1, <3>2
      <4>2. /\ known[i] = IF i = 1 THEN one ELSE IF i = 2 THEN two ELSE IF i = 3 THEN three ELSE four
            /\ known[i - 1] = IF i = 1 THEN 0 ELSE IF i = 2 THEN one ELSE IF i = 3 THEN two ELSE three
        BY <4>1
      <4> HIDE DEF known
      <4>3. i = 1 \/ i = 2 \/ i = 3 \/ i = 4
        BY <4>1
      <4> QED
        BY <1>2, <1>3, <3>2, <4>1, <4>2, <4>3
    <3> QED
      BY <3>1, <3>2
  <2> QED
    BY <2>1
<1>5. Sums(total)
  <2> HIDE DEF Sums, known
  <2> QED
    BY <1>4
<1>6. \A i \in 0 .. n : total[i] = IF i = 0 THEN 0 ELSE total[i - 1] + sizes[i]
  <2> HIDE DEF total, known
  <2> QED
    BY <1>5
<1>7. Total(sizes) = total[n]
  BY DEF Total, n
<1> HIDE DEF total, known
<1>8. total[0] = 0
  BY <1>1, <1>6
<1>9. /\ n >= 1 => total[1] = one
      /\ n >= 2 => total[2] = total[1] + sizes[2]
      /\ n >= 3 => total[3] = total[2] + sizes[3]
      /\ n >= 4 => total[4] = total[3] + sizes[4]
  BY <1>1, <1>2, <1>6, <1>8
<1>10. n >= 2 => total[2] = two
  BY <1>1, <1>3, <1>9
<1>11. n >= 3 => total[3] = three
  BY <1>1, <1>3, <1>9, <1>10
<1>12. n >= 4 => total[4] = four
  BY <1>1, <1>3, <1>9, <1>11
<1>13. (n = 1 => Total(sizes) = one) /\ (n = 3 => Total(sizes) = three) /\ (n = 4 => Total(sizes) = four)
  BY <1>7, <1>9, <1>11, <1>12
<1> QED
  BY <1>13 DEF n, one, two, three, four

(* The place of a section is the total of the sizes before it.               *)
LEMMA PlaceIsTotal ==
  ASSUME NEW name, NEW k \in 1 .. Len(file.sections), file.sections[k].name = name,
         \A i \in 1 .. Len(file.sections) : file.sections[i].name = name => i = k
  PROVE  PlaceOf(name) = Total([i \in 1 .. k - 1 |-> file.sections[i].size])
<1> DEFINE n == CHOOSE i \in 1 .. Len(file.sections) : file.sections[i].name = name
<1>1. n \in 1 .. Len(file.sections) /\ file.sections[n].name = name
  OBVIOUS
<1>2. n = k
  BY <1>1
<1>3. PlaceOf(name) = Total([i \in 1 .. n - 1 |-> file.sections[i].size])
  BY DEF PlaceOf
<1> HIDE DEF n
<1> QED
  BY <1>2, <1>3

(* What WriteFile has written, in terms of the offsets.                      *)
TextSize == offset[rodata_index + 1]
TextEnd == FileSizeOfText(TextSize)
RodataOffset == align_up(TextEnd, PageSize)
RodataSize == offset[Len(instructions) + 1] - TextSize

Written ==
  /\ next = Len(instructions) /\ Holding(EntryPoint) # {}
  /\ file = [entry |-> find_label_address(EntryPoint),
             segments |-> <<Segment(0, TextEnd), Segment(RodataOffset, RodataSize)>>,
             sections |-> <<Section("headers", CODE_OFFSET), Section("text", TextSize),
                            Section("library", TextEnd - CODE_OFFSET - TextSize),
                            Section("padding", RodataOffset - TextEnd),
                            Section("rodata", RodataSize)>>]

LEMMA FilePlaces ==
  ASSUME Written, TextSize \in Int, TextEnd \in Int, RodataOffset \in Int
  PROVE  /\ PlaceOf("text") = CODE_OFFSET
         /\ PlaceOf("padding") = TextEnd
         /\ PlaceOf("rodata") = RodataOffset
<1> DEFINE sections == file.sections
           size(k) == [i \in 1 .. k - 1 |-> sections[i].size]
<1>1. /\ Len(sections) = 5
      /\ sections[1] = Section("headers", CODE_OFFSET) /\ sections[2] = Section("text", TextSize)
      /\ sections[3] = Section("library", TextEnd - CODE_OFFSET - TextSize)
      /\ sections[4] = Section("padding", RodataOffset - TextEnd)
      /\ sections[5] = Section("rodata", RodataSize)
  BY DEF Written
<1> HIDE DEF sections
<1>2. /\ sections[1].name = "headers" /\ sections[2].name = "text" /\ sections[3].name = "library"
      /\ sections[4].name = "padding" /\ sections[5].name = "rodata"
  BY <1>1 DEF Section
<1>3. /\ sections[1].size = CODE_OFFSET /\ sections[2].size = TextSize
      /\ sections[3].size = TextEnd - CODE_OFFSET - TextSize
      /\ sections[4].size = RodataOffset - TextEnd
  BY <1>1 DEF Section
<1>4. \A i \in 1 .. 5 : i = 1 \/ i = 2 \/ i = 3 \/ i = 4 \/ i = 5
  OBVIOUS
<1>5. \A i \in 1 .. 4 : i = 1 \/ i = 2 \/ i = 3 \/ i = 4
  OBVIOUS
<1>6. \A i \in 1 .. 4 : sections[i].size \in Int
  BY <1>3, <1>5 DEF CODE_OFFSET
<1>7. \A k \in 1 .. 5 : PlaceOf(sections[k].name) = Total(size(k))
  <2> TAKE k \in 1 .. 5
  <2>1. k \in 1 .. Len(sections) /\ \A i \in 1 .. Len(sections) : sections[i].name = sections[k].name => i = k
    BY <1>1, <1>2, <1>4
  <2> QED
    BY <2>1, PlaceIsTotal DEF sections
<1> HIDE DEF size
<1>8. PlaceOf("text") = CODE_OFFSET
  <2>1. PlaceOf("text") = Total(size(2))
    BY <1>2, <1>7
  <2>2. size(2) \in Seq(Int) /\ Len(size(2)) = 1 /\ size(2)[1] = CODE_OFFSET
    BY <1>3, <1>6 DEF size
  <2> QED
    BY <2>1, <2>2, TotalOfFew
<1>9. PlaceOf("padding") = TextEnd
  <2>1. PlaceOf("padding") = Total(size(4))
    BY <1>2, <1>7
  <2>2. size(4) \in Seq(Int) /\ Len(size(4)) = 3
    BY <1>6 DEF size
  <2>3. /\ size(4)[1] = CODE_OFFSET /\ size(4)[2] = TextSize
        /\ size(4)[3] = TextEnd - CODE_OFFSET - TextSize
    BY <1>3 DEF size
  <2>4. Total(size(4)) = CODE_OFFSET + TextSize + (TextEnd - CODE_OFFSET - TextSize)
    BY <2>2, <2>3, TotalOfFew
  <2> QED
    BY <2>1, <2>4 DEF CODE_OFFSET
<1>10. PlaceOf("rodata") = RodataOffset
  <2>1. PlaceOf("rodata") = Total(size(5))
    BY <1>2, <1>7
  <2>2. size(5) \in Seq(Int) /\ Len(size(5)) = 4
    BY <1>6 DEF size
  <2>3. /\ size(5)[1] = CODE_OFFSET /\ size(5)[2] = TextSize
        /\ size(5)[3] = TextEnd - CODE_OFFSET - TextSize /\ size(5)[4] = RodataOffset - TextEnd
    BY <1>3 DEF size
  <2>4. Total(size(5)) = CODE_OFFSET + TextSize + (TextEnd - CODE_OFFSET - TextSize) + (RodataOffset - TextEnd)
    BY <2>2, <2>3, TotalOfFew
  <2> QED
    BY <2>1, <2>4 DEF CODE_OFFSET
<1> QED
  BY <1>8, <1>9, <1>10

(* Every instruction takes room. *)
LEMMA SizePositive ==
  ASSUME NEW i, Accepted(i)
  PROVE  get_instruction_size(i) \in Nat /\ get_instruction_size(i) > 0
<1> DEFINE dst == i.dst
           src == i.src
           size == get_instruction_size(i)
<1> USE DEF Arithmetic64, SseArithmetic, ConditionalJumps
<1>1. CASE i.m \in DOMAIN FixedSize
  <2>1. size = FixedSize[i.m]
    BY <1>1, Tables DEF get_instruction_size
  <2>2. FixedSize[i.m] \in {1, 2, 3, 4, 5, 8}
    BY <1>1, Tables
  <2> QED
    BY <2>1, <2>2
<1>2. CASE i.m \in ConditionalJumps
  <2>1. size = 6
    BY <1>2, Tables DEF get_instruction_size
  <2> QED
    BY <2>1
<1>3. CASE i.m \in Arithmetic64
  <2>1. size = SizeOfArithmetic64(dst, src)
    BY <1>3, Tables DEF get_instruction_size
  <2> QED
    BY <2>1 DEF SizeOfArithmetic64
<1>4. CASE i.m = "mov"
  <2>1. size = SizeOfMov(dst, src)
    BY <1>4, Tables DEF get_instruction_size
  <2>2. (IsReg(dst) /\ (IsImm(src) \/ IsReg(src))) \/ (IsMem(dst) /\ IsReg(src))
    BY <1>4 DEF Accepted
  <2>3. SizeOfMov(dst, src) \in {2, 3, 7}
    BY <2>2 DEF SizeOfMov, IsReg, IsImm, IsMem
  <2> QED
    BY <2>1, <2>3
<1>5. CASE i.m = "movzx"
  <2>1. size = IF IsReg(src) THEN 4 ELSE 5
    BY <1>5, Tables DEF get_instruction_size
  <2> QED
    BY <2>1
<1>6. CASE i.m = "movsd"
  <2>1. size = SizeOfMovsd(dst, src)
    BY <1>6, Tables DEF get_instruction_size
  <2>2. \/ IsXmm(dst) /\ (IsXmm(src) \/ IsMem(src) \/ IsMemRel(src))
        \/ IsMem(dst) /\ IsXmm(src)
    BY <1>6 DEF Accepted
  <2>3. SizeOfMovsd(dst, src) \in {4, 5, 6, 8, 9}
    BY <2>2 DEF SizeOfMovsd, IsXmm, IsMem, IsMemRel
  <2> QED
    BY <2>1, <2>3
<1>7. CASE i.m = "xorpd"
  <2>1. size = SizeOfXorpd(src)
    BY <1>7, Tables DEF get_instruction_size
  <2> QED
    BY <2>1 DEF SizeOfXorpd
<1>8. CASE i.m \in SseArithmetic \cup {"ucomisd"}
  <2>1. size = SizeOfSse(src)
    BY <1>8, Tables DEF get_instruction_size
  <2>2. SizeOfSse(src) \in {4, 5, 8}
    BY DEF SizeOfSse, IsXmm, IsMemRel
  <2> QED
    BY <2>1, <2>2
<1>9. \/ i.m \in DOMAIN FixedSize \/ i.m \in ConditionalJumps \/ i.m \in Arithmetic64
      \/ i.m \in {"mov", "movzx", "movsd", "xorpd"} \/ i.m \in SseArithmetic \cup {"ucomisd"}
  BY Tables DEF Accepted
<1> QED
  BY <1>1, <1>2, <1>3, <1>4, <1>5, <1>6, <1>7, <1>8, <1>9

-----------------------------------------------------------------------------
(* The file in memory. *)

(* Sizes and places are natural numbers, and the constants begin on the      *)
(* first page after the code.                                                *)
LEMMA FileSizes ==
  ASSUME LayoutInv, pass = "written"
  PROVE  /\ TextSize \in Nat /\ RodataSize \in Nat /\ TextEnd \in Nat /\ TextEnd >= CODE_OFFSET + TextSize
         /\ RodataOffset \in Int /\ RodataOffset >= TextEnd
         /\ \E k \in Int : RodataOffset = k * PageSize
         /\ \E k \in Int : BASE_VADDR = k * PageSize
<1>1. /\ PageSize \in Nat \ {0} /\ StdlibSize \in Nat /\ BASE_VADDR % PageSize = 0 /\ BASE_VADDR \in Nat
  BY SizesAssumption, PagesAssumption DEF BASE_VADDR
<1>2. /\ rodata_index \in 0 .. Len(instructions) /\ Len(instructions) \in Nat /\ use_stdlib \in BOOLEAN
      /\ offset \in Seq(Nat) /\ Len(offset) = Len(instructions) + 1
      /\ \A i, j \in 1 .. Len(offset) : i <= j => offset[i] <= offset[j]
  BY DEF LayoutInv, Positions, OffsetsAreSums
<1>3. TextSize \in Nat /\ RodataSize \in Nat
  <2>1. rodata_index + 1 \in 1 .. Len(offset) /\ Len(instructions) + 1 \in 1 .. Len(offset)
        /\ rodata_index + 1 <= Len(instructions) + 1
    BY <1>2
  <2>2. /\ offset[rodata_index + 1] \in Nat /\ offset[Len(instructions) + 1] \in Nat
        /\ offset[rodata_index + 1] <= offset[Len(instructions) + 1]
    BY <1>2, <2>1
  <2> QED
    BY <2>2 DEF TextSize, RodataSize
<1>4. TextEnd \in Nat /\ TextEnd >= CODE_OFFSET + TextSize
  BY <1>1, <1>2, <1>3 DEF TextEnd, FileSizeOfText, CODE_OFFSET
<1>5. /\ (TextEnd + PageSize - 1) \div PageSize \in Int
      /\ RodataOffset = ((TextEnd + PageSize - 1) \div PageSize) * PageSize
      /\ RodataOffset >= TextEnd
  BY <1>1, <1>4, RoundedUp DEF RodataOffset, align_up
<1>6. RodataOffset \in Int
  BY <1>1, <1>5, WholePages
<1>7. \E k \in Int : RodataOffset = k * PageSize
  BY <1>5
<1>8. \E k \in Int : BASE_VADDR = k * PageSize
  <2>1. BASE_VADDR \div PageSize \in Int /\ BASE_VADDR = (BASE_VADDR \div PageSize) * PageSize
    BY <1>1
  <2> QED
    BY <2>1
<1> QED
  BY <1>3, <1>4, <1>5, <1>6, <1>7, <1>8

(* Both segments lie as far above BASE_VADDR as they lie in the file.        *)
LEMMA MappedPlaces ==
  ASSUME Written, NEW place \in Int, TextEnd \in Int, RodataOffset \in Int, RodataSize \in Int,
         \/ 0 <= place /\ place < TextEnd
         \/ RodataOffset <= place /\ place < RodataOffset + RodataSize
  PROVE  Mapped(place) = BASE_VADDR + place
<1> DEFINE segments == {file.segments[i] : i \in 1 .. Len(file.segments)}
           holding == {s \in segments : s.offset <= place /\ place < s.offset + s.size}
<1>1. segments = {Segment(0, TextEnd), Segment(RodataOffset, RodataSize)}
  <2>1. file.segments = <<Segment(0, TextEnd), Segment(RodataOffset, RodataSize)>>
    BY DEF Written
  <2> HIDE DEF segments
  <2>2. Len(file.segments) = 2 /\ file.segments[1] = Segment(0, TextEnd)
        /\ file.segments[2] = Segment(RodataOffset, RodataSize)
    BY <2>1
  <2> QED
    BY <2>2 DEF segments
<1> HIDE DEF segments
<1>2. /\ Segment(0, TextEnd).offset = 0 /\ Segment(0, TextEnd).vaddr = BASE_VADDR + 0
      /\ Segment(0, TextEnd).size = TextEnd
      /\ Segment(RodataOffset, RodataSize).offset = RodataOffset
      /\ Segment(RodataOffset, RodataSize).vaddr = BASE_VADDR + RodataOffset
      /\ Segment(RodataOffset, RodataSize).size = RodataSize
  BY DEF Segment
<1>3. BASE_VADDR \in Int
  BY DEF BASE_VADDR
<1>4. holding # {}
  BY <1>1, <1>2
<1>5. \A s \in holding : s.vaddr + (place - s.offset) = BASE_VADDR + place
  BY <1>1, <1>2, <1>3
<1>6. Mapped(place) = LET s == CHOOSE s \in holding : TRUE IN s.vaddr + (place - s.offset)
  BY <1>4 DEF Mapped, segments
<1> HIDE DEF holding
<1> QED
  BY <1>4, <1>5, <1>6

-----------------------------------------------------------------------------
(* What an instruction's bytes are in memory. *)

LEMMA Between ==
  ASSUME NEW from \in Nat, NEW n \in Nat, NEW m \in Nat, NEW to \in Nat, from <= n, n < m, m <= to
  PROVE  n - from \in Nat /\ n - from < to - from
OBVIOUS

(* The bytes of the instruction at `index` are in the segment of its kind,   *)
(* as far from its beginning as they are in their buffer.                    *)
LEMMA Loaded ==
  ASSUME LayoutInv, pass = "written", Written, NEW index \in 0 .. Len(instructions) - 1
  PROVE  InMemory(index) =
           starts[index + 1] + (IF index < rodata_index THEN TextStart ELSE RodataStart(TextSize))
<1>1. /\ TextSize \in Nat /\ RodataSize \in Nat /\ TextEnd \in Nat /\ TextEnd >= CODE_OFFSET + TextSize
      /\ RodataOffset \in Int /\ RodataOffset >= TextEnd
  BY FileSizes
<1>2. /\ rodata_index \in 0 .. Len(instructions) /\ Len(instructions) \in Nat
      /\ Len(offset) = Len(instructions) + 1
      /\ \A i \in 1 .. Len(offset) : offset[i] \in Nat
      /\ \A i, j \in 1 .. Len(offset) : i <= j => offset[i] <= offset[j]
  BY DEF LayoutInv, Positions, OffsetsAreSums
<1>3. starts[index + 1] = IF index + 1 <= rodata_index THEN offset[index + 1] ELSE offset[index + 1] - TextSize
  <2>1. index + 1 \in 1 .. next
    BY <1>2 DEF Written
  <2> QED
    BY <2>1 DEF LayoutInv, StartsAreOffsets, TextSize
<1>4. /\ offset[index + 1] \in Nat /\ offset[index + 2] \in Nat
      /\ offset[index + 1] < offset[index + 2]
  <2>1. index + 1 \in 1 .. Len(offset) - 1 /\ index + 1 \in 1 .. Len(offset) /\ index + 2 \in 1 .. Len(offset)
        /\ index + 1 + 1 = index + 2
    BY <1>2
  <2>2. /\ Accepted(instructions[index + 1])
        /\ offset[index + 1 + 1] = offset[index + 1] + get_instruction_size(instructions[index + 1])
    BY <2>1 DEF LayoutInv, OffsetsAreSums
  <2>3. get_instruction_size(instructions[index + 1]) \in Nat /\ get_instruction_size(instructions[index + 1]) > 0
    BY <2>2, SizePositive
  <2>4. offset[index + 1] \in Nat /\ offset[index + 2] \in Nat
    BY <1>2, <2>1
  <2> QED
    BY <2>1, <2>2, <2>3, <2>4
<1>5. CASE index < rodata_index
  <2>1. index + 1 <= rodata_index /\ index + 2 \in 1 .. Len(offset) /\ rodata_index + 1 \in 1 .. Len(offset)
        /\ index + 2 <= rodata_index + 1
    BY <1>2, <1>5
  <2>2. offset[index + 2] <= TextSize
    BY <1>2, <2>1 DEF TextSize
  <2>3. starts[index + 1] = offset[index + 1]
    BY <1>3, <2>1
  <2>4. InMemory(index) = Mapped(CODE_OFFSET + starts[index + 1])
    BY <1>1, <1>5, FilePlaces DEF InMemory
  <2>5. CODE_OFFSET + starts[index + 1] \in Int /\ 0 <= CODE_OFFSET + starts[index + 1]
        /\ CODE_OFFSET + starts[index + 1] < TextEnd
    BY <1>1, <1>4, <2>2, <2>3 DEF CODE_OFFSET
  <2>6. Mapped(CODE_OFFSET + starts[index + 1]) = BASE_VADDR + (CODE_OFFSET + starts[index + 1])
    BY <1>1, <2>5, MappedPlaces
  <2>7. BASE_VADDR + (CODE_OFFSET + starts[index + 1]) = starts[index + 1] + TextStart
    BY <1>4, <2>3 DEF BASE_VADDR, CODE_OFFSET, TextStart
  <2> QED
    BY <1>5, <2>4, <2>6, <2>7
<1>6. CASE index >= rodata_index
  <2>1. /\ ~(index < rodata_index) /\ ~(index + 1 <= rodata_index)
        /\ index + 1 \in 1 .. Len(offset) /\ index + 2 \in 1 .. Len(offset)
        /\ rodata_index + 1 \in 1 .. Len(offset) /\ Len(instructions) + 1 \in 1 .. Len(offset)
        /\ rodata_index + 1 <= index + 1 /\ index + 2 <= Len(instructions) + 1
    BY <1>2, <1>6
  <2>2. TextSize <= offset[index + 1] /\ offset[index + 2] <= offset[Len(instructions) + 1]
        /\ offset[Len(instructions) + 1] \in Nat
    BY <1>2, <2>1 DEF TextSize
  <2>3. starts[index + 1] = offset[index + 1] - TextSize
    BY <1>3, <2>1
  <2>4. starts[index + 1] \in Nat /\ starts[index + 1] < RodataSize
    <3> DEFINE n == offset[index + 1]
               m == offset[index + 2]
               to == offset[Len(instructions) + 1]
    <3>1. RodataSize = to - TextSize /\ starts[index + 1] = n - TextSize
      BY <2>3 DEF RodataSize
    <3>2. /\ TextSize \in Nat /\ n \in Nat /\ m \in Nat /\ to \in Nat
          /\ TextSize <= n /\ n < m /\ m <= to
      BY <1>1, <1>4, <2>2
    <3> HIDE DEF n, m, to
    <3>3. n - TextSize \in Nat /\ n - TextSize < to - TextSize
      BY <3>2, Between
    <3> QED
      BY <3>1, <3>3
  <2>5. InMemory(index) = Mapped(RodataOffset + starts[index + 1])
    BY <1>1, <2>1, FilePlaces DEF InMemory
  <2>6. Mapped(RodataOffset + starts[index + 1]) = BASE_VADDR + (RodataOffset + starts[index + 1])
    <3>1. RodataOffset + starts[index + 1] \in Int /\ RodataOffset <= RodataOffset + starts[index + 1]
          /\ RodataOffset + starts[index + 1] < RodataOffset + RodataSize
      BY <1>1, <2>4
    <3> QED
      BY <1>1, <3>1, MappedPlaces
  <2>7. RodataStart(TextSize) = BASE_VADDR + RodataOffset
    BY DEF RodataStart, RodataOffset, TextEnd
  <2>8. BASE_VADDR + (RodataOffset + starts[index + 1]) = starts[index + 1] + (BASE_VADDR + RodataOffset)
    BY <1>1, <2>4 DEF BASE_VADDR
  <2> QED
    BY <2>1, <2>5, <2>6, <2>7, <2>8
<1> QED
  BY <1>2, <1>5, <1>6

-----------------------------------------------------------------------------
(* The labels that the generator leaves. *)

(* Every label stands before an instruction. *)
LabelsInside == status = "done" => \A i \in 1 .. Len(labels) : labels[i].index < Len(instructions)

LEMMA InsideNext ==
  ASSUME Typed, Offsets, Bounds, LabelsInside, [Next]_vars
  PROVE  LabelsInside'
<1>1. CASE gen_exit
  <2>1. PICK code \in Seq(Code({})), new \in Seq(Marks) :
          /\ instructions' = instructions \o code /\ Len(code) = Len(rodata) + 3
          /\ labels' = labels \o new /\ Len(new) = Len(rodata) + 1 /\ new[1].index = Len(instructions)
          /\ \A i \in 1 .. Len(rodata) : new[i + 1].index = Len(instructions) + i + 2
    BY <1>1, ExitTypes
  <2>2. labels \in Seq(Marks) /\ Len(labels) \in Nat /\ Len(instructions) \in Nat /\ Len(rodata) \in Nat
    BY DEF Typed
  <2>3. /\ Len(labels') = Len(labels) + Len(new)
        /\ \A i \in 1 .. Len(labels) : labels'[i] = labels[i]
        /\ \A i \in 1 .. Len(new) : labels'[Len(labels) + i] = new[i]
    <3>1. labels \in Seq(Marks) /\ new \in Seq(Marks) /\ labels' = labels \o new
      BY <2>1, <2>2
    <3> QED
      BY <3>1, TwoParts
  <2>4. Len(instructions') = Len(instructions) + Len(rodata) + 3
    <3>1. instructions \in Seq(Code(Names)) /\ code \in Seq(Code(Names))
      BY CodeMonotone, SeqWider DEF Typed
    <3>2. instructions \in Seq(Code(Names)) /\ code \in Seq(Code(Names)) /\ instructions' = instructions \o code
      BY <2>1, <3>1
    <3>3. Len(instructions') = Len(instructions) + Len(code)
      BY <3>2, TwoParts
    <3> QED
      BY <2>1, <2>2, <3>3
  <2>5. \A i \in 1 .. Len(labels) : labels[i].index \in 0 .. Len(instructions)
    BY DEF Bounds
  <2> SUFFICES ASSUME NEW i \in 1 .. Len(labels') PROVE labels'[i].index < Len(instructions')
    BY DEF LabelsInside
  <2>6. \/ i \in 1 .. Len(labels)
        \/ i = Len(labels) + 1 /\ 1 \in 1 .. Len(new)
        \/ /\ i - Len(labels) - 1 \in 1 .. Len(rodata) /\ (i - Len(labels) - 1) + 1 \in 1 .. Len(new)
           /\ i = Len(labels) + ((i - Len(labels) - 1) + 1)
    <3>1. i \in 1 .. Len(labels) + (Len(rodata) + 1) /\ Len(new) = Len(rodata) + 1
      BY <2>1, <2>3
    <3> QED
      BY <2>2, <3>1
  <2>7. CASE i \in 1 .. Len(labels)
    BY <2>2, <2>3, <2>4, <2>5, <2>7
  <2>8. CASE i = Len(labels) + 1 /\ 1 \in 1 .. Len(new)
    <3>1. labels'[i].index = Len(instructions)
      BY <2>1, <2>3, <2>8
    <3> QED
      BY <2>2, <2>4, <3>1
  <2>9. ASSUME NEW k, k = i - Len(labels) - 1, k \in 1 .. Len(rodata), k + 1 \in 1 .. Len(new), i = Len(labels) + (k + 1)
        PROVE  labels'[i].index < Len(instructions')
    <3>1. labels'[i].index = Len(instructions) + k + 2
      BY <2>1, <2>3, <2>9
    <3> QED
      BY <2>2, <2>4, <2>9, <3>1
  <2> QED
    BY <2>6, <2>7, <2>8, <2>9
<1>2. CASE PlaceLabel \/ Abort
  <2>1. status' # "done" \/ UNCHANGED <<status, labels, instructions>>
    BY <1>2 DEF PlaceLabel, Doing, Abort
  <2> QED
    BY <2>1 DEF LabelsInside
<1>3. CASE UNCHANGED vars
  BY <1>3 DEF vars, LabelsInside
<1>4. ASSUME NEW own, NEW tasks, Replaces(tasks, own)
      PROVE  LabelsInside'
  <2>1. status' = "generating"
    BY <1>4 DEF Replaces
  <2> QED
    BY <2>1 DEF LabelsInside
<1> QED
  BY <1>1, <1>2, <1>3, <1>4, LabelSteps

(* The generator's invariants that the layout needs. *)
Generated ==
  Typed /\ Offsets /\ Bounds /\ InOrder /\ DataInOrder /\ ConstantsDistinct /\ Unique /\ LabelsInside

LEMMA GeneratedInit == Init => Generated
<1>1. Init => LabelsInside
  BY DEF Init, LabelsInside
<1> QED
  BY <1>1, WalkInit, BoundsInit, OrderInit, DataInit, UniqueInit DEF Generated

LEMMA GeneratedNext == Generated /\ [Next]_vars => Generated'
<1> SUFFICES ASSUME Generated, [Next]_vars PROVE Generated'
  OBVIOUS
<1>1. Typed /\ Offsets /\ Bounds /\ InOrder /\ DataInOrder /\ ConstantsDistinct /\ Unique /\ LabelsInside
  BY DEF Generated
<1>2. Typed' /\ Offsets' /\ Bounds' /\ InOrder' /\ DataInOrder' /\ ConstantsDistinct' /\ Unique' /\ LabelsInside'
  BY <1>1, WalkNext, BoundsNext, OrderNext, DataNext, UniqueNext, InsideNext
<1> QED
  BY <1>2 DEF Generated

(* They are lists that the layout can begin with. *)
LEMMA GeneratedLists ==
  ASSUME Typed
  PROVE  Len(instructions) \in Nat /\ Marked
<1>1. \A j \in 1 .. Len(labels) : labels[j].index \in Nat
  <2>1. \A j \in 1 .. Len(labels) : labels[j] \in Marks
    BY DEF Typed
  <2> QED
    BY <2>1 DEF Marks
<1> QED
  BY <1>1 DEF Typed, Marked

-----------------------------------------------------------------------------
(* The invariant of both. *)

(* A label that is not the library's stands before an instruction, and no    *)
(* other has its name.                                                       *)
Labelled ==
  /\ Len(labels) \in Nat /\ Len(addresses) = Len(labels)
  /\ \A i \in 1 .. Len(labels) : labels[i].label[1] \notin DOMAIN LibraryEntry =>
       /\ labels[i].index < Len(instructions)
       /\ \A j \in 1 .. Len(labels) : labels[j].label = labels[i].label => j = i

(* Nothing is laid out before the generator has finished; what it leaves is  *)
(* there until the library's labels are added.                               *)
Handover ==
  /\ status # "done" => Idle
  /\ pass = "sizes" => Generated
  /\ pass # "sizes" => Labelled
  /\ pass = "written" => Written

(* The library's labels come after those of the program, and every label     *)
(* gets an address.                                                          *)
LEMMA AddressesLabel ==
  ASSUME Generated, status = "done", compute_labels_addresses, UNCHANGED instructions
  PROVE  Labelled'
<1> DEFINE library == IF use_stdlib THEN LibraryLabels ELSE <<>>
           new == [j \in 1 .. Len(library) |-> [label |-> <<library[j], 0>>, index |-> Len(labels) + j - 1]]
           others == [j \in 1 .. Len(library) |->
                        TextStart + offset[rodata_index' + 1] + LibraryEntry[library[j]]]
           own == [j \in 1 .. Len(labels) |-> AddressOf(labels[j].index, rodata_index')]
<1>1. labels' = labels \o new /\ addresses' = own \o others /\ instructions' = instructions
  BY DEF compute_labels_addresses, label_list_push_back
<1>2. /\ Len(labels) \in Nat
      /\ \A i \in 1 .. Len(labels) : labels[i].index < Len(instructions)
      /\ \A i, j \in 1 .. Len(labels) : labels[i].label = labels[j].label => i = j
  <2>1. Typed /\ LabelsInside /\ Unique
    BY DEF Generated
  <2>2. Len(labels) \in Nat
    BY <2>1 DEF Typed
  <2>3. \A i \in 1 .. Len(labels) : labels[i].index < Len(instructions)
    BY <2>1 DEF LabelsInside
  <2>4. \A i, j \in 1 .. Len(labels) : labels[i].label = labels[j].label => i = j
    BY <2>1 DEF Unique
  <2> QED
    BY <2>2, <2>3, <2>4
<1>3. /\ Len(library) \in Nat
      /\ \A j \in 1 .. Len(library) : library[j] \in DOMAIN LibraryEntry
  <2>1. DOMAIN LibraryEntry = {"__out", "__in"}
    BY DEF LibraryEntry
  <2>2. library = <<>> \/ library = <<"__out", "__in">>
    BY DEF LibraryLabels
  <2> HIDE DEF library
  <2>3. CASE library = <<>>
    BY <2>3
  <2>4. CASE library = <<"__out", "__in">>
    BY <2>1, <2>4
  <2> QED
    BY <2>2, <2>3, <2>4
<1> HIDE DEF library
<1>4. /\ Len(own) = Len(labels) /\ Len(others) = Len(library) /\ Len(new) = Len(library)
      /\ \A j \in 1 .. Len(new) : new[j].label[1] \in DOMAIN LibraryEntry
  BY <1>2, <1>3
<1> HIDE DEF own, others, new
<1>5. /\ Len(own \o others) = Len(own) + Len(others) /\ Len(labels \o new) = Len(labels) + Len(new)
  BY <1>2, <1>3, <1>4, LenConcat
<1>6. Len(labels') \in Nat /\ Len(labels') = Len(labels) + Len(new) /\ Len(addresses') = Len(labels')
  BY <1>1, <1>2, <1>3, <1>4, <1>5
<1>7. \A i \in 1 .. Len(labels) : labels'[i] = labels[i]
  BY <1>1, <1>2, <1>3, <1>4, ConcatLeft
<1>8. ASSUME NEW i \in 1 .. Len(labels'), labels'[i].label[1] \notin DOMAIN LibraryEntry
      PROVE  i \in 1 .. Len(labels)
  <2> SUFFICES ASSUME i \notin 1 .. Len(labels) PROVE FALSE
    OBVIOUS
  <2>1. labels'[i] = new[i - Len(labels)] /\ i - Len(labels) \in 1 .. Len(new)
    BY <1>1, <1>2, <1>3, <1>4, <1>6
  <2> QED
    BY <1>4, <1>8, <2>1
<1>9. ASSUME NEW i \in 1 .. Len(labels'), labels'[i].label[1] \notin DOMAIN LibraryEntry
      PROVE  /\ labels'[i].index < Len(instructions')
             /\ \A j \in 1 .. Len(labels') : labels'[j].label = labels'[i].label => j = i
  <2>1. i \in 1 .. Len(labels)
    BY <1>8, <1>9
  <2>2. labels'[i].index < Len(instructions')
    BY <1>1, <1>2, <1>7, <2>1
  <2>3. ASSUME NEW j \in 1 .. Len(labels'), labels'[j].label = labels'[i].label
        PROVE  j = i
    <3>1. j \in 1 .. Len(labels)
      BY <1>8, <1>9, <2>3
    <3> QED
      BY <1>2, <1>7, <2>1, <2>3, <3>1
  <2> QED
    BY <2>2, <2>3
<1> QED
  BY <1>6, <1>9 DEF Labelled

(* What WriteFile writes. *)
LEMMA WriteFileWrites ==
  ASSUME WriteFile, UNCHANGED instructions
  PROVE  Written'
<1>1. /\ next = Len(instructions) /\ Holding(EntryPoint) # {}
      /\ UNCHANGED <<labels, use_stdlib, offset, rodata_index, addresses, next, instructions>>
  BY DEF WriteFile, buffers
<1>2. /\ TextSize' = TextSize /\ TextEnd' = TextEnd /\ RodataOffset' = RodataOffset /\ RodataSize' = RodataSize
  BY <1>1 DEF TextSize, TextEnd, RodataOffset, RodataSize, FileSizeOfText
<1>3. Holding(EntryPoint)' = Holding(EntryPoint)
  BY <1>1 DEF Holding, EntryPoint
<1>4. find_label_address(EntryPoint)' = find_label_address(EntryPoint)
  BY <1>1, <1>3 DEF find_label_address, EntryPoint
<1>5. file' = [entry |-> find_label_address(EntryPoint),
               segments |-> <<Segment(0, TextEnd), Segment(RodataOffset, RodataSize)>>,
               sections |-> <<Section("headers", CODE_OFFSET), Section("text", TextSize),
                              Section("library", TextEnd - CODE_OFFSET - TextSize),
                              Section("padding", RodataOffset - TextEnd),
                              Section("rodata", RodataSize)>>]
  BY <1>1 DEF WriteFile, TextSize, TextEnd, RodataOffset, RodataSize
<1> QED
  BY <1>1, <1>2, <1>3, <1>4, <1>5 DEF Written

LEMMA HandoverInit == BackEndInit => Handover /\ Idle /\ Listed
<1> SUFFICES ASSUME BackEndInit PROVE Handover /\ Idle /\ Listed
  OBVIOUS
<1>1. Generated /\ Idle /\ pass = "sizes" /\ use_stdlib \in BOOLEAN
  BY GeneratedInit DEF BackEndInit, Idle
<1>2. Listed
  BY <1>1, GeneratedLists DEF Generated, Listed
<1> QED
  BY <1>1, <1>2 DEF Handover

(* Each step keeps it, and before the generator has finished the layout      *)
(* stays as it was at the beginning.                                         *)
LEMMA HandoverNext ==
  ASSUME LayoutInv, Handover, [BackEndNext]_<<vars, layout_vars>>
  PROVE  /\ Handover'
         /\ [LayoutNext]_<<instructions, labels, layout_vars>> \/ (Idle /\ Listed)'
<1>1. CASE Generate /\ UNCHANGED layout_vars
  <2>1. status = "generating" /\ Idle /\ Generated /\ pass = "sizes"
    BY <1>1, GeneratesFirst DEF Handover, Idle
  <2>2. Generated'
    BY <1>1, <2>1, GeneratedNext DEF Next
  <2>3. Idle' /\ pass' = "sizes" /\ use_stdlib' = use_stdlib
    BY <1>1, <2>1 DEF layout_vars, Idle
  <2>4. Len(instructions') \in Nat /\ Marked'
    <3>1. instructions' \in Seq(Code(Names)) /\ labels' \in Seq(Marks)
      BY <2>2 DEF Generated, Typed
    <3>2. \A j \in 1 .. Len(labels') : labels'[j].index \in Nat
      <4>1. \A j \in 1 .. Len(labels') : labels'[j] \in Marks
        BY <3>1
      <4> QED
        BY <4>1 DEF Marks
    <3> QED
      BY <3>1, <3>2 DEF Marked
  <2>5. use_stdlib' \in BOOLEAN
    BY <2>3 DEF LayoutInv, Positions
  <2> QED
    BY <2>2, <2>3, <2>4, <2>5 DEF Handover, Listed
<1>2. CASE /\ status = "done" /\ LayoutNext
           /\ UNCHANGED <<functions, todo, rodata, counters, while_stack, status>>
  <2>1. status' = "done" /\ instructions' = instructions
    BY <1>2 DEF LayoutNext
  <2>2. CASE calculate_sizes
    <3>1. pass = "sizes" /\ pass' = "sizes" /\ labels' = labels
      BY <2>2 DEF calculate_sizes
    <3>2. Generated /\ UNCHANGED vars
      BY <1>2, <2>1, <3>1 DEF Handover, vars
    <3>3. Generated'
      BY <3>2, GeneratedNext
    <3> QED
      BY <1>2, <2>1, <3>1, <3>3 DEF Handover
  <2>3. CASE compute_labels_addresses
    <3>1. pass = "sizes" /\ pass' = "text"
      BY <2>3 DEF compute_labels_addresses
    <3>2. Labelled'
      BY <1>2, <2>1, <2>3, <3>1, AddressesLabel DEF Handover
    <3> QED
      BY <1>2, <2>1, <3>1, <3>2 DEF Handover
  <2>4. CASE EncodeText \/ LabelNotFound \/ BeginRodata \/ EncodeRodata
    <3>1. /\ pass # "sizes" /\ pass' \notin {"sizes", "written"}
          /\ labels' = labels /\ addresses' = addresses
      BY <2>4 DEF EncodeText, LabelNotFound, BeginRodata, EncodeRodata
    <3>2. Labelled'
      BY <2>1, <3>1 DEF Handover, Labelled
    <3> QED
      BY <1>2, <2>1, <3>1, <3>2 DEF Handover
  <2>5. CASE WriteFile
    <3>1. pass # "sizes" /\ pass' = "written" /\ labels' = labels /\ addresses' = addresses
      BY <2>5 DEF WriteFile
    <3>2. Labelled'
      BY <2>1, <3>1 DEF Handover, Labelled
    <3>3. Written'
      BY <2>1, <2>5, WriteFileWrites
    <3> QED
      BY <1>2, <2>1, <3>1, <3>2, <3>3 DEF Handover
  <2> QED
    BY <1>2, <2>2, <2>3, <2>4, <2>5 DEF LayoutNext
<1>3. CASE UNCHANGED <<vars, layout_vars>>
  <2>1. UNCHANGED <<instructions, labels, layout_vars>> /\ UNCHANGED vars /\ status' = status
    BY <1>3 DEF vars
  <2>2. Idle' = Idle /\ Labelled' = Labelled /\ Written' = Written /\ pass' = pass
    BY <2>1 DEF layout_vars, Idle, Labelled, Written, TextSize, TextEnd, RodataOffset, RodataSize, FileSizeOfText,
                Holding, find_label_address
  <2>3. pass = "sizes" => Generated'
    BY <2>1, GeneratedNext DEF Handover
  <2> QED
    BY <2>1, <2>2, <2>3 DEF Handover
<1> QED
  BY <1>1, <1>2, <1>3 DEF BackEndNext

LEMMA BackEndInvariant == BackEndSpec => [](LayoutInv /\ Handover)
<1>1. BackEndInit => Handover /\ Idle /\ Listed
  BY HandoverInit
<1>2. LayoutInv /\ Handover /\ [BackEndNext]_<<vars, layout_vars>> =>
        Handover' /\ ([LayoutNext]_<<instructions, labels, layout_vars>> \/ (Idle /\ Listed)')
  BY HandoverNext
<1>3. LayoutInv /\ [LayoutNext]_<<instructions, labels, layout_vars>> => LayoutInv'
  BY LayoutNextPreserves
<1>4. Idle /\ Listed => LayoutInv
  BY IdleEstablishes
<1> QED
  BY <1>1, <1>2, <1>3, <1>4, PTL DEF BackEndSpec

-----------------------------------------------------------------------------
(* Theorems. *)

(* For every program that the generator translates, the bytes of each        *)
(* instruction are as many as its size says.                                 *)
THEOREM GeneratedBytesMatch == BackEndSpec => []BytesMatchSizes
<1> QED
  BY BackEndInvariant, BytesFromInvariant, PTL

(* And each of its labels has the address where what it stands before is     *)
(* loaded.                                                                   *)
THEOREM GeneratedLabelsAtCode == BackEndSpec => []LabelsAtTheirCode
<1> QED
  BY BackEndInvariant, LabelsFromInvariant, PTL

(* The entry point of the file is where the first instruction of main is in  *)
(* memory: main is one label, its code is there, and its address was         *)
(* computed for the segment that the code is mapped in.                      *)
LEMMA EntryIsMain ==
  ASSUME LayoutInv, Labelled, Written, pass = "written"
  PROVE  file.entry = Meant(EntryPoint)
<1>1. EntryPoint.l = "main" /\ LabelOf(EntryPoint)[1] = "main" /\ DOMAIN LibraryEntry = {"__out", "__in"}
  BY DEF EntryPoint, Target, LabelOf, LibraryEntry
<1>2. PICK j \in 1 .. Len(labels) : labels[j].label = LabelOf(EntryPoint)
  BY DEF Written, Holding
<1>3. /\ labels[j].label[1] = "main" /\ "main" \notin DOMAIN LibraryEntry
      /\ labels[j].label[1] \notin DOMAIN LibraryEntry
  BY <1>1, <1>2
<1>4. /\ j \in 1 .. Len(addresses) /\ labels[j].index < Len(instructions)
      /\ \A i \in 1 .. Len(labels) : labels[i].label = labels[j].label => i = j
  BY <1>3 DEF Labelled
<1>5. Holding(EntryPoint) = {j}
  BY <1>2, <1>4 DEF Holding
<1> DEFINE index == labels[j].index
<1>6. index \in 0 .. Len(instructions) - 1
  <2>1. pass # "sizes" /\ index \in Nat /\ Len(instructions) \in Nat
    BY <1>3, <1>4 DEF LayoutInv, AddressesFromOffsets, Positions
  <2> QED
    BY <1>4, <2>1
<1>7. file.entry = addresses[j]
  <2>1. file.entry = find_label_address(EntryPoint)
    BY DEF Written
  <2>2. \A i \in {j} : i = j
    OBVIOUS
  <2>3. j <= j
    OBVIOUS
  <2>4. (CHOOSE i \in {j} : \A k \in {j} : i <= k) = j
    BY <2>2, <2>3
  <2> QED
    BY <1>5, <2>1, <2>4 DEF find_label_address
<1>8. Meant(EntryPoint) = InMemory(index)
  <2>1. (CHOOSE i \in {j} : TRUE) = j
    OBVIOUS
  <2> QED
    BY <1>1, <1>3, <1>5, <2>1 DEF Meant
<1>9. addresses[j] = starts[index + 1] + (IF index < rodata_index THEN TextStart ELSE RodataStart(TextSize))
  <2>1. LabelsAtTheirCode
    BY LabelsFromInvariant
  <2>2. labels[j].index < next
    BY <1>4 DEF Written
  <2> QED
    BY <1>3, <1>4, <2>1, <2>2 DEF LabelsAtTheirCode, TextSize
<1>10. InMemory(index) = starts[index + 1] + (IF index < rodata_index THEN TextStart ELSE RodataStart(TextSize))
  BY <1>6, Loaded
<1> QED
  BY <1>7, <1>8, <1>9, <1>10

(* The file can be loaded and started, whatever the size of a page, of the   *)
(* library and of the program: the segments are where their headers say, at  *)
(* offsets that agree with their addresses, on pages of their own, and       *)
(* execution begins at main.                                                 *)
THEOREM FileLoads == BackEndSpec => []SegmentsLoadable
<1>1. LayoutInv /\ Handover => SegmentsLoadable
  <2> SUFFICES ASSUME LayoutInv, Handover, pass = "written" PROVE SegmentsLoadable
    BY DEF SegmentsLoadable
  <2>1. Written /\ Labelled
    BY DEF Handover
  <2> DEFINE text == file.segments[1]
             constants == file.segments[2]
  <2>2. /\ text = [offset |-> 0, vaddr |-> BASE_VADDR + 0, size |-> TextEnd]
        /\ constants = [offset |-> RodataOffset, vaddr |-> BASE_VADDR + RodataOffset, size |-> RodataSize]
    <3>1. file.segments = <<Segment(0, TextEnd), Segment(RodataOffset, RodataSize)>>
      BY <2>1 DEF Written
    <3>2. text = Segment(0, TextEnd) /\ constants = Segment(RodataOffset, RodataSize)
      BY <3>1
    <3> QED
      BY <3>2 DEF Segment
  <2>3. /\ TextSize \in Nat /\ TextEnd \in Nat /\ RodataOffset \in Int /\ RodataOffset >= TextEnd
        /\ PageSize \in Nat \ {0}
    BY FileSizes, SizesAssumption
  <2>4. PICK before \in Int : BASE_VADDR = before * PageSize
    BY FileSizes
  <2>5. PICK pages \in Int : RodataOffset = pages * PageSize
    BY FileSizes
  <2>6. BASE_VADDR \in Int /\ BASE_VADDR + 0 = BASE_VADDR
    BY DEF BASE_VADDR
  <2>7. BASE_VADDR + RodataOffset = (before + pages) * PageSize /\ before + pages \in Int
    BY <2>3, <2>4, <2>5
  <2>8. /\ BASE_VADDR % PageSize = 0 /\ RodataOffset % PageSize = 0 /\ 0 % PageSize = 0
        /\ (BASE_VADDR + RodataOffset) % PageSize = 0
        /\ (BASE_VADDR + RodataOffset) \div PageSize = before + pages
    <3>1. 0 % PageSize = 0
      BY <2>3
    <3> QED
      BY <2>3, <2>4, <2>5, <2>7, <3>1, WholePages
  <2>9. (BASE_VADDR + TextEnd - 1) \div PageSize < before + pages
    <3>1. BASE_VADDR + TextEnd - 1 \in Int /\ BASE_VADDR + TextEnd - 1 < (before + pages) * PageSize
      <4>1. BASE_VADDR + TextEnd - 1 \in Int /\ BASE_VADDR + TextEnd - 1 < BASE_VADDR + RodataOffset
        BY <2>3, <2>6
      <4> QED
        BY <2>7, <4>1
    <3> QED
      BY <2>3, <2>7, <3>1, EarlierPage
  <2>10. PlaceOf("rodata") = RodataOffset /\ PlaceOf("padding") = TextEnd
    BY <2>1, <2>3, FilePlaces
  <2>11. file.entry = Meant(EntryPoint)
    BY <2>1, EntryIsMain
  <2> QED
    BY <2>2, <2>3, <2>6, <2>8, <2>9, <2>10, <2>11 DEF SegmentsLoadable
<1> QED
  BY <1>1, BackEndInvariant, PTL
==============================================================================
