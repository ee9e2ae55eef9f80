------------------------------- MODULE BackEnd -------------------------------
(***************************************************************************)
(* back_end_run in binary mode: the code generator, then the layout of its *)
(* lists.  The properties are about the file: loaded and decoded as a      *)
(* Linux system does it, it is the generated program.                      *)
(***************************************************************************)
EXTENDS CodeGen, Layout, Decoder

BackEndInit == Init /\ Idle /\ use_stdlib \in BOOLEAN

BackEndNext ==
  \/ Generate /\ UNCHANGED layout_vars
  \/ /\ status = "done" /\ LayoutNext
     /\ UNCHANGED <<functions, todo, rodata, counters, while_stack, status>>

BackEndSpec == BackEndInit /\ [][BackEndNext]_<<vars, layout_vars>>

-----------------------------------------------------------------------------
(* The file as the loader maps it. *)

Total(sizes) == LET sum[n \in 0 .. Len(sizes)] == IF n = 0 THEN 0 ELSE sum[n - 1] + sizes[n]
                IN  sum[Len(sizes)]

(* The place in the file of the section `name`.                              *)
PlaceOf(name) ==
  LET sections == file.sections
      n == CHOOSE i \in 1 .. Len(sections) : sections[i].name = name
  IN  Total([i \in 1 .. n - 1 |-> sections[i].size])

Mapped(place) ==
  LET segments == {file.segments[i] : i \in 1 .. Len(file.segments)}
      holding == {s \in segments : s.offset <= place /\ place < s.offset + s.size}
  IN  IF holding = {} THEN -1 ELSE LET s == CHOOSE s \in holding : TRUE IN s.vaddr + (place - s.offset)

(* Where an instruction, or what a name stands for, is in memory.            *)
InMemory(index) ==
  Mapped(PlaceOf(IF index < rodata_index THEN "text" ELSE "rodata") + starts[index + 1])
Meant(operand) ==
  IF operand.l \in DOMAIN LibraryEntry THEN Mapped(PlaceOf("library") + LibraryEntry[operand.l])
  ELSE InMemory(labels[CHOOSE j \in Holding(operand) : TRUE].index)

Resolved(operand) ==
  IF operand.k \in {"label", "rel"} THEN [operand EXCEPT !.l = "", !.v = Meant(operand)] ELSE operand

-----------------------------------------------------------------------------
(* Properties. *)

(* What the processor decodes at the place of an instruction is that         *)
(* instruction, with the same registers, displacements and values; a jump, a *)
(* call or a constant leads to the bytes of what its label stands before, or *)
(* to the entry of the library; and the next instruction follows.            *)
Disassembles ==
  pass = "written" =>
    \A n \in 1 .. rodata_index :
      LET decoded == Decode(text_buffer, starts[n], InMemory(n - 1))
      IN  /\ decoded.m = instructions[n].m
          /\ decoded.dst = Resolved(instructions[n].dst)
          /\ decoded.src = Resolved(instructions[n].src)
          /\ starts[n] + decoded.length =
               (IF n = rodata_index THEN Len(text_buffer) ELSE starts[n + 1])

(* README 394-397, the two segments: each is in the file where its header    *)
(* says, at an offset that agrees with its address within a page, and they   *)
(* share no page, so that the constants are not executable and the code not  *)
(* readable only; execution begins at main.                                  *)
SegmentsLoadable ==
  pass = "written" =>
    LET text == file.segments[1]
        constants == file.segments[2]
        LastPage(s) == (s.vaddr + s.size - 1) \div PageSize
    IN  /\ PlaceOf("rodata") = constants.offset
        /\ PlaceOf("padding") = text.offset + text.size
        /\ text.vaddr % PageSize = text.offset % PageSize
        /\ constants.vaddr % PageSize = constants.offset % PageSize
        /\ LastPage(text) < constants.vaddr \div PageSize
        /\ file.entry = Meant(EntryPoint)
=============================================================================
