------------------------------- MODULE Layout -------------------------------
(***************************************************************************)
(* The binary back end, back_end/source/instructions_to_bin: from the two  *)
(* lists to an ELF file.  Sizes are computed first, then the addresses of  *)
(* all labels, then the bytes: of the code, to which the library may be    *)
(* appended, and of the constants, which form a segment of their own.      *)
(*                                                                         *)
(* The module starts from any lists; BackEnd connects it to the code       *)
(* generator.                                                              *)
(***************************************************************************)
EXTENDS Encoding, Instructions

CONSTANTS
  Lists,          (* The lists this module is started from, with the flag      *)
                  (* whether the program includes the library.                 *)
  PageSize,       (* ELF_PAGE_SIZE, 4096 in the code.                          *)
  StdlibSize      (* The size of the library's binary.                         *)

ASSUME ListsAssumption ==
  \A list \in Lists :
    /\ list.instructions \in Seq(Instruction)
    /\ list.labels \in Seq(Label)
    /\ list.use_stdlib \in BOOLEAN
ASSUME SizesAssumption == PageSize \in Nat \ {0} /\ StdlibSize \in Nat

VARIABLES
  use_stdlib,     (* Whether the tree has an include of my_stdlib.             *)
  pass,           (* "sizes", "text", "rodata", "written", or "failed".        *)
  offset,         (* offset[i + 1]: the encoded sizes of the first i together. *)
  rodata_index,   (* How many instructions come before the constants.          *)
  addresses,      (* The address of each label.                                *)
  next,           (* How many instructions have been encoded.                  *)
  current_address, text_buffer, rodata_buffer,
  starts,         (* History: where in its buffer each instruction begins.     *)
  file            (* What has been written to the output file.                 *)

layout_vars == <<use_stdlib, pass, offset, rodata_index, addresses, next, current_address,
                 text_buffer, rodata_buffer, starts, file>>
buffers == <<next, current_address, text_buffer, rodata_buffer, starts>>

Idle ==
  /\ pass = "sizes"
  /\ offset = <<0>> /\ rodata_index = 0 /\ addresses = <<>>
  /\ next = 0 /\ current_address = 0
  /\ text_buffer = <<>> /\ rodata_buffer = <<>> /\ starts = <<>>
  /\ file = <<>>

LayoutInit ==
  /\ \E list \in Lists : /\ instructions = list.instructions
                         /\ labels = list.labels
                         /\ use_stdlib = list.use_stdlib
  /\ Idle

Nothing == [k |-> "none", l |-> "", v |-> 0]

-----------------------------------------------------------------------------
(* calculate_sizes and the addresses.  An instruction that an encoder        *)
(* refuses by assertion ends the layout here already: in both places before  *)
(* anything is written.                                                      *)

calculate_sizes ==
  /\ pass = "sizes" /\ Len(offset) <= Len(instructions)
  /\ LET i == instructions[Len(offset)]
     IN  Accepted(i) /\ offset' = Append(offset, offset[Len(offset)] + get_instruction_size(i))
  /\ UNCHANGED <<labels, use_stdlib, pass, rodata_index, addresses, buffers, file>>

(* As if the end of the code were rounded down to a page.                    *)
align_down(value, alignment) == (value \div alignment) * alignment
align_up(value, alignment) == ((value + alignment - 1) \div alignment) * alignment

CODE_OFFSET == 176
BASE_VADDR == 4194304

(* The program is loaded at the beginning of a page.                         *)
ASSUME PagesAssumption == BASE_VADDR % PageSize = 0

FileSizeOfText(text_size) == CODE_OFFSET + text_size + (IF use_stdlib THEN StdlibSize ELSE 0)
TextStart == BASE_VADDR + CODE_OFFSET
RodataStart(text_size) == BASE_VADDR + align_up(FileSizeOfText(text_size), PageSize)

(* As if a label before the first constant belonged to the code.             *)
InRodataStrictly(index, first) == index > first
InRodata(index, first) == index >= first

AddressOf(index, first) ==
  IF InRodata(index, first)
  THEN RodataStart(offset[first + 1]) + (offset[index + 1] - offset[first + 1])
  ELSE TextStart + offset[index + 1]

(* The library's binary begins with two jumps of five bytes each.            *)
LibraryEntry == [__out |-> 0, __in |-> 5]
LibraryLabels == <<"__out", "__in">>

FirstConstant(index) ==
  /\ \A i \in 1 .. index : instructions[i].m # "dq"
  /\ index < Len(instructions) => instructions[index + 1].m = "dq"

compute_labels_addresses ==
  /\ pass = "sizes" /\ Len(offset) > Len(instructions)
  /\ \A j \in 1 .. Len(labels) : labels[j].index <= Len(instructions)
  /\ \E first \in 0 .. Len(instructions) :
       /\ FirstConstant(first)
       /\ rodata_index' = first
       /\ LET library == IF use_stdlib THEN LibraryLabels ELSE <<>>
          IN  /\ label_list_push_back([j \in 1 .. Len(library) |->
                   [label |-> <<library[j], 0>>, index |-> Len(labels) + j - 1]])
              /\ addresses' =
                   [j \in 1 .. Len(labels) |-> AddressOf(labels[j].index, first)]
                   \o [j \in 1 .. Len(library) |-> TextStart + offset[first + 1] + LibraryEntry[library[j]]]
  /\ pass' = "text"
  /\ current_address' = TextStart
  /\ UNCHANGED <<use_stdlib, offset, next, text_buffer, rodata_buffer, starts, file>>

-----------------------------------------------------------------------------
(* encode_all, for the code and then for the constants. *)

(* find_label_address: the first label of that name. *)
Holding(operand) == {j \in 1 .. Len(labels) : labels[j].label = LabelOf(operand)}
find_label_address(operand) ==
  addresses[CHOOSE j \in Holding(operand) : \A k \in Holding(operand) : j <= k]

Looked(i) == CASE i.dst.k = "label" -> i.dst [] i.src.k = "rel" -> i.src [] OTHER -> Nothing
Resolvable(i) == Looked(i) = Nothing \/ Holding(Looked(i)) # {}
Address(i) == IF Looked(i) = Nothing THEN 0 ELSE find_label_address(Looked(i))

Current == instructions[next + 1]
Size(n) == offset[n + 1] - offset[n]
Encoded == encode_instruction(Current, Address(Current), current_address)

EncodeText ==
  /\ pass = "text" /\ next < rodata_index /\ Resolvable(Current)
  /\ text_buffer' = text_buffer \o Encoded
  /\ starts' = Append(starts, Len(text_buffer))
  /\ current_address' = current_address + Size(next + 1)
  /\ next' = next + 1
  /\ UNCHANGED <<labels, use_stdlib, pass, offset, rodata_index, addresses, rodata_buffer, file>>

(* The assertion of find_label_address: a function of the library in a       *)
(* program that does not include it.                                         *)
LabelNotFound ==
  /\ pass = "text" /\ next < rodata_index /\ ~Resolvable(Current)
  /\ pass' = "failed"
  /\ UNCHANGED <<labels, use_stdlib, offset, rodata_index, addresses, buffers, file>>

BeginRodata ==
  /\ pass = "text" /\ next = rodata_index
  /\ pass' = "rodata"
  /\ current_address' = RodataStart(offset[rodata_index + 1])
  /\ UNCHANGED <<labels, use_stdlib, offset, rodata_index, addresses, next, text_buffer,
                 rodata_buffer, starts, file>>

EncodeRodata ==
  /\ pass = "rodata" /\ next < Len(instructions)
  /\ rodata_buffer' = rodata_buffer \o Encoded
  /\ starts' = Append(starts, Len(rodata_buffer))
  /\ current_address' = current_address + Size(next + 1)
  /\ next' = next + 1
  /\ UNCHANGED <<labels, use_stdlib, pass, offset, rodata_index, addresses, text_buffer, file>>

-----------------------------------------------------------------------------
(* The file: headers, code and library, padding, constants. *)

Section(name, size) == [name |-> name, size |-> size]
Segment(at, size) == [offset |-> at, vaddr |-> BASE_VADDR + at, size |-> size]
EntryPoint == Target(<<"main", 0>>)

WriteFile ==
  /\ pass = "rodata" /\ next = Len(instructions) /\ Holding(EntryPoint) # {}
  /\ LET text_size == offset[rodata_index + 1]
         rodata_size == offset[next + 1] - text_size
         text_file_size == FileSizeOfText(text_size)
         rodata_offset == align_up(text_file_size, PageSize)
     IN  file' = [entry |-> find_label_address(EntryPoint),
                  segments |-> <<Segment(0, text_file_size), Segment(rodata_offset, rodata_size)>>,
                  sections |-> <<Section("headers", CODE_OFFSET),
                                 Section("text", text_size),
                                 Section("library", text_file_size - CODE_OFFSET - text_size),
                                 Section("padding", rodata_offset - text_file_size),
                                 Section("rodata", rodata_size)>>]
  /\ pass' = "written"
  /\ UNCHANGED <<labels, use_stdlib, offset, rodata_index, addresses, buffers>>

LayoutNext ==
  /\ \/ calculate_sizes \/ compute_labels_addresses
     \/ EncodeText \/ LabelNotFound \/ BeginRodata \/ EncodeRodata
     \/ WriteFile
  /\ UNCHANGED instructions

LayoutSpec == LayoutInit /\ [][LayoutNext]_<<instructions, labels, layout_vars>>

-----------------------------------------------------------------------------
(* Properties. *)

(* The two files agree: the address an instruction is encoded for is the     *)
(* address its bytes get, and the bytes of the code and of the constants     *)
(* fill the buffers that were allocated from the sizes and never more.       *)
BytesMatchSizes ==
  LET text_size == offset[rodata_index + 1]
  IN  /\ pass = "text" =>
           /\ current_address = TextStart + Len(text_buffer)
           /\ Len(text_buffer) <= text_size
      /\ pass = "rodata" =>
           /\ current_address = RodataStart(text_size) + Len(rodata_buffer)
           /\ Len(text_buffer) = text_size
           /\ Len(rodata_buffer) <= offset[Len(instructions) + 1] - text_size

(* The address of a label is where the bytes of the instruction it stands    *)
(* before really begin, in the segment they really are in.                   *)
LabelsAtTheirCode ==
  \A j \in 1 .. Len(addresses) :
    LET index == labels[j].index
    IN  labels[j].label[1] \notin DOMAIN LibraryEntry /\ index < next =>
          addresses[j] = starts[index + 1] + (IF index < rodata_index THEN TextStart
                                              ELSE RodataStart(offset[rodata_index + 1]))
=============================================================================
