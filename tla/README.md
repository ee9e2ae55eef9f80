# A TLA+ model of the compiler

The repository is a compiler, written in C with a little C++ syntax, for a small
language whose keywords are those of a mathematical proof (`докажем`, `пусть`,
`сводится_к_предыдущему` ...). It turns one source file into NASM text or an
ELF64 executable. Everything in it is sequential; what makes it hard is that
five passes share conventions that no pass states: which slot of the frame a
variable has, how far `rsp` has moved, which loop a `break` leaves, how many
bytes an instruction takes.

Identifiers of the language are written in Latin letters in the modules:
`teorema` is `теорема`, `dano` is `дано`, `naydyotsya` is `найдётся`, `koren` is
`корень`.

## 1. Inventory

| Component | Source | State it keeps | Operations | What makes it correct |
|---|---|---|---|---|
| Tokenizer | `front_end/source/tokenization.c` | position, list of tokens, table of identifiers | `try_include`, `try_digit`, `try_op`, `try_keyword`, `try_spec`, `read_identifier` | longest match, exact line and column, one number per name, table not overrun |
| Parser | `front_end/source/parser.c` | the current token | one `get_*` function per rule | accepts the README's grammar; the tree has its precedence; every error leaves no tree |
| AST | `tree/tree.h`, `front_end/source/node_functions.c` | children of each node | create, add a child, destroy | children in order |
| Semantic analysis | `front_end/source/build_scopes.c` | chain of scopes; static counters of variables, slots and loops; annotations of the AST | `declare_*`, `seek_*`, `analyze_*` | static scoping, slots disjoint and inside the frame, the rules of the language |
| Middle end | `middle_end/source/simplifier.c` | the tree | `simplify_node` until nothing changes | ends; keeps the meaning |
| Code generator | `back_end/source/tree_to_instructions.c` | lists of instructions, labels and constants; counters; stack of loops | `gen_*` | the code computes what the tree means |
| Instruction lists | `back_end/source/instructions.c` | two growing arrays | push back | order kept |
| Binary back end | `back_end/source/instructions_to_bin/` | sizes, addresses, bytes | `get_instruction_size`, `compute_labels_addresses`, `encode_*` | a size is the number of bytes emitted; jumps land on labels; segments do not overlap |
| NASM back end | `back_end/source/instructions_to_nasm.c` | none | printing | local labels resolve |
| Library | `my_stdlib.asm` | registers, a buffer on the stack | `__out`, `__in` | calling convention |
| Driver | `main.c`, `*_run.c` | files, mode | the passes in order | an error stops the compilation |
| Dumps, messages | `*_dump.c`, `output.c`, `input.c` | none | printing | - |

Interactions are calls, through the tree and the two lists: the semantic
analysis annotates `stack_offset` and `frame_size`, which the generator trusts;
the generator writes labels by name, which the encoders resolve; generated code
calls the library by name. There is no concurrency, no persistence and no
retry. The hard behaviours are long sequences of legal constructs: nested
blocks, loops, temporaries and calls in any order, boundaries (array capacities,
8-bit displacements, NaN), and static variables that outlive the function they
count for. `PROJECT.json` lists the hazards, each at its line.

## 2. Modules

| Module | Models | Depends on |
|---|---|---|
| `Tree` | the nodes of an analysed program and their constructors | - |
| `Values` | numbers and the arithmetic of the processor | `Tree` |
| `Tokens` | `tokenization.c` | - |
| `Parser` | `parser.c`, `node_functions.c`, `front_end_run`, `tree_uses_stdlib` | `Tokens` |
| `Grammar` | reference: the grammar of the repository's README (recursive, TLC only) | `Parser` |
| `MCFrontEnd` | texts for TLC | `Grammar` |
| `TokensProofs` | theorems about `Tokens` | `Tokens`, TLAPS |
| `Binding` | abstract: static scoping as an environment with a stack of environments | - |
| `Scopes` | `build_scopes.c` | `Binding` (refinement) |
| `MCScopes` | constants for TLC | `Scopes` |
| `ScopesProofs` | theorems about `Scopes`, and that it implements `Binding` | `Scopes`, TLAPS |
| `Simplifier` | the middle end, `simplifier.c`, `middle_end_run.c` | `Language` |
| `MCSimplifier` | programs for TLC | `Simplifier` |
| `Stdlib` | `my_stdlib.asm`: the reading loop and the printed digits | - |
| `MCStdlib` | lines and numbers for TLC | `Stdlib` |
| `Instructions` | the two lists, operands and their constructors: `instructions.h`, `instructions.c` | - |
| `CodeGen` | `tree_to_instructions.c` | `Instructions` |
| `MCCodeGen` | small programs | `CodeGen` |
| `CodeGenSteps` | what every step of `CodeGen` does to the tasks, the counters and the lists (lemmas) | `CodeGen`, TLAPS |
| `CodeGenProofs` | theorems about the stack, the loops and the constants of `CodeGen` | `CodeGenSteps` |
| `CodeGenLabels` | theorems about the labels of `CodeGen` | `CodeGenProofs` |
| `CodeGenFlow` | how far `rsp` is below the saved `rbp` at every instruction that `CodeGen` emits (lemmas) | `CodeGenLabels` |
| `Execution` | generated code on an x86-64 processor, `my_stdlib.asm` at its interface | `CodeGen`, `Values` |
| `Language` | reference: what a program means (recursive, TLC only) | `Values` |
| `MCExecution` | programs and inputs for TLC | `MCCodeGen`, `Execution`, `Language` |
| `ExecutionProofs` | theorems about the frames of `Execution` | `Execution`, `CodeGenFlow` |
| `Encoding` | operators: the sizes of `compute_sizes.c`, the bytes of `encode_instructions.c` | - |
| `Layout` | `instructions_to_binary.c`: from any two lists to a file | `Encoding`, `Instructions` |
| `Decoder` | reference: what an x86-64 processor decodes | - |
| `BackEnd` | `back_end_run` in binary mode: the generator, then the layout | `CodeGen`, `Layout`, `Decoder` |
| `MCBackEnd` | programs around the limits of one byte | `BackEnd` |
| `BackEndProofs` | theorems about `Encoding`, `Layout` and `BackEnd` | `BackEnd`, `CodeGenLabels` |

### Tokens, Parser and Grammar

One turn of the loop of `tokenization` is one step; each `try_` function is an
action, `Overrun` is the write past the table of identifiers, after which the C
program has no defined state, so the model stops. A text is a sequence of units: a
keyword, an operator or a special symbol is one unit, with the number of its bytes in
`Bytes`, because no design in `tree.h` is the beginning of another and only
sizes depend on what is inside. A word that is an operator ends a name even in the middle.
`is_identifier_char` is true of keywords too, so a name may contain them
(`IdentifierUnits`). `spans` is history: where each token was in the text.

The parser is one step: `tokens_to_tree`. The cursor `*token` and the messages printed
go through the `get_` functions as a state; `Then` is the `if (!node) return nullptr`
that follows nearly every call. The six functions of the binary operators differ in
their operators only and are one operator with a level.

| Node | Children |
|---|---|
| `PROG` | includes, functions |
| `FUNC` | parameters (`ARGS`), body |
| `CALL` | `ARGS`, or none after a null list |
| `IF` | condition, body, and the `ELSE` if there is one |
| `WHILE` | condition, body |
| `VAR_DECL`, `RET` | as written, an absent child is not added |

`Grammar` gives the set of derivations of a stretch of tokens, straight from the EBNF
of the README (189-233): no cursor, no order of attempts, no lookahead.
`GrammarAccepted` says that the parser finds the tree of every derivation and that
there is only one; `AcceptedInGrammar` that it accepts nothing else without a message,
apart from the two gaps named below.

### Simplifier

A pass, `simplify_node` on the root, is one action. `rewrite` is the switch over
`kind` and `op`; `FirstTwo` the recursion at its end, which visits the first two
children of any node. A copy is never finished (`copy_node` uses the array of children
of a node before there is one): the build is instrumented against such accesses
(`Makefile:31`), so the step ends in `"crashed"`. `lost` is history: what the
rewritings may have changed on purpose, a dropped call or assignment or a number near
0.0 or 1.0 taken for it. Everything else must keep what the program prints, as `Language`
defines it (`MeaningKept`).

### Stdlib

A program that reads and prints in turn. A step of `__in` is one byte: `sys_read` and
the branch taken on what is in the buffer, which at the end of the input is still the
last byte, or at first whatever the stack held. A product with a power of 0.1 may be a
step off in either direction, at every digit. `__out` is the text it writes, through
two conversions to a register of `Width` bits and the unsigned divisions by ten; NaN and
what is out of range give the `Indefinite` integer. `Execution` has the other half of
the library: the calling convention, the registers it destroys, the stack.

### Scopes

The walk over the AST chooses the AST as it goes: an action is what the walk
does at one node, and every node that the parser may build there can come next, but
for the call without a list of arguments that it makes of `f(a, )`.
The recursion of the C functions is the sequence `scopes`; its elements are the
`scope_t` records that are open, each with the point (`at`) its function has
reached. `current_stack_offset`, `current_loop_depth` and `var_unique_id` are
the static variables of the file. Expressions are flattened to the references
and calls they contain, in the order the walk meets them: only those have an
effect. An error is returned through all callers at once (`Fail`); every caller
does nothing but destroy its scope.

`Binding` states what this machinery is for: each name has at most one meaning,
a block restores the meanings around it. `StaticScoping` is the refinement, with
`env` mapped to what `seek_var` finds for every name.

### CodeGen

The recursive walk of `gen_*` is the sequence `todo` of what remains to be done.
Generating a node replaces its task by the tasks of its children and the
instructions between them. `counters`, `while_stack` and the lists are the
fields of `instructions_context_t`. A label is a pair of a prefix and a number,
an operand a record with its kind; comments, which the generator also keeps in
the list, are left out. Task order is the C code's evaluation order: the
condition of a loop is generated twice, the right operand before the left,
the alignment decided before the arguments.

`Programs` may be any set of analysed programs. `ProgramsAssumption` says what
"analysed" means: the children that the generator reads without asking are there
(the parser returns no tree when an operand, a condition or a body is missing), no two
functions have one name and no two are entry points (both are counted in `build_scopes`;
proved of `Scopes` as `AcceptedPrograms`), a call names a function of the program or a built-in
(`analyze_expr`), and what is declared or assigned is a variable (`get_e` makes an assignment
only when an identifier was read), whose slot is at least 8 below `rbp` (`declare_var` adds
8 before it numbers a slot). `Nodes` names, for each program, the set its nodes are in, closed
under children, which is how a tree of any depth can be spoken of without recursion.

### Execution and Language

When generation is done the machine starts at the label `main` and executes the
instruction list. The processor is not part of the repository; its actions do
what the generator relies on. The stack is a function from addresses to words
that remember what they are (a number, a return address, a saved `rbp`, or
nothing yet), so that misuse of a word is a step that does not exist rather than
a wrong number. A call of the library overwrites the words it uses below `rsp`,
may change `xmm0` and the flags, and keeps `rsp` and `rbp`. `calls` is a history
variable: for each open call, what its return must restore.

`Language` evaluates the same AST directly, with slots of its own for every call,
and `SameOutput` compares what is printed. The order of evaluation of operands is
not in the language's description; the reference takes the generator's.

Numbers are integers and one NaN; `Compute` is the same function for both sides.
What is lost is rounding, infinities and signed zero; what is kept is which
operation is applied to which operands, in which order, and every outcome of a
comparison, the unordered one included. The value of `найдётся(x)` is
unspecified (the library destroys `xmm0`) and no program of the runs uses it.

### Encoding, Layout and BackEnd

`Encoding` has two halves because the code has: `get_instruction_size` decides in one
file how long an instruction is, `encode_instruction` decides again in another, and
each has its own `fits_in_int8`. Nothing in the code compares the two. A byte is a
number; the eight bytes of a double are abstract parts of its value, and a name of a
register stands for its number and size. Of a `uint32_t` difference only the low four
bytes are emitted, as in the code.

`Layout` goes through the passes of `instructions_to_binary`: sizes (one step per
instruction), addresses of all labels at once, bytes of the code, bytes of the
constants, the file. `offset` holds the sums of `encoded_size` that the code computes
again wherever it needs one. The assertion of `find_label_address` is the step
`LabelNotFound`: a program that calls the library without including it stops there.
The module starts from any lists in `Lists`, so that it can be proved about without
the generator; `BackEnd` starts it from what the generator leaves, with either answer
to `tree_uses_stdlib`.

`Decoder` is written from the processor's side (prefixes, opcode, ModRM, SIB,
displacement) and shares no definition with `Encoding`. `Disassembles` says that the
file, mapped to memory by its own program headers and decoded at the place of each
instruction, is the program the generator emitted: registers, displacements, values,
and for every jump, call and constant the place of what the name stands for.

## 3. Runs

Deadlock is not checked: all these systems stop when their work is done, or at an
assertion of the code.

| Run | Question | Bounds |
|---|---|---|
| `scopes` | Are slots disjoint, in the frame and where the calling convention puts them, is every reference bound as static scoping says, is the loop depth exact at every exit, and are only correct programs accepted? | 2 functions, 1 parameter, 2 declarations, 3 names (two names of the entry point, a built-in), 6 open scopes: a loop or branch inside a loop, shadowing across function, block, condition and loop, a second function after the first, two calls' worth of arities |
| `codegen` | Is what the generator keeps consistent while it walks, and are the lists it leaves? | all programs of `MCCodeGen`, `while_stack` of 2 with programs three loops deep |
| `execution` | Do loops, conditions, breaks, returns, recursion, expressions and calls do what they mean, leave the stack as they found it, and end? | 870 programs: two statements in a loop, each of which may leave it, or be a loop or a branch that does; every operator on equal, ordered and unordered operands; two operators over operands that read, assign and call; calls inside arguments inside temporaries; three inputs of up to three numbers |
| `binary` | Do sizes and bytes agree, are labels where their code is, and is the file the generated program? | calls with 14 to 17 arguments (words up to 128 above `rsp` and `rbp`, slots to 136 below `rbp`), frames of 104 to 152 bytes (112 is the last that is subtracted as one byte), every operator, loop, jump and library call; pages of 8 bytes and a library of 13, so that the code ends before, on and after the end of a page |
| `frontend` | Does every identifier keep its number and every token its place, does the table of identifiers overflow only when it must, and are exactly the programs of the grammar accepted, with its trees? | 21,489 texts, 209,351 states: all mixtures of four of eight kinds of characters, includes broken at every place, four names in any order with a table of two; all expressions of four tokens, all orders of three binary operators from every level, all lists of two arguments of two tokens; three programs with all statements and every edit (insertion, removal, replacement) of one token |
| `simplifier` | Do passes end, keep the meaning, and leave nothing to simplify where they look; and where do they stop the compiler? | every operator on constants equal or close to 0.0 and 1.0, a variable, an input, an assignment and a call; all pairs of six operators over five operands; foldable expressions at every place of a program, visited or not; three inputs |
| `stdlib` | Is every line read as its value whatever came before, does reading end, and is every number printed as it is? | every line of up to four of five bytes, four more, five continuations; two calls; twelve other numbers, NaN and those at the register's limits among them; 8 bits instead of 64, two decimals instead of six |
| `alignment`, `english_names`, `entry_called`, `include_lines`, `second_include` | Statements of the repository's README that the code does not keep | the smallest programs |

The programs are not random samples: `MCCodeGen` combines every construct with
every construct that can contain it and that shares a resource with it (the
stack, the labels, the stack of loops). Depth two is where nesting errors show:
a third level repeats the situation of the second inside a context that has the
same kinds of temporaries. 40 words of stack hold the deepest call chain; a
program that needed more would be reported by `NeverStuck`.

`scopes` bounds: an action of the walk depends on the innermost scope, the counters
and the declarations of the name at hand. Two declarations are a reference's own and
one it must not find; six scopes are two loops of a function in each other, the least
that tells the depth from a flag. Every property of the run is proved for all bounds
(section 4).

`frontend` bounds: a `try_` function looks at one token and the text right after it, and
what is carried from one token to the next is the table, the position and the pointer;
two entries and seven names produce every relation between a name and the table. The
parser looks one token ahead and at no more than the rule it is in, so one edit of
a correct program reaches every error return, and four tokens every wrong beginning and
end of an expression. The table of two entries stands for the table of 30: the code
compares names and counts, nothing else.

`stdlib` bounds: eight bits are enough for numbers of one to three digits and for
both ends of the range; the conversions are the same at 64, where the text is longer.

**Fairness.** `Simplifier` and `Stdlib` assume weak fairness of their next-state relation
for `PassesEnd` and `ReadingEnds`, on the same ground as the others: a single
sequential program keeps running. `ReadingEnds` promises an end only where a line feed
is still to be read, which the code needs. `CodeGen` and `Execution` assume weak fairness of the whole next-state
relation: the compiler and the processor are single sequential programs and keep
running. `Terminates` needs nothing else: the programs of the run end for every
input. `Scopes` and `Tokens` have no liveness property and no fairness.

### What the runs found

Five statements of the repository's documentation do not hold; each has a run
whose counterexample shows it.

- `alignment`: README 354 promises 16-byte alignment at calls. `gen_call` decides
  before it pushes the arguments, so an odd number of arguments misaligns the call.
- `english_names`: README 387 says that a user's function becomes `func_<id>`.
  `gen_call` also takes `out`, `in` and `sqrt` for built-ins, and the semantic
  analysis does not, so a user's function of that name is accepted and not called.
- `entry_called`: README 342 says that functions restore `rbp` and `rsp` and return.
  The entry point ends in a call of `__exit` even when it was called as a function.
- `include_lines`: README 418 promises the exact line of an error. `try_include` counts the
  line breaks inside an include (`tokenization.c:174`) and then sets the position back to where
  the include began (line 200), so after an include over two lines every line number is one too small.
  `PositionsExact` is the promise, from the text alone; `PositionsExactUnlessBroken`, which holds,
  is the same promise for tokens that no such include stands before.
- `second_include`: README 147, 398 and 403 say that `возьмём <my_stdlib>` links the
  library. `create_token` has no case for an include (`tokenization.c:401`), so each of them
  carries the number 0, the name of the first, and a library named after another one is not
  linked. `LibraryLinked` is the promise; `LinkedByDirective`, which holds, is what remains of it:
  no library without a directive that names it, and the library when all of them name it.

Other differences between the documentation and the code are the exceptions in the
properties that hold:

- `CrashesOnlyAtNeutral`: README 309-311 lists `x + 0`, `x - 0`, `x * 1` and `0 - x`.
  `copy_node` follows a null pointer at each of them (`simplifier.c:160`), and nothing
  else in the middle end does.
- `ReachedSimplified`: README 301 promises passes as long as anything can be simplified;
  only the first two children of a node are ever visited (`simplifier.c:126`), so the third
  statement of a block stays as it is.
- `AcceptedInGrammar`: the parser accepts `f(a +)` and `f(a, )` (`parser.c:658`), and a list of
  parameters that begins with a comma (`parser.c:179`). The first gives a call without arguments, the
  second a call without a list, whose missing child the semantic analysis follows
  (`build_scopes.c:494`). The property leaves such programs out: what else might be
  accepted among them is not checked. A program followed by other text is refused
  without any message (`parser.c:101`).
- `OverrunOnlyByNames`: the table of 30 names is written without a check
  (`tokenization.c:346`); the property says which programs are safe.
- `ReadingEnds`: at the end of the input `__in` never returns unless the last byte was a
  line feed (`my_stdlib.asm:134`).

## 4. Theorems

`ScopesProofs` proves the safety properties of `Scopes` for every value of the
constants, from `ConstantsAssumption` alone.

- `TypeCorrect` and `LoopDepthCorrect` come from one inductive invariant, the
  *shape* of the chain of scopes: the outermost scope is a function's, every scope
  but the innermost stands where a function calls another, and the loop depth is
  the number of loop bodies in the chain. Types alone are not inductive: that the
  unsigned depth does not go below zero when a loop ends needs the count, and the
  count needs the shape.
- `DisjointSlots`, `FrameCoversSlots` and `ParametersInPlace` come from a second one:
  the declarations of the function being analysed lie at or below the counter, its
  parameters are numbered by their slots, and functions already analysed have their
  frame. Disjointness holds because a new slot is above all earlier ones.
- `AcceptedPrograms` counts: `entry_point_count` is the number of entry points
  declared so far.

Lemmas state once what opening, closing and changing a scope does to the chain.

The second part of `ScopesProofs` shows that `Scopes` implements `Binding` (`ScopingIsStatic`). Under the
mapping, the meaning of a name is what a search of the whole chain finds, and the
meanings put aside for each open block are what a search of the chain around that block
finds (`PrefixMeaning`). So opening a scope changes no meaning (`EmptyOnTop`), closing one
brings back the meanings put aside with it (`PopStatic`), a declaration changes one
meaning in the innermost block only (`DeclareStatic`, from `SeekFound` and `SameSeek`), and
a reference is answered with the meaning at that moment. The rest of the walk
stutters, and the shape of the chain, proved before, is all that is needed of its
reachable states. The proof needs that the null pointer `NoDecl` is neither a declaration nor
a number (`NoDeclAssumption`): a name without a declaration must not look declared.

The first part of `BackEndProofs` shows that the binary back end is consistent, for all lists, page
sizes and sizes of the library (`ListsAssumption`, `SizesAssumption`).

- `SizeIsLength`: for every instruction that the encoders accept, with any operands
  and any addresses, the number of bytes emitted is the size counted. The proof has
  one lemma per family of encodings, on the lengths of their parts.
- `BytesAlwaysMatchSizes` and `LabelsAlwaysAtTheirCode` follow from one inductive
  invariant, `LayoutInv`: offsets are the sums of the sizes of accepted
  instructions, the buffers end at the offset of the next instruction, instructions
  begin at their offsets in their segment, labels have the address their offset
  gives. None of these parts is inductive alone: that the second buffer is not
  overrun needs that offsets never decrease, and that a label is right needs where
  its instruction began.

`TokensProofs` is about all texts over all alphabets and tables of any size
(`UnitsAssumption`, `TextsAssumption`, `BytesAssumption`: a space and a line break are one byte each).

- `TypeCorrect` and `IdentifiersNumbered` come from `TokensInv`: the pointer is in the
  text, no name is twice in the table, and every identifier has the number under which
  its name is there. That the pointer stays in the text needs that no loop
  skips the end (`FirstNotIn`, from the well-foundedness of the natural numbers), and that a step which registers
  two names, of an include that is none and of the identifier it is read as instead,
  keeps the table without duplicates (`TableAfterStep`).
- `OverrunNeedsNames` comes from `NamesInv`, which adds that every entry of the table is a
  name of the text, defined on the text alone, without a pointer. This is not inductive
  by itself: a name of the text is where a run of identifier characters begins, less the
  keywords before it, so it needs that the pointer never stands inside such a run
  (`Between`). The table, having no name twice, is an injection into the names, which
  gives the bound.
- `PositionsExactWithoutBrokenIncludes` is about the tokens that no include over several lines stands
  before; for the others the property fails (`include_lines`). It comes from `PlacesInv`, which says what
  is counted in every text: the line breaks that no include holds (`CountedBreaks`). Before such a
  token these are all the line breaks there are (`AllBreaksCounted`). At every step, and not
  only at the end, `position` is that of the pointer. The tokenizer counts a column by adding
  up what it skips and reads, the property measures from the last line break, so the proof
  is about sums and counts over stretches of the text. `SizeOf` is a recursive function; that
  it exists, that sizes add up (`SizesJoin`) and that spaces count one by one
  (`SizeOfSpaces`) is shown by induction over the set of lengths for which it holds
  (`AllNumbers`, from the least number outside of it). The invariant needs the places of all
  earlier tokens (`SpansRead`): a new include hides no line break before it.

`CodeGenProofs` and `CodeGenLabels` prove every property of the run `codegen` for all
analysed programs, however large, and any `WhileCapacity` (`ProgramsAssumption`,
`CapacityAssumption`, `UnitAssumption`). `CodeGenSteps` first reduces the twenty-odd `gen_` functions to a
few shapes of step (`StepCases`): a walk replaces a task by tasks that need no label, a
*construct* takes a number and places each of its labels once, the others emit, place or end.

- `NothingLeftOnStack` needs to know the future: `Offsets` says that the tasks still to be
  done bring the counted offset back to zero, with every statement, function and the end
  of the program at zero on the way. It is a statement about the running sum of the tasks
  (`Balanced`); a sequence that replaces a task is balanced between the same
  two values, so the invariant survives a replacement anywhere. An aligned call adds and
  takes back its eight bytes in the same sequence, which is why the alignment is
  decided by a counter that is right.
- `TypesKept` adds the bounds: that the offset is a natural number is a part of `Offsets`.
- `BreaksLeaveTheirLoop`: `Loops` pairs each element of `while_stack` with the place of
  the task that closes its loop, in the opposite order, and the task before that places
  the label of its end. The theorem counts the tasks; the pairing is what is inductive.
- `ConstantsShared`: constants are numbered in the order of their first use, so a new one
  has a new name, and it is only added when no holder was found.
- `NoLabelTwice`: `Unique` is about labels that stand and labels that tasks will place at once.
  No label is in both, a label with a number has one that was taken already, the labels
  of a function not yet begun are in neither. Conditions of loops are generated twice; they take
  new numbers the second time, which is what the bound by the counter captures.
- `EveryLabelExists`: `NamesResolved` keeps that whatever an instruction or a waiting task names
  is placed, will be placed, or is data or a function of the program. A `return` needs the end of
  the function in hand, so a statement is always followed by the task that places it.
- `LocalJumpsStay`: `InRegion` says, for a jump and its label, whichever comes first, that no label
  without a dot comes between: tasks that place or name a label with a dot are done before the
  next function is begun (`InOrder`), and a break, the only jump to a label that another
  task places, finds it pending.

The second part of `BackEndProofs` puts generator and layout together, for `BackEndSpec`: every analysed program, any page size that
divides the address the program is loaded at (`PagesAssumption`; 4096 does), any size of the library. It uses
the invariants of the generator and of the layout as they are and adds `Handover`: nothing is laid
out before the generator has finished, and what it leaves is unchanged until the labels of
the library are added. No invariant of the generator survives that step; what survives is
`Labelled`, that a label of the program is unique and stands before an instruction, which
is `NoLabelTwice` and the bounds at the moment of the handover.

- `GeneratedBytesMatch` and `GeneratedLabelsAtCode` are the theorems about `Layout` for
  the lists that are really generated.
- `FileLoads`: the constants begin on the first page after the code, so the segments share none, and offset
  and address agree within a page because both differ from a whole page alike. That execution
  begins at main needs all of the above: one label has its name (`Labelled`), its address is
  where its bytes begin in their segment (`LabelsFromInvariant`), and the bytes of an instruction lie inside
  the segment the loader maps (`Loaded`), since no instruction has size zero (`SizePositive`).

`ExecutionProofs` is about the program at run time, for `ExecSpec`: every analysed program, every
input, any size of the stack (`StackAssumption`). What the processor does is decided by code that was emitted
one piece at a time, so the proof has two parts.

- `CodeGenFlow` annotates the code. Before each instruction stands how many bytes `rsp` is below the
  word where the caller's `rbp` is saved, -2 at the entry of a function and -1 after the push; `Passes` says
  which pairs of annotations an instruction may stand between, and that a store through `rbp` or `rsp` stays
  below that word. A jump must find its own annotation at its label. The code before a
  backward or forward jump does not show it, so every label has a level, chosen when a construct
  takes its number; names that nothing has taken yet are what makes the choice free
  (`ConstructFlow`). `Flows` is the invariant: the code that is there can be annotated, and so can the tasks still
  to come, down to the level at which the program ends. A `break` is the jump that needs
  most: it is generated by a statement, at the level of the function's frame, and all
  loops end at that level.
- `Frames` says of the machine that each open call stands where the annotation says: the last at `pc`, the others
  after the call they made. Below the word where `rbp` was saved, the bases of the frames decrease, so what the
  running function or the library writes lies below everything that must be kept. With it each instruction
  is one lemma (`SteadySteps`, `StackSteps`, `CallStep`, `ReturnStep`).
- `ReturnAddressesSafe` and `EveryReturnRestores`, an action property, follow. Neither is inductive: that a
  return address survives a store needs where `rsp` and `rbp` are, that `rsp` is back
  at the return address when `ret` is reached needs what was saved in the word above, and
  both need the annotations of all the callers. The saved `rbp` of a caller is in `Frames`
  for the same reason.

Nothing is said there about `rsp` being a multiple of 16: that fails, as the run `alignment` shows.

The strengthened invariants were checked with TLC on the programs of the runs before they
were proved, as far as TLC can evaluate them: `Balanced`, which names a sequence of offsets by its
existence, was evaluated as the running sum of the tasks that are left.

Only model-checked: `Disassembles` (it is about the values that are encoded, and holds of
those that fit in the four bytes an encoder emits, not of every constant), everything
about `Execution` but its calls and returns (`NeverStuck` is about ENABLED, `SameOutput` about the
recursive `Language`), and all of `Parser`, `Simplifier` and `Stdlib`. Liveness and the recursive definitions (`Language`, `Parser`, `Grammar`,
`Simplifier`) are out of the prover's reach.

## 5. Plan

In this order, and done.

1. `Scopes`, `Binding`, `ScopesProofs`: the annotations every later pass trusts.
2. `Instructions`, `CodeGen`: the generator and its bookkeeping.
3. `Execution`, `Language`: generated code against the meaning of the program.
4. `Encoding`, `Layout`, `BackEnd`, and the first part of `BackEndProofs`: the executable.
5. `Simplifier`: the middle end against `Language`.
6. `Tokens`, `TokensProofs`: the tokenizer.
7. `Parser`, `Grammar`: recursive descent against the grammar.
8. `Stdlib`: the reading loop of `__in`, the digits of `__out`.
9. `CodeGenSteps`, `CodeGenProofs`, `CodeGenLabels`: invariants over `todo`.
10. The second parts of `ScopesProofs` and `BackEndProofs`: the refinement of `Binding` by
    `Scopes`, and the file for every program and page size.
11. `CodeGenFlow`, `ExecutionProofs`: the frames that `gen_func` opens and closes, as the
    processor runs them.
12. The last part of `TokensProofs`: lines and columns.

Next: `Disassembles` for the values that fit their encodings.

## 6. Not modelled

- The NASM printer, dumps and messages: text without a state. NASM's scoping of
  local labels is checked on the labels themselves (`LocalJumpsStayInFunction`).
- Memory management of nodes, lists and scopes, except where the middle end follows a
  null pointer.
- Infinities, signed zero, and rounding beyond what `Values` and `Stdlib` state.
- Reading and writing of files, and their errors: `main` opens, calls the passes one after
  the other and closes; there is no state between two of its calls that a property
  could be about.
