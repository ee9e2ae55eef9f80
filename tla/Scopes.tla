------------------------------- MODULE Scopes -------------------------------
(***************************************************************************)
(* The semantic pass of the compiler, front_end/source/build_scopes.c:     *)
(* a recursive walk of the AST that keeps a chain of scopes, gives every   *)
(* declaration a unique number and an 8-byte slot of its function's frame, *)
(* binds every variable reference to a declaration, and rejects programs   *)
(* that break one of the semantic rules.                                   *)
(*                                                                         *)
(* The AST is chosen while it is walked: each action is what the walk does *)
(* at one node, and the next node may be any node the parser can build     *)
(* there.  The recursion of the C functions is the stack `scopes`: every   *)
(* call that opens a scope_t pushes one entry, which also remembers how    *)
(* far that call has got (`at`).  An expression is flattened to the        *)
(* variable references and calls it contains, in the order the walk meets  *)
(* them.                                                                   *)
(***************************************************************************)
EXTENDS Integers, Sequences, FiniteSets, FiniteSetsExt

CONSTANTS
  Id,            (* Identifier numbers: positions in the table of names.      *)
  EntryId,       (* Those whose name marks the entry point.                   *)
  Builtin,       (* Those that name an operation built into the language.     *)
  BuiltinArity,  (* How many arguments each built-in takes.                   *)
  NoDecl,        (* The null pointer that a failed search returns.            *)
  MaxFuncs,      (* Bound: functions of a program.                            *)
  MaxParams,     (* Bound: parameters of a function.                          *)
  MaxDecls,      (* Bound: variables and parameters declared in a program.    *)
  MaxScopes      (* Bound: scopes open at once.                               *)

ASSUME ConstantsAssumption ==
  /\ EntryId \subseteq Id
  /\ Builtin \subseteq Id
  /\ BuiltinArity \in [Builtin -> Nat]
  /\ MaxFuncs \in Nat /\ MaxParams \in Nat /\ MaxDecls \in Nat /\ MaxScopes \in Nat

VARIABLES
  result,                (* Where build_scopes is, and then what it returns.    *)
  prog_scope,            (* The functions declared so far, in program order.    *)
  entry_point_count,
  func,                  (* Index of the function being analysed.               *)
  param,                 (* How many of its parameters are declared.            *)
  scopes,                (* The chain of open scopes, the innermost last.       *)
  current_stack_offset,
  current_loop_depth,
  var_unique_id,
  decl_nodes,            (* The declaration nodes of the AST, as annotated.     *)
  frame_size,            (* The annotation of the functions already analysed.   *)
  var_node               (* The annotation of the last NODE_VAR looked up.      *)

counters == <<current_stack_offset, current_loop_depth, var_unique_id>>
annotations == <<decl_nodes, frame_size, var_node>>
program == <<prog_scope, entry_point_count>>
vars == <<result, program, func, param, scopes, counters, annotations>>

-----------------------------------------------------------------------------
(* Types. *)

DeclErrors == {"MULTIPLE_VAR_DECLARATION", "MULTIPLE_FUNC_DECLARATION"}
UseErrors == {"UNDECLARED_VARIABLE", "UNDECLARED_FUNCTION",
              "FUNC_WRONG_NUMBER_OF_ARGS", "BUILTIN_WRONG_NUMBER_OF_ARGS"}
ProgErrors == {"MISSING_ENTRY_POINT", "MULTIPLE_ENTRY_POINTS", "BREAK_OUTSIDE_LOOP"}
Errors == DeclErrors \cup UseErrors \cup ProgErrors
Results == {"declaring", "analyzing", "NO_ERROR"} \cup Errors

Func == [id : Id, params : Nat]

(* var_decl_t, with the function it belongs to and, for a parameter, its     *)
(* position (0 for a local variable).                                        *)
Decl == [func : Nat, param : Nat, id : Id, unique_id : Nat, stack_offset : Nat]

(* The null pointer is not the address of a declaration, nor a number.       *)
ASSUME NoDeclAssumption == NoDecl \notin Decl /\ NoDecl \notin Nat

Kinds == {"func", "block", "if", "while"}
Places == {"params", "body", "ops", "expr", "cond", "then", "else"}
Scope == [kind : Kinds, at : Places, decl_var : [Id -> Decl \cup {NoDecl}]]

-----------------------------------------------------------------------------
(* The chain of scopes. *)

Top == scopes[Len(scopes)]

Inside(kind, at) == scopes # <<>> /\ Top.kind = kind /\ Top.at = at

InExpr == Inside("block", "expr") \/ Inside("if", "cond") \/ Inside("while", "cond")

NewScope(kind, at) == [kind |-> kind, at |-> at, decl_var |-> [id \in Id |-> NoDecl]]

(* The caller has reached `at` and calls a function that opens a scope. *)
Call(at, scope) ==
  scopes' = Append([scopes EXCEPT ![Len(scopes)].at = at], scope)

MoveTo(at) == scopes' = [scopes EXCEPT ![Len(scopes)].at = at]

Pop == scopes' = SubSeq(scopes, 1, Len(scopes) - 1)

(* As if the search began at the outermost scope. *)
seek_var_outermost(chain, id) ==
  LET holders == {i \in 1 .. Len(chain) : chain[i].decl_var[id] # NoDecl}
  IN  IF holders = {} THEN NoDecl ELSE chain[Min(holders)].decl_var[id]

(* The first scope outwards whose list has the identifier decides.           *)
seek_var(chain, id) ==
  LET holders == {i \in 1 .. Len(chain) : chain[i].decl_var[id] # NoDecl}
  IN  IF holders = {} THEN NoDecl ELSE chain[Max(holders)].decl_var[id]

seek_func(id) == {i \in 1 .. Len(prog_scope) : prog_scope[i].id = id}

(* An error is returned through every caller, each destroying its scope.     *)
Fail(error) ==
  /\ result' = error
  /\ scopes' = <<>>
  /\ UNCHANGED <<program, func, param, counters, annotations>>

(* The mutation of current_loop_depth and the scopes apart, a step of the    *)
(* walk leaves everything as it was.                                         *)
OnlyMoves == UNCHANGED <<result, program, func, param, counters, annotations>>

-----------------------------------------------------------------------------
(* Declarations of functions and the entry point. *)

Init ==
  /\ result = "declaring"
  /\ prog_scope = <<>>
  /\ entry_point_count = 0
  /\ func = 0
  /\ param = 0
  /\ scopes = <<>>
  /\ current_stack_offset = 0
  /\ current_loop_depth = 0
  /\ var_unique_id = 0
  /\ decl_nodes = <<>>
  /\ frame_size = <<>>
  /\ var_node = NoDecl

FuncIsNew(id) == seek_func(id) = {}

declare_func(id, params) ==
  /\ result = "declaring"
  /\ Len(prog_scope) < MaxFuncs
  /\ \/ /\ FuncIsNew(id)
        /\ prog_scope' = Append(prog_scope, [id |-> id, params |-> params])
        /\ entry_point_count' = entry_point_count + (IF id \in EntryId THEN 1 ELSE 0)
        /\ UNCHANGED <<result, func, param, scopes, counters, annotations>>
     \/ ~FuncIsNew(id) /\ Fail("MULTIPLE_FUNC_DECLARATION")

(* As if several entry points were accepted. *)
EntryPointSome(count) == count > 0

EntryPointOk(count) == count = 1

CheckEntryPoint ==
  /\ result = "declaring"
  /\ \/ /\ EntryPointOk(entry_point_count)
        /\ result' = "analyzing"
        /\ UNCHANGED <<program, func, param, scopes, counters, annotations>>
     \/ /\ ~EntryPointOk(entry_point_count)
        /\ Fail(IF entry_point_count = 0 THEN "MISSING_ENTRY_POINT"
                                         ELSE "MULTIPLE_ENTRY_POINTS")

-----------------------------------------------------------------------------
(* analyze_func. *)

(* As if the offset were reset once per program instead of once per function. *)
StartOffsetKept == current_stack_offset

StartOffset == 0

BeginFunc ==
  /\ result = "analyzing" /\ scopes = <<>> /\ func < Len(prog_scope)
  /\ func' = func + 1
  /\ param' = 0
  /\ current_stack_offset' = StartOffset
  /\ current_loop_depth' = 0
  /\ scopes' = <<NewScope("func", "params")>>
  /\ UNCHANGED <<result, program, var_unique_id, annotations>>

(* As if the offset were stored before it is increased. *)
NextSlotUnmoved == current_stack_offset

NextSlot == current_stack_offset + 8

Redeclared(scope, id) == scope.decl_var[id] # NoDecl

(* declare_var: the new declaration goes to the innermost scope, whatever    *)
(* the scopes around it declare; the walk goes on at `at`.                   *)
declare_var(id, position, at) ==
  LET decl == [func |-> func, param |-> position, id |-> id,
               unique_id |-> var_unique_id, stack_offset |-> NextSlot]
      scope == [Top EXCEPT !.at = at, !.decl_var[id] = decl]
  IN  /\ ~Redeclared(Top, id)
      /\ var_unique_id < MaxDecls
      /\ scopes' = [scopes EXCEPT ![Len(scopes)] = scope]
      /\ current_stack_offset' = NextSlot
      /\ var_unique_id' = var_unique_id + 1
      /\ decl_nodes' = Append(decl_nodes, decl)
      /\ UNCHANGED <<result, program, func, current_loop_depth, frame_size, var_node>>

DeclareParam(id) ==
  /\ Inside("func", "params") /\ param < prog_scope[func].params
  /\ \/ declare_var(id, param + 1, "params") /\ param' = param + 1
     \/ Redeclared(Top, id) /\ Fail("MULTIPLE_VAR_DECLARATION")

BeginBody ==
  /\ Inside("func", "params") /\ param = prog_scope[func].params
  /\ Len(scopes) < MaxScopes
  /\ Call("body", NewScope("block", "ops"))
  /\ OnlyMoves

EndFunc ==
  /\ Inside("func", "body")
  /\ frame_size' = Append(frame_size, current_stack_offset)
  /\ Pop
  /\ UNCHANGED <<result, program, func, param, counters, decl_nodes, var_node>>

Finish ==
  /\ result = "analyzing" /\ scopes = <<>> /\ func = Len(prog_scope)
  /\ result' = "NO_ERROR"
  /\ UNCHANGED <<program, func, param, scopes, counters, annotations>>

-----------------------------------------------------------------------------
(* analyze_block and analyze_op. *)

(* As if the slots of a block were given back when it ends. *)
EndBlockFreesSlots ==
  /\ Inside("block", "ops")
  /\ current_stack_offset' = current_stack_offset - 8 * Cardinality({id \in Id : Redeclared(Top, id)})
  /\ Pop
  /\ UNCHANGED <<result, program, func, param, current_loop_depth, var_unique_id,
                 annotations>>

EndBlock ==
  /\ Inside("block", "ops")
  /\ Pop
  /\ OnlyMoves

(* The declaration comes into force before its initialiser is analysed.      *)
analyze_var_decl(id) ==
  /\ Inside("block", "ops")
  /\ \/ \E at \in {"ops", "expr"} : declare_var(id, 0, at) /\ UNCHANGED param
     \/ Redeclared(Top, id) /\ Fail("MULTIPLE_VAR_DECLARATION")

(* An expression statement, or the value of a return. *)
BeginExpr ==
  /\ Inside("block", "ops")
  /\ MoveTo("expr")
  /\ OnlyMoves

BreakAllowed(depth) == depth > 0

analyze_break ==
  /\ Inside("block", "ops")
  /\ ~BreakAllowed(current_loop_depth)
  /\ Fail("BREAK_OUTSIDE_LOOP")

analyze_if ==
  /\ Inside("block", "ops")
  /\ Len(scopes) < MaxScopes
  /\ Call("ops", NewScope("if", "cond"))
  /\ OnlyMoves

BeginThen ==
  /\ Inside("if", "cond")
  /\ Len(scopes) < MaxScopes
  /\ Call("then", NewScope("block", "ops"))
  /\ OnlyMoves

BeginElse ==
  /\ Inside("if", "then")
  /\ Len(scopes) < MaxScopes
  /\ Call("else", NewScope("block", "ops"))
  /\ OnlyMoves

EndIf ==
  /\ Inside("if", "then") \/ Inside("if", "else")
  /\ Pop
  /\ OnlyMoves

analyze_while ==
  /\ Inside("block", "ops")
  /\ Len(scopes) < MaxScopes
  /\ Call("ops", NewScope("while", "cond"))
  /\ OnlyMoves

BeginLoop ==
  /\ Inside("while", "cond")
  /\ Len(scopes) < MaxScopes
  /\ current_loop_depth' = current_loop_depth + 1
  /\ Call("body", NewScope("block", "ops"))
  /\ UNCHANGED <<result, program, func, param, current_stack_offset, var_unique_id,
                 annotations>>

(* As if leaving a loop cleared the depth instead of decreasing it. *)
LeaveLoopClears(depth) == 0

(* As if the depth were decreased twice: in analyze_while and by its caller. *)
LeaveLoopTwice(depth) == depth - 2

LeaveLoop(depth) == depth - 1

EndWhile ==
  /\ Inside("while", "body")
  /\ current_loop_depth' = LeaveLoop(current_loop_depth)
  /\ Pop
  /\ UNCHANGED <<result, program, func, param, current_stack_offset, var_unique_id,
                 annotations>>

-----------------------------------------------------------------------------
(* analyze_expr. *)

UseVar(id) ==
  /\ InExpr
  /\ LET decl == seek_var(scopes, id)
     IN  \/ /\ decl # NoDecl
            /\ var_node' = decl
            /\ UNCHANGED <<result, program, func, param, scopes, counters,
                           decl_nodes, frame_size>>
         \/ decl = NoDecl /\ Fail("UNDECLARED_VARIABLE")

(* A built-in name is recognised before the user's functions are searched.   *)
CallError(id, args) ==
  IF id \in Builtin
  THEN IF args = BuiltinArity[id] THEN "NO_ERROR" ELSE "BUILTIN_WRONG_NUMBER_OF_ARGS"
  ELSE IF seek_func(id) = {} THEN "UNDECLARED_FUNCTION"
  ELSE IF \E i \in seek_func(id) : prog_scope[i].params = args THEN "NO_ERROR"
  ELSE "FUNC_WRONG_NUMBER_OF_ARGS"

(* An accepted call changes nothing: its arguments are part of the expression. *)
UseFunc(id, args) ==
  /\ InExpr
  /\ CallError(id, args) # "NO_ERROR"
  /\ Fail(CallError(id, args))

EndExpr ==
  /\ Inside("block", "expr")
  /\ MoveTo("ops")
  /\ OnlyMoves

-----------------------------------------------------------------------------
Next ==
  \/ \E id \in Id, params \in 0 .. MaxParams : declare_func(id, params)
  \/ CheckEntryPoint \/ BeginFunc
  \/ \E id \in Id : DeclareParam(id)
  \/ BeginBody \/ EndFunc \/ Finish \/ EndBlock
  \/ \E id \in Id : analyze_var_decl(id)
  \/ BeginExpr \/ analyze_break
  \/ analyze_if \/ BeginThen \/ BeginElse \/ EndIf
  \/ analyze_while \/ BeginLoop \/ EndWhile
  \/ \E id \in Id : UseVar(id)
  \/ \E id \in Id, args \in 0 .. MaxParams : UseFunc(id, args)
  \/ EndExpr

Spec == Init /\ [][Next]_vars

-----------------------------------------------------------------------------
(* Properties. *)

(* Every variable has its type: the error codes are those above, and the     *)
(* unsigned counters of the C code never go below zero.                      *)
TypeOK ==
  /\ result \in Results
  /\ prog_scope \in Seq(Func)
  /\ entry_point_count \in Nat
  /\ func \in 0 .. Len(prog_scope)
  /\ param \in Nat
  /\ scopes \in Seq(Scope)
  /\ current_stack_offset \in Nat
  /\ current_loop_depth \in Nat
  /\ var_unique_id \in Nat
  /\ decl_nodes \in Seq(Decl)
  /\ frame_size \in Seq(Nat)
  /\ var_node \in Decl \cup {NoDecl}

(* No two variables of a function share a slot, in whatever blocks they are  *)
(* declared: a slot is never given out again when its block ends.            *)
SlotsDisjoint ==
  \A j, k \in 1 .. Len(decl_nodes) :
    /\ decl_nodes[j].func = decl_nodes[k].func
    /\ decl_nodes[j].stack_offset = decl_nodes[k].stack_offset
    => j = k

(* The frame annotated on a function (analyze_func) covers every slot given  *)
(* out in it, however deeply nested, so no variable lies below rsp.          *)
SlotsInFrame ==
  \A k \in 1 .. Len(decl_nodes) :
    LET d == decl_nodes[k]
    IN  d.func <= Len(frame_size) =>
          d.stack_offset > 0 /\ d.stack_offset <= frame_size[d.func]

(* The generator does not read the slots annotated on parameters: gen_func   *)
(* stores argument i at [rbp - 8i].  The annotation, which the references    *)
(* in the body use, is that same slot.                                       *)
ParamSlots ==
  \A k \in 1 .. Len(decl_nodes) :
    LET d == decl_nodes[k] IN d.param > 0 => d.stack_offset = 8 * d.param

LoopBodies(chain) ==
  {i \in 1 .. Len(chain) : chain[i].kind = "while" /\ chain[i].at = "body"}

(* The global loop depth is the number of loop bodies the walk is inside,    *)
(* through every exit from an inner loop or branch, so break is rejected     *)
(* exactly outside loops.                                                    *)
LoopDepthExact ==
  scopes # <<>> => current_loop_depth = Cardinality(LoopBodies(scopes))

EntryFuncs(funcs) == {i \in 1 .. Len(funcs) : funcs[i].id \in EntryId}

(* A program build_scopes accepts has one entry point, no function declared  *)
(* twice, and a frame for each of its functions.                             *)
AcceptedProgram ==
  result = "NO_ERROR" =>
    /\ Cardinality(EntryFuncs(prog_scope)) = 1
    /\ \A i, j \in 1 .. Len(prog_scope) : prog_scope[i].id = prog_scope[j].id => i = j
    /\ Len(frame_size) = Len(prog_scope)

(* The chain of scopes implements static scoping: a reference is annotated   *)
(* with the declaration that Binding gives to its name.                      *)
Number(decl) == IF decl = NoDecl THEN NoDecl ELSE decl.unique_id
Meaning(chain) == [id \in Id |-> Number(seek_var(chain, id))]

Static == INSTANCE Binding WITH
  Name <- Id,
  Unbound <- NoDecl,
  env <- Meaning(scopes),
  outer <- [i \in 1 .. Len(scopes) |-> Meaning(SubSeq(scopes, 1, i - 1))],
  next <- var_unique_id,
  answer <- Number(var_node)

StaticScoping == Static!Spec
=============================================================================
