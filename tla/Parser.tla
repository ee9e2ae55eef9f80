------------------------------- MODULE Parser -------------------------------
(***************************************************************************)
(* The front end up to the tree: the tokenizer and the recursive descent   *)
(* of front_end/source/parser.c over the tokens it has read.               *)
(*                                                                         *)
(* The cursor *token and the messages printed so far go through every      *)
(* get_ function: it takes a state, of which it looks at `at`, and returns *)
(* one whose node is the new node, or Null.  Of a message the place is     *)
(* kept.  A node has its children as in the table of the README; an        *)
(* absent child is not added (node_add_child).                             *)
(***************************************************************************)
EXTENDS Tokens

CONSTANT Library    (* The name "my_stdlib".                                   *)

VARIABLE parsed     (* What get_prog has returned.                             *)

front_end_vars == <<token_vars, parsed>>

-----------------------------------------------------------------------------
(* Nodes: front_end/source/node_functions.c. *)

create_node(kind, op, num, kids) == [kind |-> kind, op |-> op, num |-> num, kids |-> kids]
Null == create_node("NULL", "NONE", <<>>, <<>>)
IsNull(node) == node.kind = "NULL"

List(kind, kids) == create_node(kind, "NONE", <<>>, kids)
Leaf(kind, num) == create_node(kind, "NONE", num, <<>>)
create_op_node(op, left, right) == create_node("OP", op, <<>>, <<left, right>>)
create_call_node(id, args) == create_node("CALL", "NONE", id, IF IsNull(args) THEN <<>> ELSE <<args>>)
create_function_node(id, params, body) == create_node("FUNC", "NONE", id, <<params, body>>)

node_add_child(parent, child) == [parent EXCEPT !.kids = Append(@, child)]

-----------------------------------------------------------------------------
(* Moving on. *)

Type(at_) == tokens[at_].type
Is(at_, code) == tokens[at_].code = code

Failed(s) == [s EXCEPT !.node = Null]
Next(s) == [s EXCEPT !.at = @ + 1]
With(s, node) == [s EXCEPT !.node = node]

report_error_on_token(s) ==
  LET place == tokens[s.at].position
  IN  [s EXCEPT !.node = Null, !.reports = Append(@, <<place.line, place.column>>)]

(* After the token before the cursor.                                        *)
report_error_after_token(s) ==
  LET place == tokens[s.at - 1].position
  IN  [s EXCEPT !.node = Null, !.reports = Append(@, <<place.line, place.column + place.length>>)]

(* Parsing goes on unless it has failed.                                     *)
Then(s, GoOn(_)) == IF IsNull(s.node) THEN s ELSE GoOn(s)

(* The token must be there, unless all has failed already.                   *)
CheckAndGoOn(s, code) == IF Is(s.at, code) THEN Next(s) ELSE With(report_error_after_token(s), s.node)
Check(s, code) == IF Is(s.at, code) THEN Next(s) ELSE report_error_after_token(s)
Expect(s, code) == Then(s, LAMBDA t : Check(t, code))

(* The same where nothing has been parsed yet.                               *)
Opened(s, code) == Expect(With(s, List("BODY", <<>>)), code)

get_id(s) ==
  IF Type(s.at) = "ID" THEN With(Next(s), Leaf("VAR", tokens[s.at].value)) ELSE Failed(s)
get_n(s) == With(Next(s), Leaf("NUM", tokens[s.at].value))

token_is_start_of_expr(at_) == Is(at_, "LEFT_PAREN") \/ Type(at_) \in {"NUM", "ID"}

-----------------------------------------------------------------------------
(* Expressions. *)

Levels == <<{"LOGIC_OR"}, {"LOGIC_AND"}, {"IS_EQUAL", "IS_NOT_EQUAL"},
            {"GREATER_EQUAL", "GREATER", "LESS_EQUAL", "LESS"}, {"ADD", "SUB"}, {"MUL", "DIV"}>>

RECURSIVE get_e(_), get_binary(_, _), MoreOperands(_, _), MoreOperandsRight(_, _), get_p(_), get_args(_), MoreArgs(_)

get_e(s) ==
  IF Type(s.at) = "ID" /\ Is(s.at + 1, "ASSIGN")
  THEN Then(get_e([s EXCEPT !.at = @ + 2]), LAMBDA value :
         With(value, create_op_node("ASSIGN", get_id(s).node, value.node)))
  ELSE get_binary(1, s)

(* get_or to get_mul_div: one operand of the next level, and more.           *)
get_binary(level, s) ==
  IF level > Len(Levels) THEN get_p(s) ELSE MoreOperands(level, get_binary(level + 1, s))

MoreOperandsRight(level, s) ==
  IF IsNull(s.node) \/ tokens[s.at].code \notin Levels[level] THEN s
  ELSE Then(get_binary(level, Next(s)), LAMBDA right :
         With(right, create_op_node(tokens[s.at].code, s.node, right.node)))

MoreOperands(level, s) ==
  IF IsNull(s.node) \/ tokens[s.at].code \notin Levels[level] THEN s
  ELSE Then(get_binary(level + 1, Next(s)), LAMBDA right :
         MoreOperands(level, With(right, create_op_node(tokens[s.at].code, s.node, right.node))))

(* get_args may have failed; what counts is the parenthesis.                 *)
CloseCall(args, id) ==
  IF Is(args.at, "RIGHT_PAREN")
  THEN With(Next(args), create_call_node(id, args.node))
  ELSE report_error_after_token(args)
get_call(s) == CloseCall(get_args([s EXCEPT !.at = @ + 2]), tokens[s.at].value)

get_p(s) ==
  CASE Is(s.at, "LEFT_PAREN") -> Expect(get_e(Next(s)), "RIGHT_PAREN")
    [] Type(s.at) = "NUM" -> get_n(s)
    [] Type(s.at) = "ID" /\ Is(s.at + 1, "LEFT_PAREN") -> get_call(s)
    [] OTHER -> get_id(s)

(* No expression is no argument, however much of it has been read.           *)
FirstArg(first) ==
  IF IsNull(first.node) THEN With(first, List("ARGS", <<>>))
  ELSE MoreArgs(With(first, List("ARGS", <<first.node>>)))
get_args(s) == FirstArg(get_e(s))

MoreArgs(s) ==
  IF ~Is(s.at, "COMMA") THEN s
  ELSE Then(get_e(Next(s)), LAMBDA arg : MoreArgs(With(arg, node_add_child(s.node, arg.node))))

-----------------------------------------------------------------------------
(* Statements. *)

(* A value that a token must follow.                                         *)
get_value(s, code) == Expect(get_e(s), code)

Initialised(name) ==
  CASE Is(name.at, "SEMMICOLON") -> With(Next(name), List("VAR_DECL", <<name.node>>))
    [] Is(name.at, "ASSIGN") ->
         Then(get_value(Next(name), "SEMMICOLON"), LAMBDA value :
           With(value, List("VAR_DECL", <<name.node, value.node>>)))
    [] OTHER -> report_error_after_token(name)
get_name(s) == IF Type(s.at) = "ID" THEN get_id(s) ELSE report_error_on_token(s)
get_var_declare(s) == Then(get_name(Next(s)), Initialised)

get_ret(s) ==
  IF Is(s.at + 1, "SEMMICOLON") THEN With(Next(Next(s)), List("RET", <<>>))
  ELSE Then(get_value(Next(s), "SEMMICOLON"), LAMBDA value :
         With(value, List("RET", <<value.node>>)))

get_break(s) ==
  Then(Opened(Next(s), "SEMMICOLON"), LAMBDA closed : With(closed, List("BREAK", <<>>)))

(* The condition of IF and WHILE, in parentheses.                            *)
get_condition(s) ==
  Then(Opened(Next(s), "LEFT_PAREN"), LAMBDA open : get_value(open, "RIGHT_PAREN"))

RECURSIVE get_block(_), MoreOps(_), get_op(_), get_if(_), get_while(_)

Else(cond, then) ==
  IF ~Is(then.at, "ELSE") THEN With(then, List("IF", <<cond.node, then.node>>))
  ELSE Then(get_block(Next(then)), LAMBDA else :
         With(else, List("IF", <<cond.node, then.node, [else.node EXCEPT !.kind = "ELSE"]>>)))
get_if(s) ==
  Then(get_condition(s), LAMBDA cond :
    Then(get_block(cond), LAMBDA then : Else(cond, then)))

get_while(s) ==
  Then(get_condition(s), LAMBDA cond :
    Then(get_block(cond), LAMBDA body :
      With(body, List("WHILE", <<cond.node, body.node>>))))

get_op(s) ==
  CASE Is(s.at, "IF") -> get_if(s)
    [] Is(s.at, "WHILE") -> get_while(s)
    [] Is(s.at, "VAR_DECL") -> get_var_declare(s)
    [] Is(s.at, "RET") -> get_ret(s)
    [] Is(s.at, "BREAK") -> get_break(s)
    [] OTHER -> get_value(s, "SEMMICOLON")

MoreOps(s) ==
  IF (Type(s.at) = "KEYWORD" /\ ~Is(s.at, "FUNC") /\ ~Is(s.at, "ELSE")) \/ token_is_start_of_expr(s.at)
  THEN Then(get_op(s), LAMBDA op : MoreOps(With(op, node_add_child(s.node, op.node))))
  ELSE s

get_block(s) ==
  Then(Opened(s, "LEFT_BRACE"), LAMBDA open : Expect(MoreOps(open), "RIGHT_BRACE"))

-----------------------------------------------------------------------------
(* Functions and the program. *)

RECURSIVE MoreParams(_), MoreIncludes(_), MoreFuncs(_)

MoreParams(s) ==
  IF ~Is(s.at, "COMMA") THEN s
  ELSE Then(get_id(Next(s)), LAMBDA param :
         MoreParams(With(param, node_add_child(s.node, param.node))))

get_params(s) ==
  IF Type(s.at) = "ID"
  THEN MoreParams(With(Next(s), List("ARGS", <<get_id(s).node>>)))
  ELSE MoreParams(With(s, List("ARGS", <<>>)))

get_func(s) ==
  Then(get_name(Next(s)), LAMBDA name :
    Then(Expect(name, "LEFT_PAREN"), LAMBDA open :
      Then(Expect(get_params(open), "RIGHT_PAREN"), LAMBDA params :
        Then(get_block(params), LAMBDA body :
          With(body, create_function_node(name.node.num, params.node, body.node))))))

MoreIncludes(s) ==
  IF Type(s.at) # "INCLUDE" THEN s
  ELSE MoreIncludes(With(Next(s), node_add_child(s.node, Leaf("INCLUDE", tokens[s.at].value))))

MoreFuncs(s) ==
  IF ~Is(s.at, "FUNC") THEN s
  ELSE Then(get_func(s), LAMBDA func : MoreFuncs(With(func, node_add_child(s.node, func.node))))

(* What follows the functions is refused without a message.                  *)
AllRead(includes, functions) ==
  IF Is(functions.at, "PROGRAM_END")
  THEN With(functions, List("PROG", <<includes.node, functions.node>>))
  ELSE Failed(functions)
get_prog(s) ==
  Then(MoreIncludes(With(s, List("INCLUDES", <<>>))), LAMBDA includes :
    Then(MoreFuncs(With(includes, List("FUNCTIONS", <<>>))), LAMBDA functions :
      AllRead(includes, functions)))

-----------------------------------------------------------------------------
NotParsed == [node |-> Null, at |-> 1, reports |-> <<>>]

FrontEndInit == TokensInit /\ parsed = NotParsed

tokens_to_tree ==
  /\ stage = "read"
  /\ parsed' = get_prog(NotParsed)
  /\ stage' = IF IsNull(parsed'.node) THEN "rejected" ELSE "accepted"
  /\ UNCHANGED <<text, at, position, identifiers, tokens, spans>>

FrontEndNext == (tokenization /\ UNCHANGED parsed) \/ tokens_to_tree

FrontEndSpec == FrontEndInit /\ [][FrontEndNext]_front_end_vars

-----------------------------------------------------------------------------
(* back_end/source/back_end_run.c: what the includes are for. *)

NameOfInclude(include) == identifiers[include.num[1] + 1]
tree_uses_stdlib_all(tree) == \A i \in 1 .. Len(tree.kids[1].kids) : NameOfInclude(tree.kids[1].kids[i]) = Library
tree_uses_stdlib(tree) ==
  \E i \in 1 .. Len(tree.kids[1].kids) : NameOfInclude(tree.kids[1].kids[i]) = Library

(* The includes of the text, by their tokens, and those that name the library.*)
Directives == {k \in 1 .. Len(tokens) : tokens[k].type = "INCLUDE"}
ForLibrary(k) ==
  \E i \in spans[k].from .. spans[k].upto :
    text[i] = "LESS" /\ Spelling(i + 1, spans[k].upto - 1) = Library

(* README 147, 398, 403: the library is linked exactly when a directive of   *)
(* the program names it.  The code breaks this: create_token keeps no number *)
(* for an include, so that all of them name what the first one does.         *)
LibraryLinked ==
  stage = "accepted" => (tree_uses_stdlib(parsed.node) <=> \E k \in Directives : ForLibrary(k))

(* The same promise without includes of several names: the library is never  *)
(* linked but by a directive that names it ("only", README 403), although    *)
(* back_end_run looks the number 0 up in the table; and it is linked when    *)
(* there are directives and all of them name it.                             *)
LinkedByDirective ==
  stage = "accepted" =>
    /\ tree_uses_stdlib(parsed.node) => \E k \in Directives : ForLibrary(k)
    /\ Directives # {} /\ (\A k \in Directives : ForLibrary(k)) => tree_uses_stdlib(parsed.node)
=============================================================================
