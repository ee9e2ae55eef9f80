------------------------------ MODULE Grammar ------------------------------
(***************************************************************************)
(* The grammar of the README (189-233), as the sets of the trees of the    *)
(* stretches [i, j) of the tokens, and what it promises of the parser.     *)
(***************************************************************************)
EXTENDS Parser

Precedence ==
  <<{"LOGIC_OR"}, {"LOGIC_AND"}, {"IS_EQUAL", "IS_NOT_EQUAL"},
    {"GREATER", "GREATER_EQUAL", "LESS", "LESS_EQUAL"}, {"ADD", "SUB"}, {"MUL", "DIV"}>>

(* The places in [i, j) where a token of the codes stands.                   *)
Places(codes, i, j) == {k \in i .. j - 1 : tokens[k].code \in codes}
Between(open, close, i, j) == i + 1 < j /\ Is(i, open) /\ Is(j - 1, close)
OneToken(type, i, j) == j = i + 1 /\ Type(i) = type
Prepended(firsts, rests) == {<<first>> \o rest : first \in firsts, rest \in rests}
Values(i) == tokens[i].value

-----------------------------------------------------------------------------
RECURSIVE Expression(_, _), Binary(_, _, _), Arguments(_, _), Parameters(_, _)

Expression(i, j) ==
  Binary(1, i, j)
  \cup IF i + 2 < j /\ Type(i) = "ID" /\ Is(i + 1, "ASSIGN")
       THEN {create_op_node("ASSIGN", Leaf("VAR", Values(i)), e) : e \in Expression(i + 2, j)}
       ELSE {}

Call(i, j) ==
  IF i + 2 < j /\ Type(i) = "ID" /\ Between("LEFT_PAREN", "RIGHT_PAREN", i + 1, j)
  THEN {create_call_node(Values(i), List("ARGS", args)) :
          args \in IF i + 3 = j THEN {<<>>} ELSE Arguments(i + 2, j - 1)}
  ELSE {}

Primary(i, j) ==
  (IF Between("LEFT_PAREN", "RIGHT_PAREN", i, j) THEN Expression(i + 1, j - 1) ELSE {})
  \cup (IF OneToken("NUM", i, j) THEN {Leaf("NUM", Values(i))} ELSE {})
  \cup (IF OneToken("ID", i, j) THEN {Leaf("VAR", Values(i))} ELSE {})
  \cup Call(i, j)

(* Operators of one level associate to the left.                             *)
Binary(level, i, j) ==
  IF i >= j THEN {}
  ELSE IF level > Len(Precedence) THEN Primary(i, j)
  ELSE Binary(level + 1, i, j)
       \cup UNION {{create_op_node(tokens[k].code, a, b) :
                      a \in Binary(level, i, k), b \in Binary(level + 1, k + 1, j)} :
                     k \in Places(Precedence[level], i, j)}

Arguments(i, j) ==
  Prepended(Expression(i, j), {<<>>})
  \cup UNION {Prepended(Expression(i, k), Arguments(k + 1, j)) : k \in Places({"COMMA"}, i, j)}

Parameters(i, j) ==
  IF OneToken("ID", i, j) THEN {<<Leaf("VAR", Values(i))>>}
  ELSE IF i + 1 < j /\ Type(i) = "ID" /\ Is(i + 1, "COMMA")
       THEN Prepended({Leaf("VAR", Values(i))}, Parameters(i + 2, j))
       ELSE {}

-----------------------------------------------------------------------------
RECURSIVE Block(_, _, _), Statements(_, _), Statement(_, _)

Block(kind, i, j) ==
  IF Between("LEFT_BRACE", "RIGHT_BRACE", i, j)
  THEN {List(kind, statements) : statements \in Statements(i + 1, j - 1)}
  ELSE {}

(* A statement ends with the mark of its end or with a block.                *)
Statements(i, j) ==
  IF i = j THEN {<<>>}
  ELSE UNION {Prepended(Statement(i, k + 1), Statements(k + 1, j)) :
                k \in Places({"SEMMICOLON", "RIGHT_BRACE"}, i, j)}

(* A word, a condition in parentheses, and the rest from k on.               *)
Headed(word, i, j, Rest(_, _)) ==
  IF i + 1 < j /\ Is(i, word) /\ Is(i + 1, "LEFT_PAREN")
  THEN UNION {{<<cond>> \o rest : cond \in Expression(i + 2, k), rest \in Rest(k + 1, j)} :
                k \in Places({"RIGHT_PAREN"}, i + 2, j)}
  ELSE {}

Branches(i, j) ==
  Prepended(Block("BODY", i, j), {<<>>})
  \cup UNION {Prepended(Block("BODY", i, k), Prepended(Block("ELSE", k + 1, j), {<<>>})) :
                k \in Places({"ELSE"}, i, j)}
Body(i, j) == Prepended(Block("BODY", i, j), {<<>>})

(* What stands between the word and the mark of the end.                     *)
Marked(i, j) ==
  CASE Is(i, "VAR_DECL") /\ OneToken("ID", i + 1, j) ->
         {List("VAR_DECL", <<Leaf("VAR", Values(i + 1))>>)}
    [] Is(i, "VAR_DECL") /\ i + 2 < j /\ Type(i + 1) = "ID" /\ Is(i + 2, "ASSIGN") ->
         {List("VAR_DECL", <<Leaf("VAR", Values(i + 1)), e>>) : e \in Expression(i + 3, j)}
    [] Is(i, "RET") -> IF i + 1 = j THEN {List("RET", <<>>)}
                       ELSE {List("RET", <<e>>) : e \in Expression(i + 1, j)}
    [] Is(i, "BREAK") -> IF i + 1 = j THEN {List("BREAK", <<>>)} ELSE {}
    [] OTHER -> Expression(i, j)

Statement(i, j) ==
  {List("IF", kids) : kids \in Headed("IF", i, j, Branches)}
  \cup {List("WHILE", kids) : kids \in Headed("WHILE", i, j, Body)}
  \cup (IF i + 1 < j /\ Is(j - 1, "SEMMICOLON") THEN Marked(i, j - 1) ELSE {})

-----------------------------------------------------------------------------
RECURSIVE Functions(_, _)

Function(i, j) ==
  IF i + 2 < j /\ Is(i, "FUNC") /\ Type(i + 1) = "ID" /\ Is(i + 2, "LEFT_PAREN")
  THEN UNION {{create_function_node(Values(i + 1), List("ARGS", params), body) :
                 params \in IF k = i + 3 THEN {<<>>} ELSE Parameters(i + 3, k),
                 body \in Block("BODY", k + 1, j)} :
                k \in Places({"RIGHT_PAREN"}, i + 3, j)}
  ELSE {}

Functions(i, j) ==
  IF i = j THEN {<<>>}
  ELSE UNION {Prepended(Function(i, k), Functions(k, j)) :
                k \in {n \in i + 1 .. j : n = j \/ Is(n, "FUNC")}}

Program(j) ==
  UNION {{List("PROG", <<List("INCLUDES", [n \in 1 .. k - 1 |-> Leaf("INCLUDE", Values(n))]),
                         List("FUNCTIONS", functions)>>) :
            functions \in Functions(k, j)} :
           k \in {n \in 1 .. j : \A m \in 1 .. n - 1 : Type(m) = "INCLUDE"}}

Derivations == IF stage \in {"accepted", "rejected"} THEN Program(Len(tokens)) ELSE {}

-----------------------------------------------------------------------------
(* Properties. *)

(* Every program of the grammar is accepted, with the tree the grammar gives *)
(* it, and the grammar gives it one tree only.                               *)
GrammarAccepted == \A tree \in Derivations : parsed.node = tree

(* Where an expression breaks off before a parenthesis, and where a list of  *)
(* parameters begins with a comma.                                           *)
Unfinished(k) ==
  \/ /\ Is(k + 1, "RIGHT_PAREN")
     /\ \/ Type(k) = "OP" \/ Is(k, "COMMA")
        \/ Is(k, "LEFT_PAREN") /\ (k = 1 \/ Type(k - 1) # "ID")
  \/ Is(k, "LEFT_PAREN") /\ Is(k + 1, "COMMA")

(* What is accepted is in the grammar and nothing was reported of it, except *)
(* for programs with an unfinished list: get_args takes what breaks off for  *)
(* no argument, or gives get_call no list at all.                            *)
AcceptedInGrammar ==
  stage = "accepted" /\ (\A k \in 1 .. Len(tokens) - 1 : ~Unfinished(k)) =>
    parsed.node \in Derivations /\ parsed.reports = <<>>
=============================================================================
