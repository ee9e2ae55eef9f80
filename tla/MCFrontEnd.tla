----------------------------- MODULE MCFrontEnd -----------------------------
(***************************************************************************)
(* Texts for the front end.  Two letters give the names a, b, ab ...; the  *)
(* table of identifiers has two entries.                                   *)
(***************************************************************************)
EXTENDS Grammar

SomeLetters == {"a", "b"}
SomeDigits == <<"0", "1", "2", "3", "4", "5", "6", "7", "8", "9">>
SomeBytes ==
  [unit \in {"a", "b", "dot"} \cup {SomeDigits[d] : d \in 1 .. 10} \cup Spaces
            \cup Operators \cup Specs \cup Keywords \cup {"INCLUDE", "end"} |->
     CASE unit \in Operators \ {"LESS", "GREATER"} -> 3
       [] unit \in {"LEFT_BRACE", "RIGHT_BRACE", "SEMMICOLON", "b"} -> 2
       [] unit \in Keywords \cup {"INCLUDE"} -> 4
       [] OTHER -> 1]

TheLibrary == <<"b">>

Strings(S, n) == UNION {[1 .. k -> S] : k \in 0 .. n}
Ended(S) == {s \o <<"end">> : s \in S}

-----------------------------------------------------------------------------
(* Any units: numbers, names that begin with keywords or hold them, spaces.  *)
Mixtures ==
  Strings({"a", "b", "1", "dot", "space", "line", "IF", "ADD"}, 4)
  \cup {s \o <<"line", "a">> : s \in Strings({"a", "1", "2", "dot", "space"}, 4)}

(* Includes, well-formed or not, first or not, with line breaks inside.      *)
Includes ==
  {p \o <<"INCLUDE">> \o s \o t :
     p \in {<<>>, <<"a", "line">>, <<"INCLUDE", "LESS", "a", "GREATER">>},
     s \in Strings({"a", "b", "line", "LESS", "GREATER"}, 4),
     t \in {<<>>, <<"space", "a">>, <<"INCLUDE", "LESS", "b", "GREATER">>}}

(* Names in every order, up to one more than the table has room for, twice.  *)
SeveralNames ==
  {a \o <<"ADD">> \o b \o <<"space">> \o c \o <<"line">> \o d :
     a, b, c, d \in {<<"a">>, <<"b">>, <<"a", "b">>, <<"a", "IF">>, <<"IF", "b">>, <<"INCLUDE", "LESS", "b">>,
                    <<"INCLUDE", "LESS", "IF", "b">>}}

-----------------------------------------------------------------------------
(* Token by token: with a space after each of them.                          *)
Spaced(words) ==
  [i \in 1 .. 2 * Len(words) |-> IF i % 2 = 1 THEN words[(i + 1) \div 2] ELSE "space"]

InFunction(words) ==
  <<"FUNC", "b", "LEFT_PAREN", "RIGHT_PAREN", "LEFT_BRACE">> \o words \o <<"RIGHT_BRACE">>

(* Everything that could be an expression, and lists of such.                *)
Expressions ==
  LET Words == Strings({"a", "ADD", "MUL", "ASSIGN", "LEFT_PAREN", "RIGHT_PAREN", "COMMA"}, 4)
      Parts == Strings({"a", "1", "ADD", "LEFT_PAREN", "RIGHT_PAREN"}, 2)
      OneOfEach == {"ASSIGN", "LOGIC_OR", "LOGIC_AND", "IS_EQUAL", "LESS", "GREATER_EQUAL", "ADD", "SUB", "MUL"}
  IN  {InFunction(e \o <<"SEMMICOLON">>) : e \in
         Words
         \cup {<<"a", "LEFT_PAREN">> \o e \o <<"COMMA">> \o f \o <<"RIGHT_PAREN">> : e \in Parts, f \in Parts}
         \cup {<<"a", o, "b", p, "1", q, "a">> : o \in OneOfEach, p \in OneOfEach, q \in OneOfEach}}

(* Programs of the grammar ...                                               *)
Correct ==
  {<<"FUNC", "a", "LEFT_PAREN", "a", "COMMA", "b", "RIGHT_PAREN", "LEFT_BRACE",
     "RET", "SEMMICOLON", "RIGHT_BRACE",
     "FUNC", "b", "LEFT_PAREN", "RIGHT_PAREN", "LEFT_BRACE", "VAR_DECL", "a", "SEMMICOLON", "RIGHT_BRACE">>,
   InFunction(<<"IF", "LEFT_PAREN", "a", "RIGHT_PAREN", "LEFT_BRACE", "a", "ASSIGN", "1", "SEMMICOLON", "RIGHT_BRACE",
     "ELSE", "LEFT_BRACE", "BREAK", "SEMMICOLON", "RIGHT_BRACE", "RET", "a", "SEMMICOLON">>),
   InFunction(<<"WHILE", "LEFT_PAREN", "a", "LESS", "1", "RIGHT_PAREN", "LEFT_BRACE",
     "VAR_DECL", "a", "ASSIGN", "b", "LEFT_PAREN", "a", "COMMA", "1", "RIGHT_PAREN", "SEMMICOLON", "RIGHT_BRACE">>)}

(* ... and what becomes of them by one edit of one token.                    *)
AnyWord == {"a", "1", "ADD"} \cup Specs \cup Keywords
Edited(words) ==
  {SubSeq(words, 1, i - 1) \o new \o SubSeq(words, i + removed, Len(words)) :
     i \in 1 .. Len(words), removed \in 0 .. 1, new \in {<<>>} \cup {<<w>> : w \in AnyWord}}

Linked == <<"INCLUDE", "space", "LESS", "b", "GREATER", "line">>

SomeTexts ==
  Ended(Mixtures \cup Includes \cup SeveralNames
        \cup {Spaced(words) : words \in Expressions}
        \cup {Linked \o Spaced(words) : words \in UNION {Edited(words) : words \in Correct}})

-----------------------------------------------------------------------------
(* The include over two lines, before a statement without its semicolon.     *)
IncludeOverLines ==
  Ended({<<"INCLUDE", "line", "LESS", "b", "GREATER", "line">> \o Spaced(InFunction(<<"RET", "1">>))})

(* Two includes, the library's first or last, and a function.                *)
TwoIncludes ==
  LET Include(name) == <<"INCLUDE", "space", "LESS", name, "GREATER", "line">>
      Main == Spaced(InFunction(<<"RET", "SEMMICOLON">>))
  IN  Ended({Include("a") \o Include("b") \o Main, Include("b") \o Include("a") \o Main})
=============================================================================
