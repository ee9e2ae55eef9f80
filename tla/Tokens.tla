------------------------------- MODULE Tokens -------------------------------
(***************************************************************************)
(* The tokenizer, front_end/source/tokenization.c.  A step is one turn of  *)
(* the loop of tokenization.                                               *)
(*                                                                         *)
(* The text is a sequence of units: a letter (any character that has no    *)
(* other meaning), a digit, a dot, a space, a line break, the end, or the  *)
(* design of an operator, a special symbol, a keyword or the include, each *)
(* of them one unit named by its code.  No design begins with another one. *)
(* The units LESS and GREATER are also the borders of an include.          *)
(***************************************************************************)
EXTENDS Integers, Sequences, FiniteSets

CONSTANTS
  Letters,          (* The other characters.                                   *)
  Digits,           (* A sequence: the digits from 0 on.                       *)
  Bytes,            (* The number of bytes of each unit.                       *)
  Texts,            (* The programs, as sequences of units.                    *)
  MaxIdentifiers    (* MAX_NUMBER_OF_IDENTIFIERS.                              *)

Operators == {"ADD", "SUB", "MUL", "DIV", "IS_EQUAL", "ASSIGN", "LOGIC_OR", "LOGIC_AND",
              "IS_NOT_EQUAL", "GREATER_EQUAL", "GREATER", "LESS_EQUAL", "LESS"}
Specs == {"LEFT_BRACE", "RIGHT_BRACE", "LEFT_PAREN", "RIGHT_PAREN", "SEMMICOLON", "COMMA"}
Keywords == {"IF", "ELSE", "WHILE", "VAR_DECL", "RET", "BREAK", "FUNC"}
Spaces == {"space", "line"}
DigitUnits == {Digits[d] : d \in 1 .. Len(Digits)}
(* is_identifier_char.  Keywords and the include are made of such characters.*)
IdentifierUnits == Letters \cup DigitUnits \cup Keywords \cup {"dot", "INCLUDE"}
Units == IdentifierUnits \cup Operators \cup Specs \cup Spaces \cup {"end"}

(* A space and a line break are one byte each. *)
ASSUME BytesAssumption ==
  /\ \A unit \in Units : Bytes[unit] \in Nat
  /\ \A unit \in Spaces : Bytes[unit] = 1

ASSUME UnitsAssumption ==
  /\ MaxIdentifiers \in Nat
  /\ (Letters \cup DigitUnits) \cap (Operators \cup Specs \cup Keywords \cup Spaces \cup {"INCLUDE", "dot", "end"}) = {}

(* The end is where file_to_tokens has put it, or a dollar before that.      *)
ASSUME TextsAssumption ==
  \A t \in Texts : t \in Seq(Units) /\ t # <<>> /\ t[Len(t)] = "end"

VARIABLES
  text,         (* The buffer.                                                 *)
  at,           (* The pointer into it, as an index.                           *)
  position,     (* Line, column and the length of the last token, in bytes.    *)
  identifiers,  (* The table, from number 0 on: a sequence of names.           *)
  tokens,       (* The list of tokens.                                         *)
  spans,        (* History: where each token is in the text, [from, upto).     *)
  stage         (* "reading", "read", "syntax_error", or "overrun" when the    *)
                (* table has been written past its end.                        *)

token_vars == <<text, at, position, identifiers, tokens, spans, stage>>

-----------------------------------------------------------------------------
(* Finding one's way in the text. *)

FirstNot(S, from) ==
  CHOOSE i \in from .. Len(text) :
    text[i] \notin S /\ \A j \in from .. i - 1 : text[j] \in S

SizeOf(from, upto) ==
  LET size[i \in from .. upto] == IF i = from THEN 0 ELSE size[i - 1] + Bytes[text[i - 1]]
  IN  size[upto]

Spelling(from, upto) == SubSeq(text, from, upto - 1)

Start == FirstNot(Spaces, at)

(* skip_spaces: the position of Start.                                       *)
skip_spaces_kept_column ==
  [position EXCEPT !.line = @ + Cardinality({i \in at .. Start - 1 : text[i] = "line"}),
                   !.column = @ + Start - at]
skip_spaces ==
  LET breaks == {i \in at .. Start - 1 : text[i] = "line"}
      last == CHOOSE i \in breaks : \A j \in breaks : j <= i
  IN  IF breaks = {} THEN [position EXCEPT !.column = @ + Start - at]
      ELSE [position EXCEPT !.line = @ + Cardinality(breaks), !.column = Start - last]

-----------------------------------------------------------------------------
(* What may stand at Start. *)

(* Digits, and once among them, after the first, a dot.                      *)
EndOfNumber ==
  LET whole == FirstNot(DigitUnits, Start)
  IN  IF text[whole] = "dot" THEN FirstNot(DigitUnits, whole + 1) ELSE whole

IsNumber == text[Start] \in DigitUnits /\ text[EndOfNumber] \notin IdentifierUnits

(* sscanf: the first number over ten to the second.                          *)
sscanf(spelling) ==
  LET IsDigit(unit) == unit # "dot"
      digits == SelectSeq(spelling, IsDigit)
      value[i \in 0 .. Len(digits)] ==
        IF i = 0 THEN 0 ELSE 10 * value[i - 1] + (CHOOSE d \in 0 .. 9 : Digits[d + 1] = digits[i])
      fraction == {i \in 1 .. Len(spelling) : \E j \in 1 .. i - 1 : spelling[j] = "dot"}
  IN  <<value[Len(digits)], Cardinality(fraction)>>

StartsIdentifier(from) == text[from] \in IdentifierUnits \ DigitUnits
EndOfIdentifier(from) == FirstNot(IdentifierUnits, from)

(* try_include: the word, spaces, a border, a name, a border.                *)
LeftBorder == FirstNot(Spaces, Start + 1)
RightBorder == EndOfIdentifier(LeftBorder + 1)
NamesLibrary ==
  text[Start] = "INCLUDE" /\ text[LeftBorder] = "LESS" /\ StartsIdentifier(LeftBorder + 1)
IsInclude == NamesLibrary /\ text[RightBorder] = "GREATER"
LibraryName == Spelling(LeftBorder + 1, RightBorder)

IsIdentifier ==
  StartsIdentifier(Start) /\ text[Start] \notin Keywords /\ ~IsInclude

-----------------------------------------------------------------------------
(* The table: read_identifier. *)

SameBeginning(known, name) == Len(name) <= Len(known) /\ SubSeq(known, 1, Len(name)) = name
SameName(known, name) == known = name

Known(table, name) == {i \in 1 .. Len(table) : SameName(table[i], name)}

KnownLast(table, name) == {i \in {Len(table)} \ {0} : SameName(table[i], name)}
read_identifier_last(table, name) ==
  IF KnownLast(table, name) = {} THEN Append(table, name) ELSE table
read_identifier(table, name) ==
  IF Known(table, name) = {} THEN Append(table, name) ELSE table

IdNumber(table, name) == (CHOOSE i \in Known(table, name) : \A j \in Known(table, name) : i <= j) - 1

(* The name of an include stays in the table when the include is not one.    *)
TableAfterInclude ==
  IF NamesLibrary THEN read_identifier(identifiers, LibraryName) ELSE identifiers

TableAfterToken ==
  IF IsIdentifier
  THEN read_identifier(TableAfterInclude, Spelling(Start, EndOfIdentifier(Start)))
  ELSE TableAfterInclude

OverrunsLate == Len(TableAfterToken) > MaxIdentifiers + 1
Overruns == Len(TableAfterToken) > MaxIdentifiers

-----------------------------------------------------------------------------
TokensInit ==
  /\ text \in Texts
  /\ at = 1
  /\ position = [line |-> 1, column |-> 1, length |-> 0]
  /\ identifiers = <<>>
  /\ tokens = <<>>
  /\ spans = <<>>
  /\ stage = "reading"

create_token(type, code, value, place) ==
  [type |-> type, code |-> code, value |-> value, position |-> place]

(* A try_ function succeeds and tokenization goes on after the token.        *)
list_push_back(type, code, value, upto) ==
  LET place == [skip_spaces EXCEPT !.length = SizeOf(Start, upto)]
  IN  /\ tokens' = Append(tokens, create_token(type, code, value, place))
      /\ spans' = Append(spans, [from |-> Start, upto |-> upto])
      /\ position' = [place EXCEPT !.column = @ + place.length]
      /\ at' = upto
      /\ identifiers' = TableAfterToken
      /\ UNCHANGED <<text, stage>>

try_digit ==
  /\ stage = "reading" /\ IsNumber
  /\ list_push_back("NUM", "NONE", sscanf(Spelling(Start, EndOfNumber)), EndOfNumber)

(* The token keeps no number: create_token knows no INCLUDE.                 *)
try_include ==
  /\ stage = "reading" /\ IsInclude /\ ~Overruns
  /\ list_push_back("INCLUDE", "NONE", <<0>>, RightBorder + 1)

try_op ==
  /\ stage = "reading" /\ text[Start] \in Operators
  /\ list_push_back("OP", text[Start], <<>>, Start + 1)

try_spec ==
  /\ stage = "reading" /\ text[Start] \in Specs
  /\ list_push_back("SPEC", text[Start], <<>>, Start + 1)

try_keyword ==
  /\ stage = "reading" /\ text[Start] \in Keywords
  /\ list_push_back("KEYWORD", text[Start], <<>>, Start + 1)

try_identifier ==
  /\ stage = "reading" /\ IsIdentifier /\ ~Overruns
  /\ LET upto == EndOfIdentifier(Start)
     IN  list_push_back("ID", "NONE", <<IdNumber(TableAfterToken, Spelling(Start, upto))>>, upto)

Overrun ==
  /\ stage = "reading" /\ Overruns
  /\ stage' = "overrun"
  /\ UNCHANGED <<text, at, position, identifiers, tokens, spans>>

SyntaxError ==
  /\ stage = "reading" /\ text[Start] \in DigitUnits /\ ~IsNumber
  /\ stage' = "syntax_error"
  /\ UNCHANGED <<text, at, position, identifiers, tokens, spans>>

(* The last token has the length of the one before.                          *)
EndOfText ==
  /\ stage = "reading" /\ text[Start] = "end"
  /\ tokens' = Append(tokens, create_token("SPEC", "PROGRAM_END", <<>>, skip_spaces))
  /\ spans' = Append(spans, [from |-> Start, upto |-> Start])
  /\ position' = skip_spaces
  /\ at' = Start
  /\ stage' = "read"
  /\ UNCHANGED <<text, identifiers>>

tokenization ==
  \/ try_digit \/ try_include \/ try_op \/ try_spec \/ try_keyword \/ try_identifier
  \/ Overrun \/ SyntaxError \/ EndOfText

TokensSpec == TokensInit /\ [][tokenization]_token_vars

-----------------------------------------------------------------------------
(* Properties. *)

(* The pointer never leaves the text and the table never its memory: the     *)
(* tokenizer stops on the first name there is no room for.                   *)
TypeOK ==
  /\ at \in 1 .. Len(text)
  /\ identifiers \in Seq(Seq(Units))
  /\ Len(identifiers) <= MaxIdentifiers
  /\ Len(tokens) \in Nat /\ Len(spans) = Len(tokens)

NameOf(span) == Spelling(span.from, span.upto)

(* Two occurrences of an identifier have the same number exactly when they   *)
(* are spelled the same, whatever was registered between them, the names of  *)
(* includes that were none among it.                                         *)
IdentifiersOneToOne ==
  \A i, j \in 1 .. Len(tokens) :
    tokens[i].type = "ID" /\ tokens[j].type = "ID" =>
      (tokens[i].value = tokens[j].value <=> NameOf(spans[i]) = NameOf(spans[j]))

(* The longest runs of identifier characters, less the keywords they begin   *)
(* with, that do not begin with a digit; with the keywords after the border  *)
(* of an include.                                                            *)
Before(i) == {j \in 1 .. i - 1 : \A k \in j .. i - 1 : text[k] \in IdentifierUnits}
NameBegins(i) == StartsIdentifier(i) /\ \A j \in Before(i) : text[j] \in Keywords
AfterInclude(i) ==
  \E p \in 1 .. i - 2 :
    text[p] = "INCLUDE" /\ text[i - 1] = "LESS" /\ \A j \in p + 1 .. i - 2 : text[j] \in Spaces
NamePlaces ==
  {i \in 1 .. Len(text) : NameBegins(i) /\ (text[i] \notin Keywords \/ AfterInclude(i))}
Names == {Spelling(i, EndOfIdentifier(i)) : i \in NamePlaces}

(* The table of identifiers, to which read_identifier writes unchecked, is   *)
(* overrun by no program that has at most as many names as it has entries.   *)
OverrunOnlyByNames == stage = "overrun" => Cardinality(Names) > MaxIdentifiers

(* The lines of the text: each begins after a line break, or at 1.           *)
Breaks(from) == {i \in 1 .. from - 1 : text[i] = "line"}
LineStart(from) ==
  CHOOSE i \in 1 .. from : (i = 1 \/ i - 1 \in Breaks(from)) /\ \A j \in Breaks(from) : j < i

ExactPosition(token, span) ==
  /\ token.position.line = 1 + Cardinality(Breaks(span.from))
  /\ token.position.column = 1 + SizeOf(LineStart(span.from), span.from)
  /\ token.code # "PROGRAM_END" => token.position.length = SizeOf(span.from, span.upto)

(* README 418: every token keeps its position, so that a message has the     *)
(* exact line and column; in bytes.  The code breaks this: after an include  *)
(* try_include sets the position back to where it began.                     *)
PositionsExact ==
  stage # "reading" => \A k \in 1 .. Len(tokens) : ExactPosition(tokens[k], spans[k])

AfterBrokenInclude(k) ==
  \E j \in 1 .. Len(tokens) :
    /\ tokens[j].type = "INCLUDE" /\ spans[j].from < spans[k].from
    /\ \E i \in spans[j].from .. spans[j].upto - 1 : text[i] = "line"

(* The same promise for every token that no include written over several     *)
(* lines stands before: whatever spaces, line breaks, false includes and     *)
(* includes on one line there are, its line, column and length are exact.    *)
PositionsExactUnlessBroken ==
  stage # "reading" =>
    \A k \in 1 .. Len(tokens) : AfterBrokenInclude(k) \/ ExactPosition(tokens[k], spans[k])
=============================================================================
