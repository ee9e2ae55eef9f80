---------------------------- MODULE TokensProofs ----------------------------
(***************************************************************************)
(* Theorems about the tokenizer, for all texts, alphabets and sizes of the *)
(* table of identifiers.                                                   *)
(***************************************************************************)
EXTENDS Tokens, FiniteSetTheorems, SequenceTheorems, WellFoundedInduction, TLAPS

-----------------------------------------------------------------------------
(* Ways through the text. *)

(* A set of numbers has a least element. *)
LEMMA LeastNumber ==
  ASSUME NEW S \in SUBSET Nat, S # {}
  PROVE  \E k \in S : \A j \in S : k <= j
<1>1. PICK k \in S : \A j \in S : ~(<<j, k>> \in OpToRel(<, Nat))
  BY WFMin, NatLessThanWellFounded, Zenon
<1>2. \A j \in S : k <= j
  <2> SUFFICES ASSUME NEW j \in S, j < k
               PROVE  FALSE
    OBVIOUS
  <2>1. <<j, k>> \in OpToRel(<, Nat)
    BY DEF OpToRel
  <2> QED
    BY <2>1, <1>1
<1> QED
  BY <1>2

(* The end is none of the characters that are skipped or gone through. *)
LEMMA EndIsNone ==
  /\ "end" \notin Spaces /\ "end" \notin DigitUnits /\ "end" \notin IdentifierUnits
  /\ "end" \notin Operators /\ "end" \notin Specs /\ "end" \notin Keywords
BY UnitsAssumption DEF Spaces, IdentifierUnits, Operators, Specs, Keywords

(* What tokens begin with tells them apart. *)
LEMMA KindsDisjoint ==
  /\ Operators \cap IdentifierUnits = {}
  /\ Specs \cap IdentifierUnits = {}
  /\ Spaces \cap IdentifierUnits = {}
  /\ "INCLUDE" \notin DigitUnits \cup Keywords \cup Operators \cup Specs
  /\ Keywords \cap DigitUnits = {}
BY UnitsAssumption DEF IdentifierUnits, Operators, Specs, Spaces, Keywords

LEMMA TextProperties ==
  ASSUME text \in Texts
  PROVE  /\ text \in Seq(Units) /\ Len(text) \in Nat \ {0}
         /\ text[Len(text)] = "end"
<1>1. text \in Seq(Units) /\ text # <<>> /\ text[Len(text)] = "end"
  BY TextsAssumption
<1> QED
  BY <1>1, EmptySeq

(* A loop over characters of S stops at the first other one, at the end of   *)
(* the text at the latest. *)
LEMMA FirstNotIn ==
  ASSUME text \in Texts, NEW S, "end" \notin S, NEW from \in 1 .. Len(text)
  PROVE  /\ FirstNot(S, from) \in from .. Len(text)
         /\ text[FirstNot(S, from)] \notin S
         /\ \A j \in from .. FirstNot(S, from) - 1 : text[j] \in S
<1> DEFINE Stops == {i \in from .. Len(text) : text[i] \notin S}
<1>1. Len(text) \in Nat /\ text[Len(text)] = "end"
  BY TextProperties
<1>2. Len(text) \in Stops /\ Stops \subseteq Nat
  BY <1>1
<1>3. PICK i \in Stops : \A j \in Stops : i <= j
  <2>1. Stops # {} /\ Stops \in SUBSET Nat
    BY <1>2
  <2> HIDE DEF Stops
  <2> QED
    BY <2>1, LeastNumber
<1>4. i \in from .. Len(text) /\ text[i] \notin S /\ \A j \in from .. i - 1 : text[j] \in S
  BY <1>1, <1>3
<1>5. \E k \in from .. Len(text) : text[k] \notin S /\ \A j \in from .. k - 1 : text[j] \in S
  BY <1>4
<1> QED
  BY <1>5 DEF FirstNot
-----------------------------------------------------------------------------
(* The table of identifiers. *)

Distinct(table) == \A i, j \in 1 .. Len(table) : table[i] = table[j] => i = j

(* read_identifier keeps the names and their numbers, knows the name after   *)
(* it, and has no name twice. *)
LEMMA ReadIdentifier ==
  ASSUME NEW table \in Seq(Seq(Units)), Distinct(table), NEW name \in Seq(Units)
  PROVE  LET read == read_identifier(table, name)
         IN  /\ read \in Seq(Seq(Units)) /\ Distinct(read)
             /\ Len(table) <= Len(read)
             /\ \A i \in 1 .. Len(table) : read[i] = table[i]
             /\ \A i \in 1 .. Len(read) : i \in 1 .. Len(table) \/ read[i] = name
             /\ \E n \in 1 .. Len(read) : read[n] = name /\ IdNumber(read, name) = n - 1
<1> DEFINE read == read_identifier(table, name)
<1>1. Len(table) \in Nat
  OBVIOUS
<1>2. /\ read \in Seq(Seq(Units)) /\ Distinct(read)
      /\ Len(table) <= Len(read)
      /\ \A i \in 1 .. Len(table) : read[i] = table[i]
      /\ \A i \in 1 .. Len(read) : i \in 1 .. Len(table) \/ read[i] = name
      /\ \E n \in 1 .. Len(read) : read[n] = name
  <2>1. CASE Known(table, name) = {}
    <3>1. read = Append(table, name)
      BY <2>1 DEF read_identifier
    <3>2. /\ read \in Seq(Seq(Units)) /\ Len(read) = Len(table) + 1
          /\ \A i \in 1 .. Len(table) : read[i] = table[i]
          /\ read[Len(table) + 1] = name
      BY <3>1, AppendProperties
    <3>3. \A i \in 1 .. Len(table) : table[i] # name
      BY <2>1 DEF Known, SameName
    <3> HIDE DEF read
    <3>4. \A i \in 1 .. Len(read) : i \in 1 .. Len(table) \/ i = Len(table) + 1
      BY <1>1, <3>2
    <3>5. Distinct(read)
      <4> SUFFICES ASSUME NEW i \in 1 .. Len(read), NEW j \in 1 .. Len(read), read[i] = read[j]
                   PROVE  i = j
        BY DEF Distinct
      <4>1. CASE i \in 1 .. Len(table) /\ j \in 1 .. Len(table)
        BY <3>2, <4>1 DEF Distinct
      <4>2. CASE i \in 1 .. Len(table) /\ j = Len(table) + 1
        BY <3>2, <3>3, <4>2
      <4>3. CASE i = Len(table) + 1 /\ j \in 1 .. Len(table)
        BY <3>2, <3>3, <4>3
      <4> QED
        BY <3>4, <4>1, <4>2, <4>3
    <3> QED
      BY <1>1, <3>2, <3>4, <3>5
  <2>2. CASE Known(table, name) # {}
    <3>1. read = table
      BY <2>2 DEF read_identifier
    <3>2. \E n \in 1 .. Len(table) : table[n] = name
      BY <2>2 DEF Known, SameName
    <3> QED
      BY <1>1, <3>1, <3>2
  <2> QED
    BY <2>1, <2>2
<1> HIDE DEF read
<1>3. PICK n \in 1 .. Len(read) : read[n] = name
  BY <1>2
<1>4. Known(read, name) = {n}
  BY <1>2, <1>3 DEF Known, SameName, Distinct
<1>5. IdNumber(read, name) = n - 1
  BY <1>4 DEF IdNumber
<1> QED
  BY <1>2, <1>3, <1>5 DEF read

(* A stretch of the text is a sequence of units. *)
LEMMA SpellingType ==
  ASSUME text \in Texts, NEW from \in 1 .. Len(text), NEW upto \in 1 .. Len(text)
  PROVE  Spelling(from, upto) \in Seq(Units)
<1>1. Len(text) \in Nat /\ text \in Seq(Units)
  BY TextProperties
<1>2. \A i \in from .. upto - 1 : text[i] \in Units
  BY <1>1, ElementOfSeq
<1>3. from \in Int /\ upto - 1 \in Int
  BY <1>1
<1> QED
  BY <1>2, <1>3, SubSeqProperties DEF Spelling

-----------------------------------------------------------------------------
(* Where a step begins and where it ends. *)

Reading == text \in Texts /\ at \in 1 .. Len(text)

LEMMA StartType ==
  ASSUME Reading
  PROVE  /\ Start \in at .. Len(text) /\ Start \in 1 .. Len(text)
         /\ text[Start] \notin Spaces /\ \A j \in at .. Start - 1 : text[j] \in Spaces
<1>1. /\ Start \in at .. Len(text) /\ text[Start] \notin Spaces
      /\ \A j \in at .. Start - 1 : text[j] \in Spaces
  BY EndIsNone, FirstNotIn DEF Reading, Start
<1>2. Len(text) \in Nat /\ at \in 1 .. Len(text)
  BY TextProperties DEF Reading
<1> QED
  BY <1>1, <1>2

(* After any character but the last one there is another one. *)
LEMMA NextInText ==
  ASSUME text \in Texts, NEW i \in 1 .. Len(text), text[i] # "end"
  PROVE  i + 1 \in 1 .. Len(text)
BY TextProperties

LEMMA IdentifierEnds ==
  ASSUME text \in Texts, NEW from \in 1 .. Len(text)
  PROVE  /\ EndOfIdentifier(from) \in from .. Len(text) /\ EndOfIdentifier(from) \in 1 .. Len(text)
         /\ text[EndOfIdentifier(from)] \notin IdentifierUnits
         /\ \A j \in from .. EndOfIdentifier(from) - 1 : text[j] \in IdentifierUnits
<1>1. Len(text) \in Nat
  BY TextProperties
<1>2. /\ EndOfIdentifier(from) \in from .. Len(text)
      /\ text[EndOfIdentifier(from)] \notin IdentifierUnits
      /\ \A j \in from .. EndOfIdentifier(from) - 1 : text[j] \in IdentifierUnits
  BY EndIsNone, FirstNotIn DEF EndOfIdentifier
<1> QED
  BY <1>1, <1>2

LEMMA NumberEnds ==
  ASSUME Reading, IsNumber
  PROVE  EndOfNumber \in 1 .. Len(text)
<1> DEFINE whole == FirstNot(DigitUnits, Start)
<1>1. Start \in 1 .. Len(text) /\ text \in Texts /\ Len(text) \in Nat
  BY StartType, TextProperties DEF Reading
<1>2. whole \in Start .. Len(text)
  BY <1>1, EndIsNone, FirstNotIn
<1>3. whole \in 1 .. Len(text)
  BY <1>1, <1>2
<1>4. EndOfNumber = IF text[whole] = "dot" THEN FirstNot(DigitUnits, whole + 1) ELSE whole
  BY DEF EndOfNumber
<1> HIDE DEF whole
<1>5. CASE text[whole] = "dot"
  <2>1. whole + 1 \in 1 .. Len(text)
    BY <1>1, <1>3, <1>5, NextInText
  <2>2. FirstNot(DigitUnits, whole + 1) \in whole + 1 .. Len(text)
    BY <1>1, <2>1, EndIsNone, FirstNotIn
  <2> QED
    BY <1>1, <1>4, <1>5, <2>1, <2>2
<1> QED
  BY <1>3, <1>4, <1>5

(* The name between the borders of an include, well-formed or not. *)
LEMMA IncludeNames ==
  ASSUME Reading, NamesLibrary
  PROVE  /\ LeftBorder \in Start + 1 .. Len(text)
         /\ LeftBorder + 1 \in 1 .. Len(text)
         /\ \A j \in Start + 1 .. LeftBorder - 1 : text[j] \in Spaces
         /\ RightBorder \in 1 .. Len(text)
         /\ LibraryName = Spelling(LeftBorder + 1, EndOfIdentifier(LeftBorder + 1))
<1>1. Start \in 1 .. Len(text) /\ text \in Texts /\ Len(text) \in Nat
  BY StartType, TextProperties DEF Reading
<1>2. text[Start] = "INCLUDE" /\ text[LeftBorder] = "LESS"
  BY DEF NamesLibrary
<1>3. Start + 1 \in 1 .. Len(text)
  BY <1>1, <1>2, NextInText
<1>4. /\ LeftBorder \in Start + 1 .. Len(text)
      /\ \A j \in Start + 1 .. LeftBorder - 1 : text[j] \in Spaces
  BY <1>1, <1>3, EndIsNone, FirstNotIn DEF LeftBorder
<1>5. LeftBorder \in 1 .. Len(text)
  BY <1>1, <1>4
<1>6. LeftBorder + 1 \in 1 .. Len(text)
  BY <1>1, <1>2, <1>5, NextInText
<1>7. RightBorder \in 1 .. Len(text)
  BY <1>1, <1>6, IdentifierEnds DEF RightBorder
<1> QED
  BY <1>4, <1>6, <1>7 DEF LibraryName, RightBorder
-----------------------------------------------------------------------------
(* What a step takes from the text. *)

(* The names among the identifiers and the includes are in the text, and the *)
(* table after a step holds the identifier that has been read. *)
LEMMA TableAfterStep ==
  ASSUME Reading, identifiers \in Seq(Seq(Units)), Distinct(identifiers)
  PROVE  /\ TableAfterToken \in Seq(Seq(Units)) /\ Distinct(TableAfterToken)
         /\ Len(identifiers) <= Len(TableAfterToken)
         /\ \A i \in 1 .. Len(identifiers) : TableAfterToken[i] = identifiers[i]
         /\ \A i \in 1 .. Len(TableAfterToken) :
              \/ i \in 1 .. Len(identifiers)
              \/ NamesLibrary /\ TableAfterToken[i] = LibraryName
              \/ IsIdentifier /\ TableAfterToken[i] = Spelling(Start, EndOfIdentifier(Start))
         /\ IsIdentifier =>
              LET name == Spelling(Start, EndOfIdentifier(Start))
              IN  \E n \in 1 .. Len(TableAfterToken) :
                    TableAfterToken[n] = name /\ IdNumber(TableAfterToken, name) = n - 1
<1> DEFINE first == TableAfterInclude
           name == Spelling(Start, EndOfIdentifier(Start))
           second == TableAfterToken
<1>1. Start \in 1 .. Len(text) /\ text \in Texts /\ Len(identifiers) \in Nat
  BY StartType DEF Reading
<1>2. name \in Seq(Units)
  BY <1>1, IdentifierEnds, SpellingType
<1>3. /\ first \in Seq(Seq(Units)) /\ Distinct(first)
      /\ Len(identifiers) <= Len(first)
      /\ \A i \in 1 .. Len(identifiers) : first[i] = identifiers[i]
      /\ \A i \in 1 .. Len(first) :
           i \in 1 .. Len(identifiers) \/ (NamesLibrary /\ first[i] = LibraryName)
  <2>1. CASE NamesLibrary
    <3>1. LibraryName \in Seq(Units)
      BY <1>1, <2>1, IncludeNames, IdentifierEnds, SpellingType
    <3> DEFINE read == read_identifier(identifiers, LibraryName)
    <3>2. first = read
      BY <2>1 DEF TableAfterInclude
    <3>3. /\ read \in Seq(Seq(Units)) /\ Distinct(read)
          /\ Len(identifiers) <= Len(read)
          /\ \A i \in 1 .. Len(identifiers) : read[i] = identifiers[i]
          /\ \A i \in 1 .. Len(read) : i \in 1 .. Len(identifiers) \/ read[i] = LibraryName
      BY <3>1, ReadIdentifier
    <3> HIDE DEF first, read
    <3> QED
      BY <2>1, <3>2, <3>3
  <2>2. CASE ~NamesLibrary
    <3>1. first = identifiers
      BY <2>2 DEF TableAfterInclude
    <3> HIDE DEF first
    <3> QED
      BY <1>1, <3>1
  <2> QED
    BY <2>1, <2>2
<1>4. second = IF IsIdentifier THEN read_identifier(first, name) ELSE first
  BY DEF TableAfterToken
<1> HIDE DEF first, second, name
<1>5. /\ second \in Seq(Seq(Units)) /\ Distinct(second)
      /\ Len(first) <= Len(second)
      /\ \A i \in 1 .. Len(first) : second[i] = first[i]
      /\ \A i \in 1 .. Len(second) : i \in 1 .. Len(first) \/ (IsIdentifier /\ second[i] = name)
      /\ IsIdentifier => \E n \in 1 .. Len(second) : second[n] = name /\ IdNumber(second, name) = n - 1
  <2>1. CASE IsIdentifier
    <3> DEFINE read == read_identifier(first, name)
    <3>1. second = read
      BY <1>4, <2>1
    <3>2. /\ read \in Seq(Seq(Units)) /\ Distinct(read)
          /\ Len(first) <= Len(read)
          /\ \A i \in 1 .. Len(first) : read[i] = first[i]
          /\ \A i \in 1 .. Len(read) : i \in 1 .. Len(first) \/ read[i] = name
          /\ \E n \in 1 .. Len(read) : read[n] = name /\ IdNumber(read, name) = n - 1
      BY <1>2, <1>3, ReadIdentifier
    <3> HIDE DEF read
    <3> QED
      BY <2>1, <3>1, <3>2
  <2>2. CASE ~IsIdentifier
    <3>1. second = first /\ Len(first) \in Nat
      BY <1>3, <1>4, <2>2
    <3> QED
      BY <1>3, <2>2, <3>1
  <2> QED
    BY <2>1, <2>2
<1>6. Len(first) \in Nat /\ Len(second) \in Nat
  BY <1>3, <1>5
<1>7. Len(identifiers) <= Len(second)
  BY <1>1, <1>3, <1>5, <1>6
<1>8. \A i \in 1 .. Len(identifiers) : i \in 1 .. Len(first)
  BY <1>1, <1>3, <1>6
<1>9. \A i \in 1 .. Len(identifiers) : second[i] = identifiers[i]
  BY <1>3, <1>5, <1>8
<1>10. \A i \in 1 .. Len(second) :
         \/ i \in 1 .. Len(identifiers)
         \/ NamesLibrary /\ second[i] = LibraryName
         \/ IsIdentifier /\ second[i] = name
  BY <1>3, <1>5
<1> QED
  BY <1>5, <1>7, <1>9, <1>10 DEF second, name

(* A step that reads no name leaves the table as it is. *)
LEMMA NoNameNoEntry ==
  ASSUME Reading, IsNumber \/ text[Start] \in Operators \cup Specs \cup Keywords
  PROVE  TableAfterToken = identifiers
<1>1. text[Start] # "INCLUDE" /\ ~(text[Start] \in IdentifierUnits \ (DigitUnits \cup Keywords))
  BY KindsDisjoint DEF IsNumber
<1>2. ~NamesLibrary /\ ~IsIdentifier
  BY <1>1 DEF NamesLibrary, IsIdentifier, StartsIdentifier
<1> QED
  BY <1>2 DEF TableAfterToken, TableAfterInclude

-----------------------------------------------------------------------------
(* The inductive invariant: every identifier has the number under which its  *)
(* name is in the table, and the table has no name twice. *)

Numbered ==
  \A k \in 1 .. Len(tokens) :
    tokens[k].type = "ID" =>
      \E n \in 1 .. Len(identifiers) :
        tokens[k].value = <<n - 1>> /\ identifiers[n] = NameOf(spans[k])

Lists ==
  /\ \E A : tokens \in Seq(A)
  /\ \E A : spans \in Seq(A)
  /\ Len(spans) = Len(tokens)

TokensInv ==
  /\ Reading
  /\ identifiers \in Seq(Seq(Units)) /\ Distinct(identifiers)
  /\ Len(identifiers) <= MaxIdentifiers
  /\ Lists
  /\ Numbered

(* One more element, whatever the elements are. *)
LEMMA AppendToAny ==
  ASSUME NEW s, \E A : s \in Seq(A), NEW e
  PROVE  /\ \E A : Append(s, e) \in Seq(A)
         /\ Len(s) \in Nat /\ Len(Append(s, e)) = Len(s) + 1
         /\ \A i \in 1 .. Len(s) : Append(s, e)[i] = s[i]
         /\ Append(s, e)[Len(s) + 1] = e
<1>1. PICK A : s \in Seq(A)
  OBVIOUS
<1>2. s \in Seq(A \cup {e})
  BY <1>1, SeqMonotonic
<1>3. e \in A \cup {e}
  OBVIOUS
<1>4. Append(s, e) \in Seq(A \cup {e})
  BY <1>2, <1>3, AppendProperties
<1> QED
  BY <1>2, <1>3, <1>4, AppendProperties

(* A token is appended together with its place in the text; if it is an      *)
(* identifier, it has the number of its name in the new table. *)
LEMMA OneMoreToken ==
  ASSUME TokensInv, UNCHANGED text,
         NEW token, NEW span,
         tokens' = Append(tokens, token), spans' = Append(spans, span),
         NEW table \in Seq(Seq(Units)), identifiers' = table,
         Len(identifiers) <= Len(table),
         \A i \in 1 .. Len(identifiers) : table[i] = identifiers[i],
         token.type = "ID" =>
           \E n \in 1 .. Len(table) : token.value = <<n - 1>> /\ table[n] = NameOf(span)
  PROVE  Lists' /\ Numbered'
<1>1. /\ \E A : tokens' \in Seq(A)
      /\ Len(tokens) \in Nat /\ Len(tokens') = Len(tokens) + 1
      /\ \A i \in 1 .. Len(tokens) : tokens'[i] = tokens[i]
      /\ tokens'[Len(tokens) + 1] = token
  <2>1. \E A : tokens \in Seq(A)
    BY DEF TokensInv, Lists
  <2>2. /\ \E A : Append(tokens, token) \in Seq(A)
        /\ Len(tokens) \in Nat /\ Len(Append(tokens, token)) = Len(tokens) + 1
        /\ \A i \in 1 .. Len(tokens) : Append(tokens, token)[i] = tokens[i]
        /\ Append(tokens, token)[Len(tokens) + 1] = token
    BY <2>1, AppendToAny, Zenon
  <2> QED
    BY <2>2
<1>2. /\ \E A : spans' \in Seq(A)
      /\ Len(spans) = Len(tokens) /\ Len(spans') = Len(spans) + 1
      /\ \A i \in 1 .. Len(spans) : spans'[i] = spans[i]
      /\ spans'[Len(spans) + 1] = span
  <2>1. \E A : spans \in Seq(A)
    BY DEF TokensInv, Lists
  <2>2. /\ \E A : Append(spans, span) \in Seq(A)
        /\ Len(spans) \in Nat /\ Len(Append(spans, span)) = Len(spans) + 1
        /\ \A i \in 1 .. Len(spans) : Append(spans, span)[i] = spans[i]
        /\ Append(spans, span)[Len(spans) + 1] = span
    BY <2>1, AppendToAny, Zenon
  <2>3. Len(spans) = Len(tokens)
    BY DEF TokensInv, Lists
  <2> QED
    BY <2>2, <2>3
<1>3. Lists'
  BY <1>1, <1>2 DEF Lists
<1>4. \A s : NameOf(s)' = NameOf(s)
  BY DEF NameOf, Spelling
<1>5. Numbered'
  <2> SUFFICES ASSUME NEW k \in 1 .. Len(tokens'), tokens'[k].type = "ID"
               PROVE  \E n \in 1 .. Len(table) :
                        tokens'[k].value = <<n - 1>> /\ table[n] = NameOf(spans'[k])
    BY <1>4 DEF Numbered, NameOf, Spelling
  <2>1. CASE k \in 1 .. Len(tokens)
    <3>1. tokens'[k] = tokens[k] /\ spans'[k] = spans[k]
      BY <1>1, <1>2, <2>1
    <3>2. PICK n \in 1 .. Len(identifiers) :
            tokens[k].value = <<n - 1>> /\ identifiers[n] = NameOf(spans[k])
      BY <2>1, <3>1 DEF TokensInv, Numbered
    <3>3. n \in 1 .. Len(table) /\ table[n] = identifiers[n]
      BY DEF TokensInv
    <3> QED
      BY <3>1, <3>2, <3>3
  <2>2. CASE k = Len(tokens) + 1
    BY <1>1, <1>2, <2>2
  <2>3. k \in 1 .. Len(tokens) \/ k = Len(tokens) + 1
    BY <1>1
  <2> QED
    BY <2>1, <2>2, <2>3
<1> QED
  BY <1>3, <1>5
-----------------------------------------------------------------------------
(* The invariant is inductive. *)

LEMMA InvInitially == TokensInit => TokensInv
<1> SUFFICES ASSUME TokensInit
             PROVE  TokensInv
  OBVIOUS
<1>1. text \in Texts /\ Len(text) \in Nat \ {0}
  BY TextProperties DEF TokensInit
<1>2. /\ at = 1 /\ identifiers = <<>> /\ tokens = <<>> /\ spans = <<>>
  BY DEF TokensInit
<1>3. Reading
  BY <1>1, <1>2 DEF Reading
<1>4. identifiers \in Seq(Seq(Units)) /\ Len(identifiers) = 0 /\ Distinct(identifiers)
  BY <1>2, EmptySeq DEF Distinct
<1>5. Lists /\ Len(tokens) = 0
  BY <1>2, EmptySeq DEF Lists
<1>6. Numbered
  BY <1>5 DEF Numbered
<1>7. Len(identifiers) <= MaxIdentifiers
  BY <1>4, UnitsAssumption
<1> QED
  BY <1>3, <1>4, <1>5, <1>6, <1>7 DEF TokensInv

(* Whichever try_ function succeeds: it reads up to a place in the text, and *)
(* an identifier has the number of its name. *)
LEMMA PushBack ==
  ASSUME TokensInv,
         NEW type, NEW code, NEW value, NEW upto \in 1 .. Len(text),
         list_push_back(type, code, value, upto),
         Len(TableAfterToken) <= MaxIdentifiers,
         type = "ID" =>
           \E n \in 1 .. Len(TableAfterToken) :
             value = <<n - 1>> /\ TableAfterToken[n] = Spelling(Start, upto)
  PROVE  TokensInv'
<1> DEFINE place == [skip_spaces EXCEPT !.length = SizeOf(Start, upto)]
           token == create_token(type, code, value, place)
           span == [from |-> Start, upto |-> upto]
           table == TableAfterToken
<1>1. /\ tokens' = Append(tokens, token) /\ spans' = Append(spans, span)
      /\ at' = upto /\ identifiers' = table /\ UNCHANGED text
  BY DEF list_push_back
<1>2. token.type = type /\ token.value = value
  BY DEF create_token
<1>3. NameOf(span) = Spelling(Start, upto)
  BY DEF NameOf
<1>4. /\ table \in Seq(Seq(Units)) /\ Distinct(table)
      /\ Len(identifiers) <= Len(table)
      /\ \A i \in 1 .. Len(identifiers) : table[i] = identifiers[i]
  BY TableAfterStep DEF TokensInv
<1>5. token.type = "ID" =>
        \E n \in 1 .. Len(table) : token.value = <<n - 1>> /\ table[n] = NameOf(span)
  BY <1>2, <1>3
<1>6. Len(table) <= MaxIdentifiers
  OBVIOUS
<1> HIDE DEF place, token, span, table
<1>7. Lists' /\ Numbered'
  BY <1>1, <1>4, <1>5, OneMoreToken
<1>8. Reading'
  BY <1>1 DEF TokensInv, Reading
<1>9. /\ identifiers' \in Seq(Seq(Units)) /\ Distinct(identifiers')
      /\ Len(identifiers') <= MaxIdentifiers
  BY <1>1, <1>4, <1>6
<1>10. Distinct(identifiers)'
  BY <1>9 DEF Distinct
<1> QED
  BY <1>7, <1>8, <1>9, <1>10 DEF TokensInv

LEMMA InvPreserved == TokensInv /\ [tokenization]_token_vars => TokensInv'
<1> SUFFICES ASSUME TokensInv, [tokenization]_token_vars
             PROVE  TokensInv'
  OBVIOUS
<1>1. /\ Reading /\ text \in Texts /\ Start \in 1 .. Len(text)
      /\ Len(identifiers) <= MaxIdentifiers
  BY StartType DEF TokensInv, Reading
<1>2. CASE try_digit
  <2>1. IsNumber /\ list_push_back("NUM", "NONE", sscanf(Spelling(Start, EndOfNumber)), EndOfNumber)
    BY <1>2 DEF try_digit
  <2>2. EndOfNumber \in 1 .. Len(text) /\ TableAfterToken = identifiers
    BY <1>1, <2>1, NumberEnds, NoNameNoEntry
  <2> QED
    BY <1>1, <2>1, <2>2, PushBack
<1>3. CASE try_include
  <2>1. IsInclude /\ ~Overruns /\ list_push_back("INCLUDE", "NONE", <<0>>, RightBorder + 1)
    BY <1>3 DEF try_include
  <2>2. RightBorder \in 1 .. Len(text) /\ text[RightBorder] = "GREATER"
    BY <1>1, <2>1, IncludeNames DEF IsInclude
  <2>3. RightBorder + 1 \in 1 .. Len(text)
    BY <1>1, <2>2, NextInText
  <2>4. Len(TableAfterToken) <= MaxIdentifiers
    BY <2>1, <1>1, TableAfterStep, UnitsAssumption DEF Overruns, TokensInv
  <2> QED
    BY <2>1, <2>3, <2>4, PushBack
<1>4. CASE try_op
  <2>1. text[Start] \in Operators /\ list_push_back("OP", text[Start], <<>>, Start + 1)
    BY <1>4 DEF try_op
  <2>2. Start + 1 \in 1 .. Len(text)
    BY <1>1, <2>1, EndIsNone, NextInText
  <2>3. TableAfterToken = identifiers
    BY <1>1, <2>1, NoNameNoEntry
  <2> QED
    BY <1>1, <2>1, <2>2, <2>3, PushBack
<1>5. CASE try_spec
  <2>1. text[Start] \in Specs /\ list_push_back("SPEC", text[Start], <<>>, Start + 1)
    BY <1>5 DEF try_spec
  <2>2. Start + 1 \in 1 .. Len(text)
    BY <1>1, <2>1, EndIsNone, NextInText
  <2>3. TableAfterToken = identifiers
    BY <1>1, <2>1, NoNameNoEntry
  <2> QED
    BY <1>1, <2>1, <2>2, <2>3, PushBack
<1>6. CASE try_keyword
  <2>1. text[Start] \in Keywords /\ list_push_back("KEYWORD", text[Start], <<>>, Start + 1)
    BY <1>6 DEF try_keyword
  <2>2. Start + 1 \in 1 .. Len(text)
    BY <1>1, <2>1, EndIsNone, NextInText
  <2>3. TableAfterToken = identifiers
    BY <1>1, <2>1, NoNameNoEntry
  <2> QED
    BY <1>1, <2>1, <2>2, <2>3, PushBack
<1>7. CASE try_identifier
  <2> DEFINE upto == EndOfIdentifier(Start)
             name == Spelling(Start, upto)
             number == IdNumber(TableAfterToken, name)
  <2>1. IsIdentifier /\ ~Overruns /\ list_push_back("ID", "NONE", <<number>>, upto)
    BY <1>7 DEF try_identifier
  <2>2. upto \in 1 .. Len(text)
    BY <1>1, IdentifierEnds
  <2>3. \E n \in 1 .. Len(TableAfterToken) : TableAfterToken[n] = name /\ number = n - 1
    BY <1>1, <2>1, TableAfterStep DEF TokensInv
  <2>4. Len(TableAfterToken) <= MaxIdentifiers
    BY <2>1, <1>1, TableAfterStep, UnitsAssumption DEF Overruns, TokensInv
  <2> HIDE DEF upto, number
  <2>5. \E n \in 1 .. Len(TableAfterToken) : <<number>> = <<n - 1>> /\ TableAfterToken[n] = name
    BY <2>3
  <2> QED
    BY <2>1, <2>2, <2>4, <2>5, PushBack
<1>8. CASE Overrun \/ SyntaxError \/ UNCHANGED token_vars
  <2>1. UNCHANGED <<text, at, identifiers, tokens, spans>>
    BY <1>8 DEF Overrun, SyntaxError, token_vars
  <2>2. Lists' /\ Reading' /\ Distinct(identifiers)'
    BY <2>1 DEF TokensInv, Lists, Reading, Distinct
  <2>3. Numbered'
    BY <2>1 DEF TokensInv, Numbered, NameOf, Spelling
  <2> QED
    BY <2>1, <2>2, <2>3 DEF TokensInv
<1>9. CASE EndOfText
  <2> DEFINE token == create_token("SPEC", "PROGRAM_END", <<>>, skip_spaces)
             span == [from |-> Start, upto |-> Start]
  <2>1. /\ tokens' = Append(tokens, token) /\ spans' = Append(spans, span)
        /\ at' = Start /\ UNCHANGED <<text, identifiers>>
    BY <1>9 DEF EndOfText
  <2>2. token.type # "ID"
    BY DEF create_token
  <2> HIDE DEF token, span
  <2>3. identifiers \in Seq(Seq(Units))
    BY DEF TokensInv
  <2>4. Len(identifiers) <= Len(identifiers)
    BY <2>3
  <2>5. Lists' /\ Numbered'
    BY <2>1, <2>2, <2>3, <2>4, OneMoreToken
  <2>6. Reading' /\ Distinct(identifiers)'
    BY <1>1, <2>1 DEF TokensInv, Reading, Distinct
  <2> QED
    BY <2>1, <2>5, <2>6 DEF TokensInv
<1> QED
  BY <1>2, <1>3, <1>4, <1>5, <1>6, <1>7, <1>8, <1>9 DEF tokenization

LEMMA InvAlways == TokensSpec => []TokensInv
<1>1. TokensInit => TokensInv
  BY InvInitially
<1>2. TokensInv /\ [tokenization]_token_vars => TokensInv'
  BY InvPreserved
<1> QED
  BY <1>1, <1>2, PTL DEF TokensSpec
-----------------------------------------------------------------------------
(* Names: what is in the table is in the text. *)

(* No keyword stands in the way before the next name: what comes before the  *)
(* pointer in its run of identifier characters are keywords. *)
Between ==
  text[at] \in IdentifierUnits => \A j \in Before(at) : text[j] \in Keywords

NamesInv ==
  /\ TokensInv
  /\ Between
  /\ \A n \in 1 .. Len(identifiers) : identifiers[n] \in Names
  /\ OverrunOnlyByNames

(* A character that is none of an identifier separates names. *)
LEMMA Separated ==
  ASSUME text \in Texts, NEW i \in 1 .. Len(text), i - 1 \in 1 .. Len(text),
         text[i - 1] \notin IdentifierUnits
  PROVE  Before(i) = {}
<1> SUFFICES ASSUME NEW j \in Before(i)
             PROVE  FALSE
  OBVIOUS
<1>1. j \in 1 .. i - 1 /\ \A k \in j .. i - 1 : text[k] \in IdentifierUnits
  BY DEF Before
<1>2. i - 1 \in j .. i - 1
  BY <1>1, TextProperties
<1> QED
  BY <1>1, <1>2

LEMMA BetweenAtStart ==
  ASSUME Reading, Between, text[Start] \in IdentifierUnits
  PROVE  \A j \in Before(Start) : text[j] \in Keywords
<1>1. /\ Start \in at .. Len(text) /\ Start \in 1 .. Len(text) /\ text \in Texts
      /\ at \in 1 .. Len(text) /\ Len(text) \in Nat
      /\ \A j \in at .. Start - 1 : text[j] \in Spaces
  BY StartType, TextProperties DEF Reading
<1>2. CASE Start = at
  BY <1>2 DEF Between
<1>3. CASE Start > at
  <2>1. Start - 1 \in at .. Start - 1 /\ Start - 1 \in 1 .. Len(text)
    BY <1>1, <1>3
  <2>2. text[Start - 1] \notin IdentifierUnits
    BY <1>1, <2>1, KindsDisjoint
  <2>3. Before(Start) = {}
    BY <1>1, <2>1, <2>2, Separated
  <2> QED
    BY <2>3
<1> QED
  BY <1>1, <1>2, <1>3

LEMMA IdentifierInText ==
  ASSUME Reading, Between, IsIdentifier
  PROVE  Spelling(Start, EndOfIdentifier(Start)) \in Names
<1>1. Start \in 1 .. Len(text)
  BY StartType
<1>2. StartsIdentifier(Start) /\ text[Start] \notin Keywords
  BY DEF IsIdentifier
<1>3. text[Start] \in IdentifierUnits
  BY <1>2 DEF StartsIdentifier
<1>4. NameBegins(Start)
  BY <1>2, <1>3, BetweenAtStart DEF NameBegins
<1>5. Start \in NamePlaces
  BY <1>1, <1>2, <1>4 DEF NamePlaces
<1> QED
  BY <1>5 DEF Names

LEMMA LibraryNameInText ==
  ASSUME Reading, NamesLibrary
  PROVE  LibraryName \in Names
<1> DEFINE i == LeftBorder + 1
<1>1. /\ Start \in 1 .. Len(text) /\ text \in Texts /\ Len(text) \in Nat
      /\ LeftBorder \in Start + 1 .. Len(text) /\ i \in 1 .. Len(text)
      /\ \A j \in Start + 1 .. LeftBorder - 1 : text[j] \in Spaces
      /\ LibraryName = Spelling(i, EndOfIdentifier(i))
  BY StartType, TextProperties, IncludeNames DEF Reading
<1>2. text[Start] = "INCLUDE" /\ text[LeftBorder] = "LESS" /\ StartsIdentifier(i)
  BY DEF NamesLibrary
<1>3. i - 1 = LeftBorder /\ LeftBorder \in 1 .. Len(text) /\ i - 2 = LeftBorder - 1
  BY <1>1
<1>4. text[i - 1] \notin IdentifierUnits
  BY <1>2, <1>3, KindsDisjoint DEF Operators
<1>5. Before(i) = {}
  BY <1>1, <1>3, <1>4, Separated
<1>6. NameBegins(i)
  BY <1>2, <1>5 DEF NameBegins
<1>7. AfterInclude(i)
  <2>1. Start \in 1 .. i - 2
    BY <1>1, <1>3
  <2>2. \A j \in Start + 1 .. i - 2 : text[j] \in Spaces
    BY <1>1, <1>3
  <2> QED
    BY <1>2, <1>3, <2>1, <2>2 DEF AfterInclude
<1>8. i \in NamePlaces
  BY <1>1, <1>6, <1>7 DEF NamePlaces
<1> HIDE DEF i
<1> QED
  BY <1>1, <1>8 DEF Names

(* The table after a step holds names of the text only. *)
LEMMA TableOfNames ==
  ASSUME NamesInv, NEW n \in 1 .. Len(TableAfterToken)
  PROVE  TableAfterToken[n] \in Names
<1>1. /\ Reading /\ Between /\ identifiers \in Seq(Seq(Units)) /\ Distinct(identifiers)
      /\ \A k \in 1 .. Len(identifiers) : identifiers[k] \in Names
  BY DEF NamesInv, TokensInv
<1>2. \/ n \in 1 .. Len(identifiers)
      \/ NamesLibrary /\ TableAfterToken[n] = LibraryName
      \/ IsIdentifier /\ TableAfterToken[n] = Spelling(Start, EndOfIdentifier(Start))
  BY <1>1, TableAfterStep
<1>3. CASE n \in 1 .. Len(identifiers)
  BY <1>1, <1>3, TableAfterStep
<1>4. CASE NamesLibrary /\ TableAfterToken[n] = LibraryName
  BY <1>1, <1>4, LibraryNameInText
<1>5. CASE IsIdentifier /\ TableAfterToken[n] = Spelling(Start, EndOfIdentifier(Start))
  BY <1>1, <1>5, IdentifierInText
<1> QED
  BY <1>2, <1>3, <1>4, <1>5

(* Where a token ends, the next name can begin, or keywords only have come   *)
(* before it. *)
LEMMA BetweenTokens ==
  ASSUME text \in Texts, NEW i \in 1 .. Len(text), i - 1 \in 1 .. Len(text),
         text[i - 1] \notin IdentifierUnits
  PROVE  \A j \in Before(i) : text[j] \in Keywords
BY Separated

LEMMA AfterKeyword ==
  ASSUME Reading, Between, text[Start] \in Keywords
  PROVE  \A j \in Before(Start + 1) : text[j] \in Keywords
<1>1. Start \in 1 .. Len(text) /\ text \in Texts /\ Len(text) \in Nat
  BY StartType, TextProperties DEF Reading
<1>2. text[Start] \in IdentifierUnits
  BY DEF IdentifierUnits
<1>3. \A j \in Before(Start) : text[j] \in Keywords
  BY <1>2, BetweenAtStart
<1> SUFFICES ASSUME NEW j \in Before(Start + 1)
             PROVE  text[j] \in Keywords
  OBVIOUS
<1>4. j \in 1 .. Start /\ \A k \in j .. Start : text[k] \in IdentifierUnits
  BY <1>1 DEF Before
<1>5. CASE j = Start
  BY <1>5
<1>6. CASE j # Start
  <2>1. j \in 1 .. Start - 1 /\ \A k \in j .. Start - 1 : text[k] \in IdentifierUnits
    BY <1>1, <1>4, <1>6
  <2>2. j \in Before(Start)
    BY <2>1 DEF Before
  <2> QED
    BY <1>3, <2>2
<1> QED
  BY <1>5, <1>6

-----------------------------------------------------------------------------
(* Sizes: a table of different names is no longer than the names are many. *)

LEMMA NamesFinite ==
  ASSUME text \in Texts
  PROVE  IsFiniteSet(Names) /\ Cardinality(Names) \in Nat
<1> DEFINE f == [i \in NamePlaces |-> Spelling(i, EndOfIdentifier(i))]
<1>1. Len(text) \in Nat
  BY TextProperties
<1>2. IsFiniteSet(1 .. Len(text))
  BY <1>1, FS_Interval
<1>3. NamePlaces \in SUBSET (1 .. Len(text))
  BY DEF NamePlaces
<1>4. IsFiniteSet(NamePlaces)
  BY <1>2, <1>3, FS_Subset
<1>5. f \in Surjection(NamePlaces, Names)
  BY DEF Surjection, Names
<1> HIDE DEF f
<1>6. IsFiniteSet(Names)
  BY <1>4, <1>5, FS_Surjection
<1> QED
  BY <1>6, FS_CardinalityType

LEMMA DifferentElements ==
  ASSUME NEW table, NEW S, table \in Seq(S), Distinct(table),
         NEW N, IsFiniteSet(N), \A n \in 1 .. Len(table) : table[n] \in N
  PROVE  Len(table) <= Cardinality(N)
<1>1. Len(table) \in Nat /\ table \in [1 .. Len(table) -> S]
  OBVIOUS
<1>2. table \in [1 .. Len(table) -> N]
  BY <1>1
<1>3. table \in Injection(1 .. Len(table), N)
  BY <1>2 DEF Distinct, Injection, IsInjective
<1>4. Cardinality(1 .. Len(table)) <= Cardinality(N)
  BY <1>3, FS_Injection
<1>5. Cardinality(1 .. Len(table)) = Len(table)
  <2>1. /\ Cardinality(1 .. Len(table)) = IF 1 > Len(table) THEN 0 ELSE Len(table) - 1 + 1
    BY <1>1, FS_Interval
  <2> QED
    BY <1>1, <2>1
<1> QED
  BY <1>4, <1>5

-----------------------------------------------------------------------------
(* The invariant about names is inductive. *)

LEMMA NamesOfText ==
  ASSUME UNCHANGED text
  PROVE  Names' = Names
BY DEF Names, NamePlaces, NameBegins, AfterInclude, Before, StartsIdentifier, Spelling,
       EndOfIdentifier, FirstNot

(* A token that ends where the next name can begin. *)
LEMMA PushBackNames ==
  ASSUME NamesInv, TokensInv', stage = "reading",
         NEW type, NEW code, NEW value, NEW upto,
         list_push_back(type, code, value, upto),
         text[upto] \in IdentifierUnits => \A j \in Before(upto) : text[j] \in Keywords
  PROVE  NamesInv'
<1>1. /\ UNCHANGED <<text, stage>> /\ at' = upto /\ identifiers' = TableAfterToken
  BY DEF list_push_back
<1>2. Between'
  BY <1>1 DEF Between, Before
<1>3. Names' = Names
  BY <1>1, NamesOfText
<1>4. \A n \in 1 .. Len(identifiers') : identifiers'[n] \in Names'
  BY <1>1, <1>3, TableOfNames
<1>5. OverrunOnlyByNames'
  BY <1>1 DEF OverrunOnlyByNames
<1> QED
  BY <1>2, <1>4, <1>5 DEF NamesInv

LEMMA NamesInitially == TokensInit => NamesInv
<1> SUFFICES ASSUME TokensInit
             PROVE  NamesInv
  OBVIOUS
<1>1. TokensInv
  BY InvInitially
<1>2. at = 1 /\ identifiers = <<>> /\ stage = "reading"
  BY DEF TokensInit
<1>3. Between
  BY <1>2 DEF Between, Before
<1>4. Len(identifiers) = 0
  BY <1>2, EmptySeq
<1>5. OverrunOnlyByNames
  BY <1>2 DEF OverrunOnlyByNames
<1> QED
  BY <1>1, <1>3, <1>4, <1>5 DEF NamesInv

LEMMA NamesPreserved == NamesInv /\ [tokenization]_token_vars => NamesInv'
<1> SUFFICES ASSUME NamesInv, [tokenization]_token_vars
             PROVE  NamesInv'
  OBVIOUS
<1>1. /\ TokensInv' /\ TokensInv /\ Reading /\ Between
      /\ text \in Texts /\ Start \in 1 .. Len(text) /\ Len(text) \in Nat
  BY InvPreserved, StartType, TextProperties DEF NamesInv, TokensInv, Reading
<1>2. CASE try_digit
  <2>1. /\ IsNumber /\ stage = "reading"
        /\ list_push_back("NUM", "NONE", sscanf(Spelling(Start, EndOfNumber)), EndOfNumber)
    BY <1>2 DEF try_digit
  <2>2. text[EndOfNumber] \notin IdentifierUnits
    BY <2>1 DEF IsNumber
  <2> QED
    BY <1>1, <2>1, <2>2, PushBackNames
<1>3. CASE try_include
  <2>1. /\ IsInclude /\ stage = "reading"
        /\ list_push_back("INCLUDE", "NONE", <<0>>, RightBorder + 1)
    BY <1>3 DEF try_include
  <2>2. RightBorder \in 1 .. Len(text) /\ text[RightBorder] = "GREATER"
    BY <1>1, <2>1, IncludeNames DEF IsInclude
  <2>3. RightBorder + 1 \in 1 .. Len(text) /\ RightBorder + 1 - 1 = RightBorder
    BY <1>1, <2>2, NextInText
  <2>4. text[RightBorder + 1 - 1] \notin IdentifierUnits
    BY <2>2, <2>3, KindsDisjoint DEF Operators
  <2>5. \A j \in Before(RightBorder + 1) : text[j] \in Keywords
    BY <1>1, <2>2, <2>3, <2>4, BetweenTokens
  <2> QED
    BY <1>1, <2>1, <2>5, PushBackNames
<1>4. ASSUME text[Start] \in Operators \cup Specs
      PROVE  \A j \in Before(Start + 1) : text[j] \in Keywords
  <2>1. Start + 1 \in 1 .. Len(text) /\ Start + 1 - 1 = Start
    BY <1>1, <1>4, EndIsNone, NextInText
  <2>2. text[Start + 1 - 1] \notin IdentifierUnits
    BY <1>4, <2>1, KindsDisjoint
  <2> QED
    BY <1>1, <2>1, <2>2, BetweenTokens
<1>5. CASE try_op
  <2>1. /\ text[Start] \in Operators /\ stage = "reading"
        /\ list_push_back("OP", text[Start], <<>>, Start + 1)
    BY <1>5 DEF try_op
  <2> QED
    BY <1>1, <1>4, <2>1, PushBackNames
<1>6. CASE try_spec
  <2>1. /\ text[Start] \in Specs /\ stage = "reading"
        /\ list_push_back("SPEC", text[Start], <<>>, Start + 1)
    BY <1>6 DEF try_spec
  <2> QED
    BY <1>1, <1>4, <2>1, PushBackNames
<1>7. CASE try_keyword
  <2>1. /\ text[Start] \in Keywords /\ stage = "reading"
        /\ list_push_back("KEYWORD", text[Start], <<>>, Start + 1)
    BY <1>7 DEF try_keyword
  <2>2. \A j \in Before(Start + 1) : text[j] \in Keywords
    BY <1>1, <2>1, AfterKeyword
  <2> QED
    BY <1>1, <2>1, <2>2, PushBackNames
<1>8. CASE try_identifier
  <2> DEFINE upto == EndOfIdentifier(Start)
             number == IdNumber(TableAfterToken, Spelling(Start, upto))
  <2>1. stage = "reading" /\ list_push_back("ID", "NONE", <<number>>, upto)
    BY <1>8 DEF try_identifier
  <2>2. text[upto] \notin IdentifierUnits
    BY <1>1, IdentifierEnds
  <2> HIDE DEF upto, number
  <2> QED
    BY <1>1, <2>1, <2>2, PushBackNames
<1>9. CASE Overrun
  <2>1. /\ Len(TableAfterToken) > MaxIdentifiers
        /\ UNCHANGED <<text, at, identifiers>> /\ stage' = "overrun"
    BY <1>9 DEF Overrun, Overruns
  <2>2. Names' = Names
    BY <2>1, NamesOfText
  <2>3. TableAfterToken \in Seq(Seq(Units)) /\ Distinct(TableAfterToken)
    BY <1>1, TableAfterStep DEF TokensInv
  <2>4. \A n \in 1 .. Len(TableAfterToken) : TableAfterToken[n] \in Names
    BY TableOfNames
  <2>5. IsFiniteSet(Names) /\ Cardinality(Names) \in Nat
    BY <1>1, NamesFinite
  <2>6. Len(TableAfterToken) <= Cardinality(Names)
    BY <2>3, <2>4, <2>5, DifferentElements
  <2>7. Cardinality(Names') > MaxIdentifiers
    <3>1. Len(TableAfterToken) \in Nat /\ MaxIdentifiers \in Nat
      BY <2>3, UnitsAssumption
    <3> QED
      BY <2>1, <2>2, <2>5, <2>6, <3>1
  <2>8. Between'
    BY <1>1, <2>1 DEF Between, Before
  <2>9. \A n \in 1 .. Len(identifiers') : identifiers'[n] \in Names'
    BY <2>1, <2>2 DEF NamesInv
  <2>10. OverrunOnlyByNames'
    BY <2>7 DEF OverrunOnlyByNames
  <2> QED
    BY <1>1, <2>8, <2>9, <2>10 DEF NamesInv
<1>10. CASE SyntaxError \/ EndOfText \/ UNCHANGED token_vars
  <2>1. UNCHANGED <<text, identifiers>> /\ (stage' = "overrun" => stage = "overrun")
    BY <1>10 DEF SyntaxError, EndOfText, token_vars
  <2>2. at' = at \/ (at' = Start /\ text[Start] = "end")
    BY <1>10 DEF SyntaxError, EndOfText, token_vars
  <2>3. Names' = Names
    BY <2>1, NamesOfText
  <2>4. Between'
    BY <1>1, <2>1, <2>2, EndIsNone DEF Between, Before
  <2>5. \A n \in 1 .. Len(identifiers') : identifiers'[n] \in Names'
    BY <2>1, <2>3 DEF NamesInv
  <2>6. OverrunOnlyByNames'
    BY <2>1, <2>3 DEF NamesInv, OverrunOnlyByNames
  <2> QED
    BY <1>1, <2>4, <2>5, <2>6 DEF NamesInv
<1> QED
  BY <1>2, <1>3, <1>5, <1>6, <1>7, <1>8, <1>9, <1>10 DEF tokenization

-----------------------------------------------------------------------------
(* Sizes. *)

(* Induction, for a set of numbers.                                          *)
LEMMA AllNumbers ==
  ASSUME NEW S \in SUBSET Nat, 0 \in S, \A n \in S : n + 1 \in S
  PROVE  S = Nat
<1> SUFFICES ASSUME Nat \ S # {}
             PROVE  FALSE
  OBVIOUS
<1>1. PICK k \in Nat \ S : \A j \in Nat \ S : k <= j
  <2> DEFINE T == Nat \ S
  <2>1. T \in SUBSET Nat /\ T # {}
    OBVIOUS
  <2> HIDE DEF T
  <2>2. \E k \in T : \A j \in T : k <= j
    BY <2>1, LeastNumber
  <2> QED
    BY <2>2 DEF T
<1>2. k # 0 /\ k - 1 \in Nat /\ ~(k <= k - 1)
  BY <1>1
<1>3. k - 1 \in S
  BY <1>1, <1>2
<1>4. k - 1 + 1 = k
  BY <1>1
<1> QED
  BY <1>1, <1>3, <1>4

(* The sizes that SizeOf counts one after the other.                         *)
Counts(size, from, upto) ==
  size = [i \in from .. upto |-> IF i = from THEN 0 ELSE size[i - 1] + Bytes[text[i - 1]]]

LEMMA UnitSize ==
  ASSUME text \in Texts, NEW i \in 1 .. Len(text)
  PROVE  Bytes[text[i]] \in Nat /\ (text[i] \in Spaces => Bytes[text[i]] = 1)
<1>1. text[i] \in Units
  BY TextProperties, ElementOfSeq
<1> QED
  BY <1>1, BytesAssumption

LEMMA CountsOneMore ==
  ASSUME text \in Texts, NEW from \in 1 .. Len(text), NEW upto \in from .. Len(text), upto + 1 \in 1 .. Len(text),
         NEW size, Counts(size, from, upto)
  PROVE  \E next : Counts(next, from, upto + 1)
<1>1. Len(text) \in Nat
  BY TextProperties
<1> DEFINE next == [i \in from .. upto + 1 |-> IF i = upto + 1 THEN size[upto] + Bytes[text[upto]] ELSE size[i]]
<1>2. \A i \in from .. upto : size[i] = IF i = from THEN 0 ELSE size[i - 1] + Bytes[text[i - 1]]
  BY DEF Counts
<1>3. ASSUME NEW i \in from .. upto + 1
      PROVE  next[i] = IF i = from THEN 0 ELSE next[i - 1] + Bytes[text[i - 1]]
  <2>1. CASE i = upto + 1
    <3>1. i - 1 = upto /\ i # from /\ upto \in from .. upto + 1 /\ upto # upto + 1
      BY <1>1, <2>1
    <3>2. next[upto] = size[upto]
      BY <3>1
    <3> QED
      BY <2>1, <3>1, <3>2
  <2>2. CASE i # upto + 1 /\ i = from
    BY <1>1, <1>2, <2>2
  <2>3. CASE i # upto + 1 /\ i # from
    <3>1. i \in from .. upto /\ i - 1 \in from .. upto + 1 /\ i - 1 # upto + 1
      BY <1>1, <2>3
    <3> QED
      BY <1>2, <2>3, <3>1
  <2> QED
    BY <2>1, <2>2, <2>3
<1>4. DOMAIN next = from .. upto + 1 /\ next = [i \in DOMAIN next |-> next[i]]
  OBVIOUS
<1> HIDE DEF next
<1>5. Counts(next, from, upto + 1)
  BY <1>3, <1>4 DEF Counts
<1> QED
  BY <1>5

LEMMA CountsExist ==
  ASSUME text \in Texts, NEW from \in 1 .. Len(text), NEW upto \in from .. Len(text)
  PROVE  \E size : Counts(size, from, upto)
<1>1. Len(text) \in Nat
  BY TextProperties
<1> DEFINE S == {n \in Nat : from + n <= Len(text) => \E size : Counts(size, from, from + n)}
<1>2. 0 \in S
  <2>1. [i \in {from} |-> 0] = [i \in from .. from |-> 0]
    BY <1>1
  <2>2. Counts([i \in from .. from |-> 0], from, from)
    BY <1>1 DEF Counts
  <2>3. from + 0 = from
    BY <1>1
  <2> QED
    BY <2>2, <2>3
<1>3. ASSUME NEW n \in S
      PROVE  n + 1 \in S
  <2> SUFFICES ASSUME from + (n + 1) <= Len(text)
               PROVE  \E size : Counts(size, from, from + (n + 1))
    OBVIOUS
  <2>1. /\ from + n \in from .. Len(text) /\ from + n + 1 \in 1 .. Len(text)
        /\ from + n + 1 = from + (n + 1) /\ from + n <= Len(text)
    BY <1>1
  <2>2. PICK size : Counts(size, from, from + n)
    BY <2>1
  <2>3. \E next : Counts(next, from, from + n + 1)
    BY <2>1, <2>2, CountsOneMore
  <2> QED
    BY <2>1, <2>3
<1>4. S = Nat
  <2>1. S \in SUBSET Nat
    OBVIOUS
  <2> HIDE DEF S
  <2> QED
    BY <1>2, <1>3, <2>1, AllNumbers
<1>5. upto - from \in Nat /\ from + (upto - from) = upto /\ upto <= Len(text)
  BY <1>1
<1>6. upto - from \in S
  BY <1>4, <1>5
<1> QED
  BY <1>5, <1>6

(* As SizeOf is defined, whatever part of the text it is the size of.        *)
LEMMA SizeCounts ==
  ASSUME text \in Texts, NEW from \in 1 .. Len(text), NEW upto \in from .. Len(text)
  PROVE  \E size : Counts(size, from, upto) /\ SizeOf(from, upto) = size[upto]
<1> DEFINE size == CHOOSE s : Counts(s, from, upto)
<1>1. Counts(size, from, upto)
  BY CountsExist
<1>2. SizeOf(from, upto) = size[upto]
  BY DEF SizeOf, Counts
<1> QED
  BY <1>1, <1>2

(* Counts of different lengths agree where both count.                       *)
LEMMA CountsAgree ==
  ASSUME text \in Texts, NEW from \in 1 .. Len(text), NEW a \in from .. Len(text), NEW b \in a .. Len(text),
         NEW f, Counts(f, from, a), NEW g, Counts(g, from, b)
  PROVE  f[a] = g[a] /\ f[a] \in Nat
<1>1. Len(text) \in Nat
  BY TextProperties
<1>2. /\ \A i \in from .. a : f[i] = IF i = from THEN 0 ELSE f[i - 1] + Bytes[text[i - 1]]
      /\ \A i \in from .. b : g[i] = IF i = from THEN 0 ELSE g[i - 1] + Bytes[text[i - 1]]
  BY DEF Counts
<1> DEFINE S == {n \in Nat : from + n <= a => f[from + n] = g[from + n] /\ f[from + n] \in Nat}
<1>3. 0 \in S
  BY <1>1, <1>2
<1>4. ASSUME NEW n \in S
      PROVE  n + 1 \in S
  <2> SUFFICES ASSUME from + (n + 1) <= a
               PROVE  f[from + (n + 1)] = g[from + (n + 1)] /\ f[from + (n + 1)] \in Nat
    OBVIOUS
  <2>1. /\ from + (n + 1) \in from .. a /\ from + (n + 1) \in from .. b /\ from + (n + 1) # from
        /\ (from + (n + 1)) - 1 = from + n /\ from + n \in 1 .. Len(text) /\ from + n <= a
    BY <1>1
  <2>2. f[from + n] = g[from + n] /\ f[from + n] \in Nat
    BY <2>1
  <2>3. Bytes[text[from + n]] \in Nat
    BY <2>1, UnitSize
  <2>4. /\ f[from + (n + 1)] = f[from + n] + Bytes[text[from + n]]
        /\ g[from + (n + 1)] = g[from + n] + Bytes[text[from + n]]
    BY <1>2, <2>1
  <2> QED
    BY <2>2, <2>3, <2>4
<1>5. S = Nat
  <2>1. S \in SUBSET Nat
    OBVIOUS
  <2> HIDE DEF S
  <2> QED
    BY <1>3, <1>4, <2>1, AllNumbers
<1>6. a - from \in Nat /\ from + (a - from) = a
  BY <1>1
<1>7. a - from \in S
  BY <1>5, <1>6
<1> QED
  BY <1>6, <1>7

(* SizeOf adds up the bytes of the units one after the other.                *)
LEMMA SizeOfNext ==
  ASSUME text \in Texts, NEW from \in 1 .. Len(text), NEW upto \in from .. Len(text)
  PROVE  /\ SizeOf(from, upto) \in Nat
         /\ upto = from => SizeOf(from, upto) = 0
         /\ upto + 1 \in 1 .. Len(text) => SizeOf(from, upto + 1) = SizeOf(from, upto) + Bytes[text[upto]]
<1>1. Len(text) \in Nat
  BY TextProperties
<1>2. PICK f : Counts(f, from, upto) /\ SizeOf(from, upto) = f[upto]
  BY SizeCounts
<1>3. f[upto] \in Nat
  <2>1. upto \in upto .. Len(text)
    BY <1>1
  <2> QED
    BY <1>2, <2>1, CountsAgree
<1>4. upto = from => f[upto] = 0
  <2>1. upto \in from .. upto
    BY <1>1
  <2> QED
    BY <1>2, <2>1 DEF Counts
<1>5. ASSUME upto + 1 \in 1 .. Len(text)
      PROVE  SizeOf(from, upto + 1) = SizeOf(from, upto) + Bytes[text[upto]]
  <2>1. upto + 1 \in from .. Len(text) /\ upto + 1 \in upto .. Len(text) /\ upto + 1 # from /\ (upto + 1) - 1 = upto
        /\ upto + 1 \in from .. upto + 1
    BY <1>1, <1>5
  <2>2. PICK g : Counts(g, from, upto + 1) /\ SizeOf(from, upto + 1) = g[upto + 1]
    BY <2>1, SizeCounts
  <2>3. f[upto] = g[upto]
    BY <1>2, <2>1, <2>2, CountsAgree
  <2>4. g[upto + 1] = g[upto] + Bytes[text[upto]]
    BY <2>1, <2>2 DEF Counts
  <2> QED
    BY <1>2, <2>2, <2>3, <2>4
<1> QED
  BY <1>2, <1>3, <1>4, <1>5

LEMMA SizesJoin ==
  ASSUME text \in Texts, NEW a \in 1 .. Len(text), NEW b \in a .. Len(text), NEW c \in b .. Len(text)
  PROVE  SizeOf(a, c) = SizeOf(a, b) + SizeOf(b, c)
<1>1. Len(text) \in Nat /\ b \in 1 .. Len(text)
  BY TextProperties
<1> DEFINE S == {n \in Nat : b + n <= Len(text) => SizeOf(a, b + n) = SizeOf(a, b) + SizeOf(b, b + n)}
<1>2. 0 \in S
  <2>1. b + 0 = b /\ b \in b .. Len(text)
    BY <1>1
  <2>2. SizeOf(b, b) = 0 /\ SizeOf(a, b) \in Nat
    BY <1>1, <2>1, SizeOfNext
  <2> QED
    BY <2>1, <2>2
<1>3. ASSUME NEW n \in S
      PROVE  n + 1 \in S
  <2> SUFFICES ASSUME b + (n + 1) <= Len(text)
               PROVE  SizeOf(a, b + (n + 1)) = SizeOf(a, b) + SizeOf(b, b + (n + 1))
    OBVIOUS
  <2>1. /\ b + n \in a .. Len(text) /\ b + n \in b .. Len(text) /\ b + n + 1 \in 1 .. Len(text)
        /\ b + n + 1 = b + (n + 1) /\ b + n <= Len(text) /\ b + n \in 1 .. Len(text)
    BY <1>1
  <2>2. SizeOf(a, b + n) = SizeOf(a, b) + SizeOf(b, b + n)
    BY <2>1
  <2>3. /\ SizeOf(a, b + n + 1) = SizeOf(a, b + n) + Bytes[text[b + n]]
        /\ SizeOf(b, b + n + 1) = SizeOf(b, b + n) + Bytes[text[b + n]]
        /\ SizeOf(b, b + n) \in Nat
    BY <1>1, <2>1, SizeOfNext
  <2>4. SizeOf(a, b) \in Nat /\ Bytes[text[b + n]] \in Nat
    BY <1>1, <2>1, SizeOfNext, UnitSize
  <2> QED
    BY <2>1, <2>2, <2>3, <2>4
<1>4. S = Nat
  <2>1. S \in SUBSET Nat
    OBVIOUS
  <2> HIDE DEF S
  <2> QED
    BY <1>2, <1>3, <2>1, AllNumbers
<1>5. c - b \in Nat /\ b + (c - b) = c /\ c <= Len(text)
  BY <1>1
<1>6. c - b \in S
  BY <1>4, <1>5
<1> QED
  BY <1>5, <1>6

(* Spaces are counted as they are skipped, one by one.                       *)
LEMMA SizeOfSpaces ==
  ASSUME text \in Texts, NEW from \in 1 .. Len(text), NEW upto \in from .. Len(text),
         \A j \in from .. upto - 1 : text[j] \in Spaces
  PROVE  SizeOf(from, upto) = upto - from
<1>1. Len(text) \in Nat
  BY TextProperties
<1> DEFINE S == {n \in Nat : from + n <= upto => SizeOf(from, from + n) = n}
<1>2. 0 \in S
  <2>1. from + 0 = from /\ from \in from .. Len(text)
    BY <1>1
  <2> QED
    BY <2>1, SizeOfNext
<1>3. ASSUME NEW n \in S
      PROVE  n + 1 \in S
  <2> SUFFICES ASSUME from + (n + 1) <= upto
               PROVE  SizeOf(from, from + (n + 1)) = n + 1
    OBVIOUS
  <2>1. /\ from + n \in from .. Len(text) /\ from + n + 1 \in 1 .. Len(text)
        /\ from + n + 1 = from + (n + 1) /\ from + n <= upto /\ from + n \in from .. upto - 1
        /\ from + n \in 1 .. Len(text)
    BY <1>1
  <2>2. SizeOf(from, from + n) = n
    BY <2>1
  <2>3. SizeOf(from, from + n + 1) = SizeOf(from, from + n) + Bytes[text[from + n]]
    BY <2>1, SizeOfNext
  <2>4. Bytes[text[from + n]] = 1
    BY <2>1, UnitSize
  <2> QED
    BY <2>1, <2>2, <2>3, <2>4
<1>4. S = Nat
  <2>1. S \in SUBSET Nat
    OBVIOUS
  <2> HIDE DEF S
  <2> QED
    BY <1>2, <1>3, <2>1, AllNumbers
<1>5. upto - from \in Nat /\ from + (upto - from) = upto /\ upto <= upto
  BY <1>1
<1>6. upto - from \in S
  BY <1>4, <1>5
<1> QED
  BY <1>5, <1>6
-----------------------------------------------------------------------------
(* Lines. *)

(* A set of numbers with a bound has a greatest element.                     *)
LEMMA GreatestNumber ==
  ASSUME NEW n \in Nat, NEW S \in SUBSET (1 .. n), S # {}
  PROVE  \E k \in S : \A j \in S : j <= k
<1> DEFINE T == {n - k : k \in S}
<1>1. \A k \in S : k \in 1 .. n /\ n - k \in Nat
  OBVIOUS
<1>2. T \in SUBSET Nat /\ T # {}
  BY <1>1
<1>3. PICK t \in T : \A u \in T : t <= u
  <2> HIDE DEF T
  <2> QED
    BY <1>2, LeastNumber
<1>4. PICK k \in S : t = n - k
  BY <1>3
<1>5. ASSUME NEW j \in S
      PROVE  j <= k
  <2>1. n - j \in T
    OBVIOUS
  <2>2. n - k <= n - j
    BY <1>3, <1>4, <2>1
  <2>3. j \in 1 .. n /\ k \in 1 .. n
    OBVIOUS
  <2> QED
    BY <2>2, <2>3
<1> QED
  BY <1>4, <1>5

-----------------------------------------------------------------------------
(* What the tokenizer counts: the line breaks that no include holds, for     *)
(* try_include sets the position back to where the include begins.           *)
InInclude(i) ==
  \E k \in 1 .. Len(tokens) :
    tokens[k].type = "INCLUDE" /\ spans[k].from <= i /\ i < spans[k].upto
CountedBreaks(from) == {i \in 1 .. from - 1 : text[i] = "line" /\ ~InInclude(i)}
CountedStart(from) ==
  CHOOSE i \in 1 .. from :
    (i = 1 \/ i - 1 \in CountedBreaks(from)) /\ \A j \in CountedBreaks(from) : j < i

CountedPosition(token, span) ==
  /\ token.position.line = 1 + Cardinality(CountedBreaks(span.from))
  /\ token.position.column = 1 + SizeOf(CountedStart(span.from), span.from)
  /\ token.code # "PROGRAM_END" => token.position.length = SizeOf(span.from, span.upto)

(* What CountedStart chooses.                                                *)
StartsLine(i, from) ==
  i \in 1 .. from /\ (i = 1 \/ i - 1 \in CountedBreaks(from)) /\ \A j \in CountedBreaks(from) : j < i

LEMMA CountedStartIs ==
  ASSUME NEW from \in Nat, NEW i, StartsLine(i, from)
  PROVE  CountedStart(from) = i
<1>1. ASSUME NEW j, StartsLine(j, from)
      PROVE  j = i
  <2>1. i \in 1 .. from /\ j \in 1 .. from
    BY <1>1 DEF StartsLine
  <2>2. CASE i < j
    <3>1. j # 1
      BY <2>1, <2>2
    <3>2. j - 1 < i
      BY <1>1, <3>1 DEF StartsLine
    <3> QED
      BY <2>1, <2>2, <3>2
  <2>3. CASE j < i
    <3>1. i # 1
      BY <2>1, <2>3
    <3>2. i - 1 < j
      BY <1>1, <3>1 DEF StartsLine
    <3> QED
      BY <2>1, <2>3, <3>2
  <2> QED
    BY <2>1, <2>2, <2>3
<1>2. StartsLine(CountedStart(from), from)
  <2>1. \E k \in 1 .. from : (k = 1 \/ k - 1 \in CountedBreaks(from)) /\ \A j \in CountedBreaks(from) : j < k
    BY DEF StartsLine
  <2> DEFINE k == CountedStart(from)
  <2>2. k \in 1 .. from /\ (k = 1 \/ k - 1 \in CountedBreaks(from)) /\ \A j \in CountedBreaks(from) : j < k
    BY <2>1 DEF CountedStart
  <2> QED
    BY <2>2 DEF StartsLine
<1> QED
  BY <1>1, <1>2

-----------------------------------------------------------------------------
(* The invariant about positions. *)

(* A line and a column that say where the pointer is.                        *)
Says(place, from) ==
  /\ place \in [line : Nat, column : Nat, length : Nat]
  /\ place.line = 1 + Cardinality(CountedBreaks(from))
  /\ \E i : StartsLine(i, from) /\ place.column = 1 + SizeOf(i, from)

SpansRead ==
  \A k \in 1 .. Len(tokens) :
    /\ spans[k].from \in 1 .. Len(text) /\ spans[k].from <= at
    /\ spans[k].upto \in 1 .. Len(text) /\ spans[k].upto <= at

PlacesInv ==
  /\ TokensInv
  /\ SpansRead
  /\ Says(position, at)
  /\ \A k \in 1 .. Len(tokens) : CountedPosition(tokens[k], spans[k])

LEMMA CountedFinite ==
  ASSUME text \in Texts, NEW from \in 1 .. Len(text)
  PROVE  IsFiniteSet(CountedBreaks(from)) /\ Cardinality(CountedBreaks(from)) \in Nat /\ CountedBreaks(from) \subseteq 1 .. from - 1
<1>1. from - 1 \in Int
  BY TextProperties
<1>2. IsFiniteSet(1 .. from - 1)
  BY <1>1, FS_Interval
<1>3. CountedBreaks(from) \in SUBSET (1 .. from - 1)
  BY DEF CountedBreaks
<1>4. IsFiniteSet(CountedBreaks(from))
  BY <1>2, <1>3, FS_Subset
<1> QED
  BY <1>3, <1>4, FS_CardinalityType

(* skip_spaces comes to where the position it counts says.                   *)
LEMMA SkippedSpaces ==
  ASSUME PlacesInv
  PROVE  Says(skip_spaces, Start)
<1>1. /\ text \in Texts /\ Len(text) \in Nat /\ at \in 1 .. Len(text)
      /\ Start \in at .. Len(text) /\ Start \in 1 .. Len(text)
      /\ \A j \in at .. Start - 1 : text[j] \in Spaces
  BY StartType, TextProperties DEF PlacesInv, TokensInv, Reading
<1> DEFINE breaks == {i \in at .. Start - 1 : text[i] = "line"}
           last == CHOOSE i \in breaks : \A j \in breaks : j <= i
<1>2. /\ position \in [line : Nat, column : Nat, length : Nat]
      /\ position.line = 1 + Cardinality(CountedBreaks(at))
  BY DEF PlacesInv, Says
<1>3. PICK i : StartsLine(i, at) /\ position.column = 1 + SizeOf(i, at)
  BY DEF PlacesInv, Says
<1>4. \A j \in at .. Start - 1 : ~InInclude(j)
  <2> SUFFICES ASSUME NEW j \in at .. Start - 1, NEW k \in 1 .. Len(tokens), j < spans[k].upto
               PROVE  FALSE
    BY DEF InInclude
  <2>1. spans[k].upto \in 1 .. Len(text) /\ spans[k].upto <= at
    BY DEF PlacesInv, SpansRead
  <2> QED
    BY <1>1, <2>1
<1>5. CountedBreaks(Start) = CountedBreaks(at) \cup breaks /\ CountedBreaks(at) \cap breaks = {}
  BY <1>1, <1>4 DEF CountedBreaks
<1>6. IsFiniteSet(breaks) /\ Cardinality(breaks) \in Nat
  <2>1. at \in Int /\ Start - 1 \in Int
    BY <1>1
  <2>2. IsFiniteSet(at .. Start - 1)
    BY <2>1, FS_Interval
  <2>3. breaks \in SUBSET (at .. Start - 1)
    OBVIOUS
  <2> HIDE DEF breaks
  <2>4. IsFiniteSet(breaks)
    BY <2>2, <2>3, FS_Subset
  <2> QED
    BY <2>4, FS_CardinalityType
<1>7. Cardinality(CountedBreaks(Start)) = Cardinality(CountedBreaks(at)) + Cardinality(breaks)
  <2>1. IsFiniteSet(CountedBreaks(at)) /\ Cardinality(CountedBreaks(at)) \in Nat
    BY <1>1, CountedFinite
  <2> HIDE DEF breaks
  <2>2. /\ Cardinality(CountedBreaks(at) \cup breaks)
             = Cardinality(CountedBreaks(at)) + Cardinality(breaks) - Cardinality(CountedBreaks(at) \cap breaks)
    BY <1>6, <2>1, FS_Union
  <2>3. Cardinality(CountedBreaks(at) \cap breaks) = 0
    BY <1>5, FS_EmptySet
  <2> QED
    BY <1>5, <1>6, <2>1, <2>2, <2>3
<1>8. i \in 1 .. at
  BY <1>3 DEF StartsLine
<1>9. skip_spaces = IF breaks = {} THEN [position EXCEPT !.column = @ + Start - at]
                    ELSE [position EXCEPT !.line = @ + Cardinality(breaks), !.column = Start - last]
  BY DEF skip_spaces
<1>10. Cardinality(CountedBreaks(at)) \in Nat
  BY <1>1, CountedFinite
<1>11. CASE breaks = {}
  <2>1. CountedBreaks(Start) = CountedBreaks(at)
    BY <1>5, <1>11
  <2>2. StartsLine(i, Start)
    BY <1>1, <1>3, <2>1 DEF StartsLine
  <2>3. SizeOf(at, Start) = Start - at
    BY <1>1, SizeOfSpaces
  <2>4. SizeOf(i, Start) = SizeOf(i, at) + SizeOf(at, Start) /\ SizeOf(i, at) \in Nat
    <3>1. i \in 1 .. Len(text) /\ at \in i .. Len(text)
      BY <1>1, <1>8
    <3> QED
      BY <1>1, <3>1, SizesJoin, SizeOfNext
  <2>5. skip_spaces = [position EXCEPT !.column = @ + Start - at]
    BY <1>9, <1>11
  <2>6. /\ skip_spaces \in [line : Nat, column : Nat, length : Nat]
        /\ skip_spaces.line = position.line /\ skip_spaces.column = position.column + Start - at
    BY <1>1, <1>2, <2>5
  <2>7. skip_spaces.column = 1 + SizeOf(i, Start)
    BY <1>1, <1>3, <2>3, <2>4, <2>6
  <2> QED
    BY <1>2, <2>1, <2>2, <2>6, <2>7 DEF Says
<1>12. CASE breaks # {}
  <2>1. last \in breaks /\ \A j \in breaks : j <= last
    <3>1. Len(text) \in Nat /\ breaks \in SUBSET (1 .. Len(text))
      BY <1>1
    <3> HIDE DEF breaks
    <3>2. \E k \in breaks : \A j \in breaks : j <= k
      BY <1>12, <3>1, GreatestNumber
    <3> QED
      BY <3>2
  <2>2. /\ last \in at .. Start - 1 /\ last + 1 \in 1 .. Start /\ last + 1 \in 1 .. Len(text)
        /\ Start \in last + 1 .. Len(text) /\ last + 1 - 1 = last
    BY <1>1, <2>1
  <2> HIDE DEF last
  <2>3. StartsLine(last + 1, Start)
    <3>1. \A j \in CountedBreaks(Start) : j < last + 1
      <4> SUFFICES ASSUME NEW j \in CountedBreaks(Start)
                   PROVE  j < last + 1
        OBVIOUS
      <4>1. CASE j \in breaks
        BY <1>1, <2>1, <2>2, <4>1
      <4>2. CASE j \in CountedBreaks(at)
        BY <1>1, <2>2, <4>2 DEF CountedBreaks
      <4> QED
        BY <1>5, <4>1, <4>2
    <3> QED
      BY <1>5, <2>1, <2>2, <3>1 DEF StartsLine
  <2>4. SizeOf(last + 1, Start) = Start - (last + 1)
    <3>1. \A j \in last + 1 .. Start - 1 : text[j] \in Spaces
      BY <1>1, <2>2
    <3> QED
      BY <1>1, <2>2, <3>1, SizeOfSpaces
  <2>5. skip_spaces = [position EXCEPT !.line = @ + Cardinality(breaks), !.column = Start - last]
    BY <1>9, <1>12
  <2> HIDE DEF breaks
  <2>6. Start - last \in Nat /\ position.line + Cardinality(breaks) \in Nat
    BY <1>1, <1>2, <1>6, <2>2
  <2>7. /\ skip_spaces \in [line : Nat, column : Nat, length : Nat]
        /\ skip_spaces.line = position.line + Cardinality(breaks) /\ skip_spaces.column = Start - last
    BY <1>2, <2>5, <2>6
  <2>8. skip_spaces.line = 1 + Cardinality(CountedBreaks(Start))
    BY <1>2, <1>6, <1>7, <1>10, <2>7
  <2>9. skip_spaces.column = 1 + SizeOf(last + 1, Start)
    BY <1>1, <2>2, <2>4, <2>7
  <2> QED
    BY <2>3, <2>7, <2>8, <2>9 DEF Says
<1> QED
  BY <1>11, <1>12

(* One sequence is another with one more element. *)
Longer(more, s, e) ==
  Len(more) = Len(s) + 1 /\ (\A k \in 1 .. Len(s) : more[k] = s[k]) /\ more[Len(s) + 1] = e

LEMMA AppendIsLonger ==
  ASSUME NEW s, \E A : s \in Seq(A), NEW e
  PROVE  Len(s) \in Nat /\ Longer(Append(s, e), s, e)
<1>1. /\ \E A : Append(s, e) \in Seq(A)
      /\ Len(s) \in Nat /\ Len(Append(s, e)) = Len(s) + 1
      /\ \A i \in 1 .. Len(s) : Append(s, e)[i] = s[i]
      /\ Append(s, e)[Len(s) + 1] = e
  BY AppendToAny, Zenon
<1> QED
  BY <1>1, Zenon DEF Longer

(* One more token, that begins where the spaces end, with the position of    *)
(* that place; if it is not an include there is no line break in it.         *)
LEMMA OneMorePlace ==
  ASSUME PlacesInv, TokensInv', UNCHANGED text,
         NEW token, NEW span, NEW upto \in Start .. Len(text),
         tokens' = Append(tokens, token), spans' = Append(spans, span), at' = upto,
         span.from = Start, span.upto = upto,
         token.type # "INCLUDE" => \A j \in Start .. upto - 1 : text[j] # "line",
         token.position.line = skip_spaces.line, token.position.column = skip_spaces.column,
         token.code # "PROGRAM_END" => token.position.length = SizeOf(Start, upto),
         position' \in [line : Nat, column : Nat, length : Nat],
         position'.line = skip_spaces.line, position'.column = skip_spaces.column + SizeOf(Start, upto)
  PROVE  PlacesInv'
<1> DEFINE n == Len(tokens)
<1>1. /\ tokens' = Append(tokens, token) /\ spans' = Append(spans, span)
      /\ at' = upto /\ UNCHANGED text
  OBVIOUS
<1>2. /\ n \in Nat /\ Len(tokens') = n + 1
      /\ \A k \in 1 .. n : tokens'[k] = tokens[k] /\ spans'[k] = spans[k]
      /\ tokens'[n + 1] = token /\ spans'[n + 1] = span
  <2>1. Lists
    BY DEF PlacesInv, TokensInv
  <2>2. (\E A : tokens \in Seq(A)) /\ (\E A : spans \in Seq(A)) /\ Len(spans) = n
    BY <2>1 DEF Lists
  <2>3. n \in Nat /\ Longer(Append(tokens, token), tokens, token) /\ Longer(Append(spans, span), spans, span)
    BY <2>2, AppendIsLonger, Zenon
  <2>4. Longer(tokens', tokens, token) /\ Longer(spans', spans, span)
    BY <1>1, <2>3, Zenon
  <2> QED
    BY <2>2, <2>3, <2>4 DEF Longer
<1>3. /\ text \in Texts /\ Len(text) \in Nat /\ at \in 1 .. Len(text)
      /\ Start \in at .. Len(text) /\ Start \in 1 .. Len(text)
  BY StartType, TextProperties DEF PlacesInv, TokensInv, Reading
<1>4. skip_spaces \in [line : Nat, column : Nat, length : Nat] /\ Says(skip_spaces, Start)
  BY SkippedSpaces DEF Says
<1>5. SizeOf(Start, upto) \in Nat
  BY <1>3, SizeOfNext
<1> HIDE DEF n
<1>6. \A j \in Int : j < Start => (InInclude(j)' <=> InInclude(j))
  <2> SUFFICES ASSUME NEW j \in Int, j < Start
               PROVE  InInclude(j)' <=> InInclude(j)
    OBVIOUS
  <2>1. InInclude(j)' <=> \E k \in 1 .. n + 1 : /\ tokens'[k].type = "INCLUDE"
                                                /\ spans'[k].from <= j /\ j < spans'[k].upto
    BY <1>2 DEF InInclude
  <2>2. ~(spans'[n + 1].from <= j)
    BY <1>2, <1>3
  <2>3. \A k \in 1 .. n + 1 : k \in 1 .. n \/ k = n + 1
    BY <1>2
  <2>4. \A k \in 1 .. n : k \in 1 .. n + 1
    BY <1>2
  <2> QED
    BY <1>2, <2>1, <2>2, <2>3, <2>4 DEF InInclude, n
<1>7. \A from \in 1 .. Start : CountedBreaks(from)' = CountedBreaks(from) /\ CountedStart(from)' = CountedStart(from)
  <2> SUFFICES ASSUME NEW from \in 1 .. Start
               PROVE  CountedBreaks(from)' = CountedBreaks(from) /\ CountedStart(from)' = CountedStart(from)
    OBVIOUS
  <2>1. \A j \in 1 .. from - 1 : InInclude(j)' <=> InInclude(j)
    <3>1. \A j \in 1 .. from - 1 : j \in Int /\ j < Start
      BY <1>3
    <3> QED
      BY <1>6, <3>1
  <2>2. CountedBreaks(from)' = CountedBreaks(from)
    BY <1>1, <2>1 DEF CountedBreaks
  <2> QED
    BY <2>2 DEF CountedStart
<1>8. \A a, b : SizeOf(a, b)' = SizeOf(a, b)
  BY <1>1 DEF SizeOf
<1>9. CountedBreaks(upto)' = CountedBreaks(Start)
  <2>1. \A j \in Start .. upto - 1 : text[j] # "line" \/ InInclude(j)'
    <3> SUFFICES ASSUME NEW j \in Start .. upto - 1, token.type = "INCLUDE"
                 PROVE  InInclude(j)'
      OBVIOUS
    <3>1. n + 1 \in 1 .. Len(tokens')
      BY <1>2
    <3>2. tokens'[n + 1].type = "INCLUDE" /\ spans'[n + 1].from <= j /\ j < spans'[n + 1].upto
      BY <1>2, <1>3
    <3> QED
      BY <3>1, <3>2 DEF InInclude
  <2>2. CountedBreaks(upto)' = {j \in 1 .. upto - 1 : text[j] = "line" /\ ~InInclude(j)'}
    BY <1>1 DEF CountedBreaks
  <2>3. \A j \in 1 .. upto - 1 : j \in 1 .. Start - 1 \/ j \in Start .. upto - 1
    BY <1>3
  <2>4. \A j \in 1 .. Start - 1 : j \in 1 .. upto - 1 /\ j \in Int /\ j < Start
    BY <1>3
  <2> QED
    BY <1>6, <2>1, <2>2, <2>3, <2>4 DEF CountedBreaks
<1>10. Says(position, at)'
  <2>1. PICK i : StartsLine(i, Start) /\ skip_spaces.column = 1 + SizeOf(i, Start)
    BY <1>4 DEF Says
  <2>2. i \in 1 .. Start
    BY <2>1 DEF StartsLine
  <2>3. i \in 1 .. upto /\ i \in 1 .. Len(text) /\ Start \in i .. Len(text)
    BY <1>3, <2>2
  <2>4. SizeOf(i, upto) = SizeOf(i, Start) + SizeOf(Start, upto) /\ SizeOf(i, Start) \in Nat
    BY <1>3, <2>3, SizesJoin, SizeOfNext
  <2>5. StartsLine(i, upto)'
    BY <1>9, <2>1, <2>3 DEF StartsLine
  <2>6. position'.column = 1 + SizeOf(i, upto)
    BY <1>5, <2>1, <2>4
  <2>7. position'.line = 1 + Cardinality(CountedBreaks(upto)')
    BY <1>4, <1>9 DEF Says
  <2>8. position'.column = 1 + SizeOf(i, upto)'
    BY <1>8, <2>6
  <2> QED
    BY <1>1, <2>5, <2>7, <2>8 DEF Says
<1>11. SpansRead'
  <2>1. \A k \in 1 .. n + 1 : k \in 1 .. n \/ k = n + 1
    BY <1>2
  <2>2. ASSUME NEW k \in 1 .. n
        PROVE  /\ spans'[k].from \in 1 .. Len(text) /\ spans'[k].from <= upto
               /\ spans'[k].upto \in 1 .. Len(text) /\ spans'[k].upto <= upto
    <3>1. /\ spans[k].from \in 1 .. Len(text) /\ spans[k].from <= at
          /\ spans[k].upto \in 1 .. Len(text) /\ spans[k].upto <= at
      BY DEF PlacesInv, SpansRead, n
    <3>2. at \in Int /\ upto \in Int /\ at <= upto
      BY <1>1, <1>3
    <3>3. \A m \in 1 .. Len(text) : m <= at => m <= upto
      BY <3>2
    <3>4. spans[k].from <= upto /\ spans[k].upto <= upto
      BY <3>1, <3>3
    <3> QED
      BY <1>2, <3>1, <3>4
  <2>3. Start \in 1 .. Len(text) /\ Start <= upto /\ upto \in 1 .. Len(text) /\ upto <= upto
    BY <1>3
  <2> QED
    BY <1>1, <1>2, <2>1, <2>2, <2>3 DEF SpansRead
<1>12. \A k \in 1 .. Len(tokens') : CountedPosition(tokens[k], spans[k])'
  <2>1. \A k \in 1 .. n + 1 : k \in 1 .. n \/ k = n + 1
    BY <1>2
  <2>2. ASSUME NEW k \in 1 .. n
        PROVE  CountedPosition(tokens[k], spans[k])'
    <3>1. spans[k].from \in 1 .. Start
      <4>1. spans[k].from \in 1 .. Len(text) /\ spans[k].from <= at
        BY DEF PlacesInv, SpansRead, n
      <4> QED
        BY <1>3, <4>1
    <3>2. CountedPosition(tokens[k], spans[k])
      BY DEF PlacesInv, n
    <3> QED
      BY <1>2, <1>7, <1>8, <3>1, <3>2 DEF CountedPosition
  <2>3. ASSUME NEW k, k = n + 1
        PROVE  CountedPosition(tokens[k], spans[k])'
    <3>1. PICK i : StartsLine(i, Start) /\ skip_spaces.column = 1 + SizeOf(i, Start)
      BY <1>4 DEF Says
    <3>2. CountedStart(Start) = i
      <4>1. Start \in Nat
        BY <1>3
      <4> QED
        BY <3>1, <4>1, CountedStartIs
    <3>3. PICK s \in 1 .. Start : s = Start
      BY <1>3
    <3>4. /\ token.position.line = 1 + Cardinality(CountedBreaks(s)')
          /\ token.position.column = 1 + SizeOf(CountedStart(s), s)
          /\ token.code # "PROGRAM_END" => token.position.length = SizeOf(s, upto)
      BY <1>4, <1>7, <3>1, <3>2, <3>3 DEF Says
    <3>5. CountedStart(s)' = CountedStart(s)
      BY <1>7, <3>3
    <3>6. /\ tokens'[k] = token
          /\ spans'[k].from = s /\ spans'[k].upto = upto
      BY <1>2, <2>3, <3>3
    <3> QED
      BY <1>8, <3>4, <3>5, <3>6 DEF CountedPosition
  <2> QED
    BY <1>2, <2>1, <2>2, <2>3
<1> QED
  BY <1>10, <1>11, <1>12 DEF PlacesInv

LEMMA TokenPlaces ==
  ASSUME PlacesInv, NEW type, NEW code, NEW value, NEW upto \in Start .. Len(text),
         list_push_back(type, code, value, upto),
         type # "INCLUDE" => \A j \in Start .. upto - 1 : text[j] # "line",
         TokensInv'
  PROVE  PlacesInv'
<1> DEFINE place == [skip_spaces EXCEPT !.length = SizeOf(Start, upto)]
           token == create_token(type, code, value, place)
           span == [from |-> Start, upto |-> upto]
<1>1. /\ tokens' = Append(tokens, token) /\ spans' = Append(spans, span)
      /\ position' = [place EXCEPT !.column = @ + place.length]
      /\ at' = upto /\ UNCHANGED text
  BY DEF list_push_back
<1>2. /\ token.type = type /\ token.code = code /\ token.position = place
      /\ span.from = Start /\ span.upto = upto
  BY DEF create_token
<1>3. skip_spaces \in [line : Nat, column : Nat, length : Nat]
  BY SkippedSpaces DEF Says
<1>4. SizeOf(Start, upto) \in Nat
  <2>1. Start \in 1 .. Len(text) /\ text \in Texts
    BY StartType DEF PlacesInv, TokensInv, Reading
  <2> QED
    BY <2>1, SizeOfNext
<1>5. /\ place \in [line : Nat, column : Nat, length : Nat]
      /\ place.line = skip_spaces.line /\ place.column = skip_spaces.column
      /\ place.length = SizeOf(Start, upto)
  BY <1>3, <1>4
<1> HIDE DEF token, span, place
<1>6. /\ position' \in [line : Nat, column : Nat, length : Nat]
      /\ position'.line = skip_spaces.line /\ position'.column = skip_spaces.column + SizeOf(Start, upto)
  BY <1>1, <1>4, <1>5
<1> QED
  BY <1>1, <1>2, <1>5, <1>6, OneMorePlace

(* Line breaks are in none of the characters that tokens are made of. *)
LEMMA NoBreakInTokens ==
  "line" \notin IdentifierUnits /\ "line" \notin DigitUnits /\ "line" \notin Operators
  /\ "line" \notin Specs /\ "line" \notin Keywords
BY UnitsAssumption DEF IdentifierUnits, Operators, Specs, Keywords, Spaces

LEMMA NumberUnits ==
  ASSUME Reading, IsNumber
  PROVE  EndOfNumber \in Start .. Len(text) /\ \A j \in Start .. EndOfNumber - 1 : text[j] # "line"
<1> DEFINE whole == FirstNot(DigitUnits, Start)
           stop == FirstNot(DigitUnits, whole + 1)
<1>1. Start \in 1 .. Len(text) /\ text \in Texts /\ Len(text) \in Nat
  BY StartType, TextProperties DEF Reading
<1>2. whole \in Start .. Len(text) /\ \A j \in Start .. whole - 1 : text[j] \in DigitUnits
  BY <1>1, EndIsNone, FirstNotIn
<1>3. whole \in 1 .. Len(text)
  BY <1>1, <1>2
<1>4. EndOfNumber = IF text[whole] = "dot" THEN stop ELSE whole
  BY DEF EndOfNumber
<1>5. CASE text[whole] = "dot"
  <2> HIDE DEF whole
  <2>1. whole + 1 \in 1 .. Len(text)
    BY <1>1, <1>3, <1>5, NextInText
  <2>2. stop \in whole + 1 .. Len(text) /\ \A j \in whole + 1 .. stop - 1 : text[j] \in DigitUnits
    BY <1>1, <2>1, EndIsNone, FirstNotIn
  <2> HIDE DEF stop
  <2>3. \A j \in Start .. stop - 1 : j \in Start .. whole - 1 \/ j = whole \/ j \in whole + 1 .. stop - 1
    BY <1>1, <1>2, <2>2
  <2>4. \A j \in Start .. stop - 1 : text[j] # "line"
    BY <1>2, <1>5, <2>2, <2>3, NoBreakInTokens
  <2>5. stop \in Start .. Len(text)
    BY <1>1, <1>2, <2>2
  <2> QED
    BY <1>4, <1>5, <2>4, <2>5
<1>6. CASE text[whole] # "dot"
  <2> HIDE DEF whole, stop
  <2> QED
    BY <1>2, <1>4, <1>6, NoBreakInTokens
<1> QED
  BY <1>5, <1>6

LEMMA PlacesInitially == TokensInit => PlacesInv
<1> SUFFICES ASSUME TokensInit
             PROVE  PlacesInv
  OBVIOUS
<1>1. /\ TokensInv /\ at = 1 /\ Len(tokens) = 0
      /\ position = [line |-> 1, column |-> 1, length |-> 0]
  <2>1. tokens = <<>>
    BY DEF TokensInit
  <2> QED
    BY <2>1, InvInitially, EmptySeq DEF TokensInit
<1>2. /\ text \in Texts /\ 1 \in 1 .. Len(text)
  BY <1>1, TextProperties DEF TokensInv, Reading
<1>3. CountedBreaks(1) = {} /\ SizeOf(1, 1) = 0
  <2>1. 1 \in 1 .. Len(text) /\ Len(text) \in Nat
    BY <1>2, TextProperties
  <2> QED
    BY <1>2, <2>1, SizeOfNext DEF CountedBreaks
<1>4. StartsLine(1, 1)
  BY <1>3 DEF StartsLine
<1>5. Cardinality(CountedBreaks(1)) = 0
  BY <1>3, FS_EmptySet
<1>6. Says(position, at)
  BY <1>1, <1>3, <1>4, <1>5 DEF Says
<1> QED
  BY <1>1, <1>6 DEF PlacesInv, SpansRead

LEMMA PlacesPreserved == PlacesInv /\ [tokenization]_token_vars => PlacesInv'
<1> SUFFICES ASSUME PlacesInv, [tokenization]_token_vars
             PROVE  PlacesInv'
  OBVIOUS
<1>1. /\ TokensInv' /\ TokensInv /\ Reading /\ text \in Texts /\ Len(text) \in Nat
      /\ Start \in at .. Len(text) /\ Start \in 1 .. Len(text) /\ at \in 1 .. Len(text)
  BY InvPreserved, StartType, TextProperties DEF PlacesInv, TokensInv, Reading
<1>2. CASE try_digit
  <2>1. IsNumber /\ list_push_back("NUM", "NONE", sscanf(Spelling(Start, EndOfNumber)), EndOfNumber)
    BY <1>2 DEF try_digit
  <2>2. EndOfNumber \in Start .. Len(text) /\ \A j \in Start .. EndOfNumber - 1 : text[j] # "line"
    BY <1>1, <2>1, NumberUnits
  <2> QED
    BY <1>1, <2>1, <2>2, TokenPlaces
<1>3. CASE try_include
  <2>1. IsInclude /\ list_push_back("INCLUDE", "NONE", <<0>>, RightBorder + 1)
    BY <1>3 DEF try_include
  <2>2. /\ RightBorder \in 1 .. Len(text) /\ text[RightBorder] = "GREATER"
        /\ LeftBorder \in Start + 1 .. Len(text) /\ LeftBorder + 1 \in 1 .. Len(text)
    BY <1>1, <2>1, IncludeNames DEF IsInclude
  <2>3. RightBorder \in LeftBorder + 1 .. Len(text)
    BY <1>1, <2>2, IdentifierEnds DEF RightBorder
  <2>4. RightBorder + 1 \in 1 .. Len(text)
    BY <1>1, <2>2, NextInText
  <2>5. RightBorder + 1 \in Start .. Len(text)
    BY <1>1, <2>2, <2>3, <2>4
  <2> QED
    BY <1>1, <2>1, <2>5, TokenPlaces
<1>4. ASSUME text[Start] \in Operators \cup Specs \cup Keywords
      PROVE  Start + 1 \in Start .. Len(text) /\ \A j \in Start .. (Start + 1) - 1 : text[j] # "line"
  <2>1. text[Start] # "end" /\ text[Start] # "line"
    BY <1>4, EndIsNone, NoBreakInTokens
  <2>2. Start + 1 \in 1 .. Len(text)
    BY <1>1, <2>1, NextInText
  <2> QED
    BY <1>1, <2>1, <2>2
<1>5. CASE try_op
  <2>1. text[Start] \in Operators /\ list_push_back("OP", text[Start], <<>>, Start + 1)
    BY <1>5 DEF try_op
  <2> QED
    BY <1>1, <1>4, <2>1, TokenPlaces
<1>6. CASE try_spec
  <2>1. text[Start] \in Specs /\ list_push_back("SPEC", text[Start], <<>>, Start + 1)
    BY <1>6 DEF try_spec
  <2> QED
    BY <1>1, <1>4, <2>1, TokenPlaces
<1>7. CASE try_keyword
  <2>1. text[Start] \in Keywords /\ list_push_back("KEYWORD", text[Start], <<>>, Start + 1)
    BY <1>7 DEF try_keyword
  <2> QED
    BY <1>1, <1>4, <2>1, TokenPlaces
<1>8. CASE try_identifier
  <2> DEFINE upto == EndOfIdentifier(Start)
             number == IdNumber(TableAfterToken, Spelling(Start, upto))
  <2>1. list_push_back("ID", "NONE", <<number>>, upto)
    BY <1>8 DEF try_identifier
  <2>2. upto \in Start .. Len(text) /\ \A j \in Start .. upto - 1 : text[j] # "line"
    BY <1>1, IdentifierEnds, NoBreakInTokens
  <2> HIDE DEF upto, number
  <2> QED
    BY <1>1, <2>1, <2>2, TokenPlaces
<1>9. CASE Overrun \/ SyntaxError \/ UNCHANGED token_vars
  <2>1. UNCHANGED <<text, at, position, tokens, spans>>
    BY <1>9 DEF Overrun, SyntaxError, token_vars
  <2>2. /\ \A i : InInclude(i)' = InInclude(i)
        /\ \A from : CountedBreaks(from)' = CountedBreaks(from)
        /\ \A a, b : SizeOf(a, b)' = SizeOf(a, b)
    BY <2>1 DEF InInclude, CountedBreaks, SizeOf
  <2>3. Says(position, at)'
    BY <2>1, <2>2 DEF PlacesInv, Says, StartsLine
  <2>4. SpansRead'
    BY <2>1 DEF PlacesInv, SpansRead
  <2>5. \A k \in 1 .. Len(tokens') : CountedPosition(tokens[k], spans[k])'
    BY <2>1, <2>2 DEF PlacesInv, CountedPosition, CountedStart
  <2> QED
    BY <1>1, <2>3, <2>4, <2>5 DEF PlacesInv
<1>10. CASE EndOfText
  <2> DEFINE token == create_token("SPEC", "PROGRAM_END", <<>>, skip_spaces)
             span == [from |-> Start, upto |-> Start]
  <2>1. /\ tokens' = Append(tokens, token) /\ spans' = Append(spans, span)
        /\ position' = skip_spaces /\ at' = Start /\ UNCHANGED text
    BY <1>10 DEF EndOfText
  <2>2. /\ token.type = "SPEC" /\ token.code = "PROGRAM_END" /\ token.position = skip_spaces
        /\ span.from = Start /\ span.upto = Start
    BY DEF create_token
  <2>3. Start \in Start .. Len(text) /\ \A j \in Start .. Start - 1 : text[j] # "line"
    BY <1>1
  <2>4. SizeOf(Start, Start) = 0
    BY <1>1, <2>3, SizeOfNext
  <2>5. skip_spaces \in [line : Nat, column : Nat, length : Nat]
    BY SkippedSpaces DEF Says
  <2>6. skip_spaces.column = skip_spaces.column + SizeOf(Start, Start)
    BY <2>4, <2>5
  <2> HIDE DEF token, span
  <2> QED
    BY <1>1, <2>1, <2>2, <2>3, <2>5, <2>6, OneMorePlace
<1> QED
  BY <1>2, <1>3, <1>5, <1>6, <1>7, <1>8, <1>9, <1>10 DEF tokenization

-----------------------------------------------------------------------------
(* The theorems. *)

(* The pointer of the tokenizer never leaves the text, and the table of      *)
(* identifiers never more than fills its memory in a step that goes on. *)
THEOREM TypeCorrect == TokensSpec => []TypeOK
<1>1. TokensInv => TypeOK
  <2> SUFFICES ASSUME TokensInv
               PROVE  TypeOK
    OBVIOUS
  <2>1. \E A : tokens \in Seq(A)
    BY DEF TokensInv, Lists
  <2>2. Len(tokens) \in Nat
    BY <2>1
  <2> QED
    BY <2>2 DEF TokensInv, Reading, Lists, TypeOK
<1> QED
  BY <1>1, InvAlways, PTL

(* Identifiers of one name have one number and those of different names      *)
(* different ones, throughout the text (read_identifier). *)
THEOREM IdentifiersNumbered == TokensSpec => []IdentifiersOneToOne
<1>1. TokensInv => IdentifiersOneToOne
  <2> SUFFICES ASSUME TokensInv, NEW i \in 1 .. Len(tokens), NEW j \in 1 .. Len(tokens),
                      tokens[i].type = "ID", tokens[j].type = "ID"
               PROVE  tokens[i].value = tokens[j].value <=> NameOf(spans[i]) = NameOf(spans[j])
    BY DEF IdentifiersOneToOne
  <2>1. PICK m \in 1 .. Len(identifiers) :
          tokens[i].value = <<m - 1>> /\ identifiers[m] = NameOf(spans[i])
    BY DEF TokensInv, Numbered
  <2>2. PICK n \in 1 .. Len(identifiers) :
          tokens[j].value = <<n - 1>> /\ identifiers[n] = NameOf(spans[j])
    BY DEF TokensInv, Numbered
  <2>3. identifiers[m] = identifiers[n] <=> m = n
    BY DEF TokensInv, Distinct
  <2>4. <<m - 1>> = <<n - 1>> <=> m = n
    <3>1. m \in Int /\ n \in Int
      OBVIOUS
    <3>2. m - 1 = n - 1 <=> m = n
      BY <3>1
    <3>3. <<m - 1>> = <<n - 1>> <=> m - 1 = n - 1
      OBVIOUS
    <3> QED
      BY <3>2, <3>3
  <2> QED
    BY <2>1, <2>2, <2>3, <2>4
<1> QED
  BY <1>1, InvAlways, PTL

(* The table of identifiers, which read_identifier fills unchecked, is       *)
(* overrun only by texts with more names than it has entries. *)
THEOREM OverrunNeedsNames == TokensSpec => []OverrunOnlyByNames
<1>1. NamesInv => OverrunOnlyByNames
  BY DEF NamesInv
<1> QED
  BY <1>1, NamesInitially, NamesPreserved, PTL DEF TokensSpec

(* Before a token that comes after no broken include, every line break of    *)
(* the text has been counted. *)
LEMMA AllBreaksCounted ==
  ASSUME NEW k \in 1 .. Len(tokens), SpansRead, ~AfterBrokenInclude(k)
  PROVE  CountedBreaks(spans[k].from) = Breaks(spans[k].from)
<1> DEFINE from == spans[k].from
<1>1. from \in 1 .. Len(text)
  BY DEF SpansRead
<1>2. ASSUME NEW i \in 1 .. from - 1, text[i] = "line"
      PROVE  ~InInclude(i)
  <2> SUFFICES ASSUME NEW j \in 1 .. Len(tokens),
                      tokens[j].type = "INCLUDE", spans[j].from <= i, i < spans[j].upto
               PROVE  FALSE
    BY DEF InInclude
  <2>1. spans[j].from \in 1 .. Len(text) /\ spans[j].upto \in 1 .. Len(text)
    BY DEF SpansRead
  <2>2. i \in Int /\ i < from
    BY <1>1, <1>2
  <2>3. spans[j].from < from
    BY <1>1, <2>1, <2>2
  <2>4. i \in spans[j].from .. spans[j].upto - 1
    BY <2>1, <2>2
  <2> QED
    BY <1>2, <2>3, <2>4 DEF AfterBrokenInclude
<1> QED
  BY <1>2 DEF CountedBreaks, Breaks

(* Every token that comes after no include written over several lines has    *)
(* the exact line, column and length: what the tokenizer counts is then all  *)
(* there is to count (skip_spaces, and try_include on one line). *)
THEOREM PositionsExactWithoutBrokenIncludes == TokensSpec => []PositionsExactUnlessBroken
<1>1. PlacesInv => PositionsExactUnlessBroken
  <2> SUFFICES ASSUME PlacesInv, NEW k \in 1 .. Len(tokens), ~AfterBrokenInclude(k)
               PROVE  ExactPosition(tokens[k], spans[k])
    BY DEF PositionsExactUnlessBroken
  <2>1. SpansRead /\ CountedPosition(tokens[k], spans[k])
    BY DEF PlacesInv
  <2>2. CountedBreaks(spans[k].from) = Breaks(spans[k].from)
    BY <2>1, AllBreaksCounted
  <2>3. CountedStart(spans[k].from) = LineStart(spans[k].from)
    BY <2>2, Zenon DEF CountedStart, LineStart
  <2> QED
    BY <2>1, <2>2, <2>3 DEF CountedPosition, ExactPosition
<1> QED
  BY <1>1, PlacesInitially, PlacesPreserved, PTL DEF TokensSpec
=============================================================================
