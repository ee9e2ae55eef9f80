------------------------------- MODULE Stdlib -------------------------------
(***************************************************************************)
(* The standard library, my_stdlib.asm, called by a program that reads     *)
(* numbers and prints them, or others, in turn.                            *)
(*                                                                         *)
(* A double is an integer, in steps small against the last printed digit,  *)
(* or NaN.  What is read after a dot is multiplied by powers of 0.1, which *)
(* no double is equal to: each of these products may be a step off.        *)
(***************************************************************************)
EXTENDS Integers, Sequences, FiniteSets

CONSTANTS
  Inputs,       (* What stdin holds, as sequences of bytes.                    *)
  Others,       (* Other numbers to print, NaN among them.                     *)
  Decimals,     (* The digits printed after the dot: six.                      *)
  Step,         (* The steps in the last of them.                              *)
  Width,        (* The bits of rax: 64.                                        *)
  MaxNumber,    (* Larger sums are not told apart.                             *)
  MaxCalls      (* How often the program reads.                                *)

NaN == 1000000000     \* It stands for a number that no other is.

ASSUME StdlibAssumption ==
  Decimals \in Nat \ {0} /\ Step \in Nat \ {0} /\ Width \in Nat /\ MaxNumber \in Nat

LF == 10
Minus == 45
Dot == 46
Zero == 48

One == 10 ^ Decimals * Step             \* 1.0
Indefinite == 2 ^ (Width - 1)           \* What cvttsd2si gives out of range.

VARIABLES
  input,        (* What stdin has held at the start.                           *)
  unread,       (* What is left of it.                                         *)
  byte,         (* [rbp - 9], the buffer of a byte.                            *)
  result,       (* xmm0.                                                       *)
  weight,       (* xmm1: of the next digit after the dot.                      *)
  sign,         (* rbx.                                                        *)
  mode,         (* [rbp - 10]: 0 before the dot, 1 after it.                   *)
  at,           (* "call", "in_read", or "out" after a return of __in.         *)
  numbers,      (* History: what the calls of __in have returned.              *)
  printed       (* History: the number given to __out and what it has written, *)
                (* a sequence of one, until the next call of __in.             *)

stdlib_vars == <<input, unread, byte, result, weight, sign, mode, at, numbers, printed>>

-----------------------------------------------------------------------------
(* __in. *)

StartModeKept == mode           \* No mov [rbp - 10], dl.
StartMode == 0

(* The buffer holds what is on the stack: a line feed or anything else.      *)
EnterIn ==
  /\ at = "call" /\ Len(numbers) < MaxCalls
  /\ byte' \in {LF, Zero}
  /\ result' = 0
  /\ weight' = One \div 10
  /\ sign' = 0
  /\ mode' = StartMode
  /\ at' = "in_read"
  /\ printed' = <<>>
  /\ UNCHANGED <<input, unread, numbers>>

(* Read, and what follows.  At the end of the input nothing is read, rax     *)
(* says so, and the byte of last time is taken again.                        *)
ByteRead == IF unread = <<>> THEN byte ELSE Head(unread)
sys_read ==
  /\ byte' = ByteRead
  /\ unread' = IF unread = <<>> THEN unread ELSE Tail(unread)

Capped(n) == IF n > MaxNumber THEN MaxNumber ELSE n
DigitOf(b) == (b - Zero) % 256
Product(digit) == IF digit * weight = 0 THEN {0} ELSE {digit * weight + e : e \in {-1, 0, 1}}

EndsLineCr(b) == b = 13
EndsLine(b) == b = LF

in_minus ==
  /\ at = "in_read" /\ ByteRead = Minus
  /\ sys_read
  /\ sign' = 1
  /\ UNCHANGED <<input, result, weight, mode, at, numbers, printed>>

in_dot ==
  /\ at = "in_read" /\ ByteRead = Dot
  /\ sys_read
  /\ mode' = 1
  /\ UNCHANGED <<input, result, weight, sign, at, numbers, printed>>

IsDigit(b) == ~EndsLine(b) /\ b \notin {Minus, Dot}

in_digit ==
  /\ at = "in_read" /\ IsDigit(ByteRead) /\ mode = 0
  /\ sys_read
  /\ result' = Capped(result * 10 + DigitOf(ByteRead) * One)
  /\ UNCHANGED <<input, weight, sign, mode, at, numbers, printed>>

in_frac ==
  /\ at = "in_read" /\ IsDigit(ByteRead) /\ mode = 1
  /\ sys_read
  /\ \E product \in Product(DigitOf(ByteRead)) : result' = Capped(result + product)
  /\ weight' = weight \div 10
  /\ UNCHANGED <<input, sign, mode, at, numbers, printed>>

Signed(n) == IF sign = 1 THEN -n ELSE n

in_done ==
  /\ at = "in_read" /\ EndsLine(ByteRead)
  /\ sys_read
  /\ result' = Signed(result)
  /\ numbers' = Append(numbers, result')
  /\ at' = "out"
  /\ UNCHANGED <<input, weight, sign, mode, printed>>

__in == in_minus \/ in_dot \/ in_digit \/ in_frac \/ in_done

-----------------------------------------------------------------------------
(* __out. *)

cvttsd2si(n) ==
  IF n = NaN THEN -Indefinite
  ELSE LET whole == IF n < 0 THEN -(-n \div One) ELSE n \div One
       IN  IF whole \in -Indefinite .. Indefinite - 1 THEN whole ELSE -Indefinite

(* The register is divided as an unsigned number.                            *)
Unsigned(n) == IF n < 0 THEN n + 2 * Indefinite ELSE n

(* The last k decimal digits of n, most significant first.                   *)
LastDigits(n, k) ==
  LET digits[i \in 0 .. k] ==
        IF i = 0 THEN <<>> ELSE <<Zero + ((n \div 10 ^ (i - 1)) % 10)>> \o digits[i - 1]
  IN  digits[k]

NumberOfDigits(n) == CHOOSE k \in 1 .. Width : 10 ^ k > n /\ (k = 1 \/ 10 ^ (k - 1) <= n)

WholeOnce(n) == IF n = 0 THEN <<>> ELSE LastDigits(n, NumberOfDigits(n))
Whole(n) == LastDigits(n, NumberOfDigits(n))

(* NaN is not above 0.0, and a number that does not fit stays NaN or leaves  *)
(* what is above the register.                                               *)
Magnitude(n) == IF n # NaN /\ n < 0 THEN -n ELSE n
Fraction(n) ==
  IF n = NaN THEN NaN ELSE (n - cvttsd2si(n) * One) * 10 ^ Decimals

__out(n) ==
  LET magnitude == Magnitude(n)
  IN  (IF n = NaN \/ magnitude # n THEN <<Minus>> ELSE <<>>)
      \o Whole(Unsigned(cvttsd2si(magnitude)))
      \o <<Dot>> \o LastDigits(Unsigned(cvttsd2si(Fraction(magnitude))), Decimals) \o <<LF>>

-----------------------------------------------------------------------------
StdlibInit ==
  /\ input \in Inputs
  /\ unread = input
  /\ byte = Zero
  /\ result = 0
  /\ weight = 0
  /\ sign = 0
  /\ mode = 0
  /\ at = "call"
  /\ numbers = <<>>
  /\ printed = <<>>

Out ==
  /\ at = "out"
  /\ \E n \in {result} \cup Others : printed' = <<[number |-> n, text |-> __out(n)]>>
  /\ at' = "call"
  /\ UNCHANGED <<input, unread, byte, result, weight, sign, mode, numbers>>

StdlibNext == EnterIn \/ __in \/ Out

(* A running program goes on.                                                *)
StdlibSpec == StdlibInit /\ [][StdlibNext]_stdlib_vars /\ WF_stdlib_vars(StdlibNext)
-----------------------------------------------------------------------------
(* Properties. *)

(* The lines of the input, each without its end; what follows the last line  *)
(* feed is none.                                                             *)
LineFeeds == {i \in 1 .. Len(input) : input[i] = LF}
Line(i) ==
  LET Before(k) == {j \in LineFeeds : j < k}
      end == CHOOSE k \in LineFeeds : Cardinality(Before(k)) = i - 1
      start == CHOOSE k \in 0 .. end - 1 : (k = 0 \/ k \in Before(end)) /\ \A j \in Before(end) : j <= k
  IN  SubSeq(input, start + 1, end - 1)

Digits == Zero .. Zero + 9
Body(line) == IF line # <<>> /\ Head(line) = Minus THEN Tail(line) ELSE line
WellFormed(line) ==
  LET body == Body(line)
      dots == {i \in 1 .. Len(body) : body[i] = Dot}
  IN  /\ body # <<>> /\ body[1] # Dot /\ Cardinality(dots) <= 1
      /\ \A i \in 1 .. Len(body) : body[i] \in Digits \cup {Dot}

(* The value of a decimal number, in steps.                                  *)
WholeDigits(body) == Cardinality({i \in 1 .. Len(body) : \A j \in 1 .. i : body[j] # Dot})
ValueOfBody(body) ==
  LET whole == WholeDigits(body)
      Place(i) == IF i <= whole THEN One * 10 ^ (whole - i) ELSE One \div 10 ^ (i - whole - 1)
      value[i \in 0 .. Len(body)] ==
        IF i = 0 THEN 0
        ELSE value[i - 1] + IF body[i] = Dot THEN 0 ELSE (body[i] - Zero) * Place(i)
  IN  value[Len(body)]
ValueOf(line) == IF Body(line) = line THEN ValueOfBody(line) ELSE -ValueOfBody(Tail(line))

(* A call of __in returns the value of the line it is the turn of, whatever  *)
(* the calls before have read and left behind: exactly if there is no dot,   *)
(* otherwise up to the rounding of each digit.                               *)
ReadsLines ==
  \A i \in 1 .. Len(numbers) :
    i <= Cardinality(LineFeeds) /\ WellFormed(Line(i)) =>
      LET error == numbers[i] - ValueOf(Line(i))
          rounded == Len(Body(Line(i))) - WholeDigits(Body(Line(i)))
      IN  -rounded <= error /\ error <= rounded

(* Every number is printed as one line with all the digits after the dot,    *)
(* and a number that fits the register as its value, cut off after the last  *)
(* of them, with its sign and no needless zero.                              *)
PrintsValue ==
  \A i \in 1 .. Len(printed) :
    LET n == printed[i].number
        text == printed[i].text
        line == SubSeq(text, 1, Len(text) - 1)
        body == Body(line)
    IN  /\ text[Len(text)] = LF /\ WellFormed(line)
        /\ Len(body) = WholeDigits(body) + 1 + Decimals
        /\ Magnitude(n) < Indefinite * One =>
             /\ ValueOfBody(body) = Magnitude(n) - (Magnitude(n) % Step)
             /\ line # body <=> n < 0
             /\ body[1] = Zero => WholeDigits(body) = 1

(* A call of __in returns if there is still a line feed to be read.  Nothing *)
(* is promised otherwise: it does not see the end of the input.              *)
ReadingEnds ==
  (at = "in_read" /\ \E i \in 1 .. Len(unread) : unread[i] = LF) ~> at = "out"
=============================================================================
