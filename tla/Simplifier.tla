----------------------------- MODULE Simplifier -----------------------------
(***************************************************************************)
(* The middle end, middle_end/source: middle_end_run calls simplify_node   *)
(* on the root until a call has changed nothing.                           *)
(*                                                                         *)
(* A call of simplify_node is a recursive operator that returns the new    *)
(* tree, the flag `simplifications` and whether the compiler has gone on.  *)
(* It has not when a null pointer was followed: the build instruments such *)
(* accesses, so that they stop the compiler.                               *)
(***************************************************************************)
EXTENDS Language

CONSTANTS
  Sources,      (* The analysed programs, as in CodeGen.                       *)
  Inputs,       (* Typed numbers on which the meaning is compared.             *)
  Tolerance     (* NUMBER_CLOSE_TO_ZERO, in steps.                             *)

ASSUME ToleranceAssumption == Tolerance \in 1 .. Unit

VARIABLES
  source,           (* History: the tree before the first pass.                *)
  tree,
  simplifications,  (* Set by the last pass, at first by middle_end_run.       *)
  stage,            (* "running", "done", or "crashed" on a null pointer.      *)
  lost              (* History: what the rewritings so far may have changed,   *)
                    (* of {"effect", "tolerance"}.                             *)

simplifier_vars == <<source, tree, simplifications, stage, lost>>

-----------------------------------------------------------------------------
(* Constants. *)

is_close_to_zero(number) == number # NaN /\ -Tolerance < number /\ number < Tolerance

(* e is a number taken for n.                                                *)
Is(e, n) == e.kind = "NUM" /\ is_close_to_zero(Compute("subsd", e.num, n))

FoldStrict(op, a, b) ==         \* x >= x would be false.
  CASE op = "GREATER_EQUAL" -> Truth(NaN \notin {a, b} /\ a > b)
    [] OTHER -> Meaning(IF op = "LOGIC_OR" THEN "ADD" ELSE IF op = "LOGIC_AND" THEN "MUL" ELSE op, a, b)
Fold(op, a, b) ==
  LET equal == is_close_to_zero(Compute("subsd", a, b))
      ordered == NaN \notin {a, b}
  IN  CASE op \in Arithmetic -> Meaning(op, a, b)
        [] op = "IS_EQUAL" -> Truth(equal)
        [] op = "IS_NOT_EQUAL" -> Truth(~equal)
        [] op = "LOGIC_OR" -> Truth(~is_close_to_zero(a) \/ ~is_close_to_zero(b))
        [] op = "LOGIC_AND" -> Truth(~is_close_to_zero(a) /\ ~is_close_to_zero(b))
        [] op = "GREATER_EQUAL" -> Truth((ordered /\ a > b) \/ equal)
        [] op = "GREATER" -> Truth(ordered /\ a > b)
        [] op = "LESS_EQUAL" -> Truth((ordered /\ a < b) \/ equal)
        [] op = "LESS" -> Truth(ordered /\ a < b)

(* A number that is not n and is taken for it.                               *)
TakenFor(number, n) == number # n /\ is_close_to_zero(Compute("subsd", number, n))

-----------------------------------------------------------------------------
(* Rewriting one node. *)

BothConstant(node) == \A i \in 1 .. 2 : node.kids[i].kind = "NUM"
EitherIs(node, n) == \E i \in 1 .. 2 : Is(node.kids[i], n)

Vanishes(node) ==
  \/ node.op = "MUL" /\ EitherIs(node, 0)
  \/ node.op = "DIV" /\ Is(node.kids[1], 0)

(* README 309, 311: x + 0, x - 0, x * 1 and 0 - x.                           *)
Neutral(node) ==
  \/ node.op = "MUL" /\ EitherIs(node, Unit)
  \/ node.op \in {"ADD", "SUB"} /\ EitherIs(node, 0)

Reducible(node) ==
  node.kind = "OP" /\ (BothConstant(node) \/ Vanishes(node) \/ Neutral(node))

(* What simplify_node returns.                                               *)
Kept(node) == [node |-> node, simplified |-> FALSE, crashed |-> FALSE, lost |-> {}]
Replaced(number, losses) ==
  [node |-> Num(number), simplified |-> TRUE, crashed |-> FALSE, lost |-> losses]

RECURSIVE HasEffect(_)
HasEffect(e) ==
  \/ e.kind = "CALL" \/ e.op = "ASSIGN"
  \/ \E i \in 1 .. Len(e.kids) : HasEffect(e.kids[i])

(* What a rewriting may change: a call or an assignment is dropped, or a     *)
(* number is taken for another one.                                          *)
LossesOf(node) ==
  LET a == node.kids[1]
      b == node.kids[2]
      Taken(e, n) == e.kind = "NUM" /\ TakenFor(e.num, n)
  IN  {w \in {"effect", "tolerance"} :
         \/ w = "effect" /\ HasEffect(node)
         \/ /\ w = "tolerance"
            /\ \/ node.op \in Comparisons /\ TakenFor(a.num, b.num)
               \/ node.op \in Logic \cup {"MUL", "DIV"} /\ Taken(a, 0)
               \/ node.op \in Logic \cup {"MUL"} /\ Taken(b, 0)}

fold(node) == Replaced(Fold(node.op, node.kids[1].num, node.kids[2].num), LossesOf(node))

(* The copy has no array of children yet when its first child is assigned,   *)
(* and a leaf has none when its first child is read: no copy is finished.    *)
copy_node(node) == [node |-> node, simplified |-> TRUE, crashed |-> TRUE, lost |-> {}]

rewriteNeutralFirst(node) == IF Neutral(node) THEN copy_node(node) ELSE fold(node)
rewriteSubtraction(node) ==     \* a - 0 as a + 0, to be simplified next time.
  IF BothConstant(node) THEN fold(node)
  ELSE [Kept(Op("ADD", node.kids[1], node.kids[2])) EXCEPT !.simplified = node.op # "ADD"]
rewrite(node) ==
  IF BothConstant(node) THEN fold(node)
  ELSE IF Vanishes(node) THEN Replaced(0, LossesOf(node))
  ELSE copy_node(node)

-----------------------------------------------------------------------------
(* One call on a tree: the rules at the node itself, otherwise its first two *)
(* children in turn.  Further children are not visited.                      *)
WasSimplifiedSecond(first, second) == second.simplified
WasSimplified(first, second) == first.simplified \/ second.simplified


(* The element of a set of one: TLC evaluates it once.                       *)
The(S) == CHOOSE e \in S : TRUE

RECURSIVE simplify_node(_), FirstTwo(_)

FirstTwo(kids) ==
  The({[kids |-> (CASE kids = <<>> -> kids [] Len(kids) = 1 -> <<first.node>>
                    [] OTHER -> <<first.node, second.node>>)
                   \o SubSeq(kids, 3, Len(kids)),
        simplified |-> WasSimplified(first, second),
        crashed |-> first.crashed \/ second.crashed,
        lost |-> first.lost \cup second.lost] :
         first \in {IF kids = <<>> THEN Kept(kids) ELSE simplify_node(kids[1])},
         second \in {IF Len(kids) < 2 THEN Kept(kids) ELSE simplify_node(kids[2])}})

simplify_node(node) ==
  IF Reducible(node) THEN rewrite(node)
  ELSE The({[node |-> [node EXCEPT !.kids = below.kids], simplified |-> below.simplified,
             crashed |-> below.crashed, lost |-> below.lost] : below \in {FirstTwo(node.kids)}})

(* The root's second child is the list of functions, whose second child is a *)
(* body; includes and parameters are leaves.                                 *)
SimplifyProgram(program) ==
  The({[program |-> [i \in 1 .. Len(program) |-> [program[i] EXCEPT !.body = below.kids[i]]],
        simplified |-> below.simplified, crashed |-> below.crashed, lost |-> below.lost] :
         below \in {FirstTwo([i \in 1 .. Len(program) |-> program[i].body])}})

-----------------------------------------------------------------------------
FlagStays(result) == simplifications \/ result.simplified
Flag(result) == result.simplified

SimplifierInit ==
  /\ source \in Sources
  /\ tree = source
  /\ simplifications = TRUE
  /\ stage = "running"
  /\ lost = {}

Pass ==
  /\ stage = "running" /\ simplifications
  /\ \E result \in {SimplifyProgram(tree)} :
         /\ tree' = IF result.crashed THEN tree ELSE result.program
         /\ simplifications' = Flag(result)
         /\ stage' = IF result.crashed THEN "crashed" ELSE stage
         /\ lost' = lost \cup result.lost
  /\ UNCHANGED source

Finish ==
  /\ stage = "running" /\ ~simplifications
  /\ stage' = "done"
  /\ UNCHANGED <<source, tree, simplifications, lost>>

SimplifierNext == Pass \/ Finish

(* The compiler is one sequential program and keeps running.                 *)
SimplifierSpec ==
  SimplifierInit /\ [][SimplifierNext]_simplifier_vars /\ WF_simplifier_vars(SimplifierNext)

-----------------------------------------------------------------------------
(* Properties. *)

(* After every pass the program still prints what the source prints, for     *)
(* every input on which the source meets no NaN, unless a rewriting dropped  *)
(* a call or an assignment, or took a number near 0.0 or 1.0 for it.         *)
MeaningKept ==
  lost = {} /\ tree # source =>
    \A numbers \in Inputs :
      LET before == Run(source, numbers)
      IN  before.nan \/ Printed(tree, numbers) = before.output

RECURSIVE Reached(_), Size(_)
Reached(kids) ==
  UNION {{kids[i]} \cup Reached(kids[i].kids) : i \in {j \in 1 .. 2 : j <= Len(kids)}}
ReachedIn(program) == Reached([i \in 1 .. Len(program) |-> program[i].body])

Size(kids) == IF kids = <<>> THEN 0 ELSE 1 + Size(kids[1].kids) + Size(Tail(kids))
SizeOf(program) == Size([i \in 1 .. Len(program) |-> program[i].body])

(* README 301: the passes go on as long as something can be simplified.  So  *)
(* it is for the first two children of every node, the only ones visited.    *)
ReachedSimplified ==
  stage = "done" => \A node \in ReachedIn(tree) : ~Reducible(node)

(* The compiler gets through every tree in which simplify_node meets none of *)
(* the neutral operations; it fails at those, which README 309-311 supports. *)
CrashesOnlyAtNeutral ==
  stage = "crashed" =>
    \E node \in ReachedIn(tree) : node.kind = "OP" /\ Neutral(node) /\ ~Vanishes(node) /\ ~BothConstant(node)

(* A pass that changes the tree makes it smaller: no two rewritings undo     *)
(* each other.                                                               *)
PassesShrink == [][tree' # tree => SizeOf(tree') < SizeOf(tree)]_simplifier_vars

(* The loop of middle_end_run ends.                                          *)
PassesEnd == <>(stage # "running")
=============================================================================
