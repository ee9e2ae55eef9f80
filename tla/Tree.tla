-------------------------------- MODULE Tree --------------------------------
(***************************************************************************)
(* The AST after build_scopes (tree/tree.h, front_end/source/              *)
(* node_functions.c).  A node has its kind, the operation of a NODE_OP,    *)
(* the number its data holds (the value of a constant, the stack_offset of *)
(* a variable, the id_number of a call) and its children; NODE_ARGS and    *)
(* the variable of a declaration are folded into their parents.            *)
(***************************************************************************)
EXTENDS Integers

CONSTANTS
  Name,           (* The table of identifiers: the name of each number.        *)
  Unit            (* The number 1.0.  A number is an integer, in steps of the  *)
                  (* smallest number above 0.0 that is told from it.           *)

ASSUME UnitAssumption == Unit \in Nat \ {0}

Num(value) == [kind |-> "NUM", op |-> "NONE", num |-> value, kids |-> <<>>]
Var(offset) == [kind |-> "VAR", op |-> "NONE", num |-> offset, kids |-> <<>>]
Op(op, left, right) == [kind |-> "OP", op |-> op, num |-> 0, kids |-> <<left, right>>]
CallNode(id, args) == [kind |-> "CALL", op |-> "NONE", num |-> id, kids |-> args]
VarDecl(offset, init) == [kind |-> "VAR_DECL", op |-> "NONE", num |-> offset, kids |-> init]
Statement(kind, kids) == [kind |-> kind, op |-> "NONE", num |-> 0, kids |-> kids]

Arithmetic == {"ADD", "SUB", "MUL", "DIV"}
Comparisons == {"IS_EQUAL", "IS_NOT_EQUAL", "GREATER_EQUAL", "GREATER", "LESS_EQUAL", "LESS"}
Logic == {"LOGIC_OR", "LOGIC_AND"}

EntryNames == {"teorema", "main"}

(* The nodes of a set and those below them, down to a depth.                 *)
Children(nodes) == UNION {{n.kids[i] : i \in DOMAIN n.kids} : n \in nodes}
Below(nodes, depth) ==
  LET level[d \in 0 .. depth] ==
        IF d = 0 THEN nodes ELSE LET above == level[d - 1] IN above \cup Children(above)
  IN  level[depth]
=============================================================================
