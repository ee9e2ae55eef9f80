------------------------------ MODULE MCScopes ------------------------------
(***************************************************************************)
(* Small constants for Scopes: the name of the entry point, another name,  *)
(* and the name of a built-in that takes one argument.                     *)
(***************************************************************************)
EXTENDS Scopes

CONSTANTS main, x, sqrt

AllNames == {main, x, sqrt}
BothEntryNames == {main, x}    \* "main" and the word of the language
BuiltinNames == {sqrt}
OneArgument == [id \in BuiltinNames |-> 1]
=============================================================================
