------------------------------- MODULE Binding -------------------------------
(***************************************************************************)
(* What static scoping promises, without scopes, lists or searches: at     *)
(* every point of a program each name has at most one meaning, a block     *)
(* starts with the meanings around it and gives them back when it ends,    *)
(* and every binding is a new one.                                         *)
(***************************************************************************)
EXTENDS Naturals, Sequences

CONSTANTS Name, Unbound

VARIABLES
  env,      (* The current meaning of every name: a binding number or Unbound. *)
  outer,    (* The meanings to give back, the innermost block's last.          *)
  next,     (* The number of the next binding.                                 *)
  answer    (* The meaning of the last name that was looked up.                *)

NothingBound == [n \in Name |-> Unbound]

Init ==
  /\ env = NothingBound
  /\ outer = <<>>
  /\ next = 0
  /\ answer = Unbound

Open ==
  /\ outer' = Append(outer, env)
  /\ UNCHANGED <<env, next, answer>>

(* A block binds a name at most once. *)
Bind(n) ==
  /\ outer # <<>> /\ env[n] = outer[Len(outer)][n]
  /\ env' = [env EXCEPT ![n] = next]
  /\ next' = next + 1
  /\ UNCHANGED <<outer, answer>>

Lookup(n) ==
  /\ env[n] # Unbound
  /\ answer' = env[n]
  /\ UNCHANGED <<env, outer, next>>

Close ==
  /\ outer # <<>>
  /\ env' = outer[Len(outer)]
  /\ outer' = SubSeq(outer, 1, Len(outer) - 1)
  /\ UNCHANGED <<next, answer>>

GiveUp ==
  /\ env' = NothingBound
  /\ outer' = <<>>
  /\ UNCHANGED <<next, answer>>

Next == Open \/ Close \/ GiveUp \/ \E n \in Name : Bind(n) \/ Lookup(n)

Spec == Init /\ [][Next]_<<env, outer, next, answer>>
=============================================================================
