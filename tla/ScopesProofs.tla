---------------------------- MODULE ScopesProofs ----------------------------
(***************************************************************************)
(* Proofs about Scopes, for every table of names, every set of functions   *)
(* and every nesting of blocks.  The last ones are that Scopes implements  *)
(* Binding: whatever the walk over any program does to its chain of scopes *)
(* is what static scoping says, or nothing.                                *)
(***************************************************************************)
EXTENDS Scopes, FiniteSetTheorems, SequenceTheorems, WellFoundedInduction, TLAPS

-----------------------------------------------------------------------------
(* The chain of scopes as a stack. *)

(* A non-empty set of positions of a sequence has a greatest element, so the *)
(* search outwards from the innermost scope stops at the first holder.       *)
LEMMA GreatestPosition ==
  ASSUME NEW n \in Nat, NEW S \in SUBSET (1 .. n), S # {}
  PROVE  Max(S) \in S
<1> DEFINE T == {k \in Nat : n - k \in S}
<1>1. PICK s \in S : TRUE
  OBVIOUS
<1>2. n - s \in T
  <2>1. s \in 1 .. n
    BY <1>1
  <2>2. n - s \in Nat /\ n - (n - s) = s
    BY <2>1
  <2> QED
    BY <1>1, <2>2
<1>3. PICK k \in T : \A j \in T : ~(<<j, k>> \in OpToRel(<, Nat))
  <2>1. T # {} /\ T \subseteq Nat
    BY <1>2
  <2> HIDE DEF T
  <2> QED
    BY <2>1, WFMin, NatLessThanWellFounded, Zenon
<1>4. \A j \in T : k <= j
  <2> SUFFICES ASSUME NEW j \in T, j < k
               PROVE  FALSE
    OBVIOUS
  <2>1. <<j, k>> \in OpToRel(<, Nat)
    BY DEF OpToRel
  <2> QED
    BY <2>1, <1>3
<1>5. n - k \in S
  OBVIOUS
<1>6. \A x \in S : n - k >= x
  <2> SUFFICES ASSUME NEW x \in S
               PROVE  n - k >= x
    OBVIOUS
  <2>1. n - x \in Nat /\ n - (n - x) = x
    OBVIOUS
  <2>2. n - x \in T
    BY <2>1
  <2>3. x \in Int /\ k \in Int
    OBVIOUS
  <2> HIDE DEF T
  <2>4. k <= n - x
    BY <1>4, <2>2, Zenon
  <2> QED
    BY <2>3, <2>4
<1> QED
  BY <1>5, <1>6 DEF Max

(* What the search returns is a declaration of the chain or the null pointer. *)
LEMMA SeekType ==
  ASSUME NEW chain \in Seq(Scope), NEW id \in Id
  PROVE  seek_var(chain, id) \in Decl \cup {NoDecl}
<1> DEFINE H == {i \in 1 .. Len(chain) : chain[i].decl_var[id] # NoDecl}
<1>1. CASE H = {}
  BY <1>1 DEF seek_var
<1>2. CASE H # {}
  <2>1. Max(H) \in H
    <3>1. H \in SUBSET (1 .. Len(chain)) /\ Len(chain) \in Nat
      OBVIOUS
    <3> HIDE DEF H
    <3> QED
      BY <1>2, <3>1, GreatestPosition
  <2>2. chain[Max(H)] \in Scope
    BY <2>1
  <2>3. chain[Max(H)].decl_var[id] \in Decl \cup {NoDecl}
    BY <2>2 DEF Scope
  <2> QED
    BY <1>2, <2>3 DEF seek_var
<1> QED
  BY <1>1, <1>2

(* What calling a function that opens a scope does to the chain. *)
LEMMA CallChain ==
  ASSUME NEW c \in Seq(Scope), c # <<>>, NEW at \in Places, NEW s \in Scope
  PROVE  LET d == Append([c EXCEPT ![Len(c)].at = at], s)
         IN  /\ d \in Seq(Scope)
             /\ d # <<>>
             /\ Len(d) = Len(c) + 1
             /\ d[Len(c) + 1] = s
             /\ d[Len(c)] = [c[Len(c)] EXCEPT !.at = at]
             /\ \A i \in 1 .. Len(c) - 1 : d[i] = c[i]
<1>1. Len(c) \in 1 .. Len(c) /\ c[Len(c)] \in Scope
  OBVIOUS
<1>2. [c[Len(c)] EXCEPT !.at = at] \in Scope
  BY <1>1 DEF Scope
<1> QED
  BY <1>1, <1>2

(* What moving on inside a function does to the chain. *)
LEMMA MoveChain ==
  ASSUME NEW c \in Seq(Scope), c # <<>>, NEW at \in Places
  PROVE  LET d == [c EXCEPT ![Len(c)].at = at]
         IN  /\ d \in Seq(Scope)
             /\ d # <<>>
             /\ Len(d) = Len(c)
             /\ d[Len(c)] = [c[Len(c)] EXCEPT !.at = at]
             /\ \A i \in 1 .. Len(c) - 1 : d[i] = c[i]
<1>1. Len(c) \in 1 .. Len(c) /\ c[Len(c)] \in Scope
  OBVIOUS
<1>2. [c[Len(c)] EXCEPT !.at = at] \in Scope
  BY <1>1 DEF Scope
<1> QED
  BY <1>1, <1>2

(* What returning from such a function does to the chain. *)
LEMMA PopChain ==
  ASSUME NEW c \in Seq(Scope), c # <<>>
  PROVE  LET d == SubSeq(c, 1, Len(c) - 1)
         IN  /\ d \in Seq(Scope)
             /\ Len(d) = Len(c) - 1
             /\ \A i \in 1 .. Len(c) - 1 : d[i] = c[i]
<1>1. Len(c) \in Nat \ {0} /\ Len(c) - 1 \in Int
  OBVIOUS
<1>2. \A i \in 1 .. Len(c) - 1 : c[i] \in Scope
  BY <1>1
<1> DEFINE n == Len(c) - 1
           d == SubSeq(c, 1, n)
<1>3. n \in Nat
  BY <1>1
<1>4. /\ d \in Seq(Scope)
      /\ Len(d) = IF 1 <= n THEN n - 1 + 1 ELSE 0
      /\ \A i \in 1 .. n - 1 + 1 : d[i] = c[1 + i - 1]
  <2>1. n \in Int /\ \A i \in 1 .. n : c[i] \in Scope
    BY <1>2, <1>3
  <2> HIDE DEF n
  <2> QED
    BY <2>1, SubSeqProperties
<1>5. Len(d) = n
  <2> HIDE DEF n, d
  <2> QED
    BY <1>3, <1>4
<1>6. \A i \in 1 .. n : d[i] = c[i]
  <2> HIDE DEF d
  <2> QED
    BY <1>3, <1>4
<1> QED
  BY <1>4, <1>5, <1>6

(* What replacing the innermost scope does to the chain. *)
LEMMA ReplaceTop ==
  ASSUME NEW c \in Seq(Scope), c # <<>>, NEW s \in Scope
  PROVE  LET d == [c EXCEPT ![Len(c)] = s]
         IN  /\ d \in Seq(Scope)
             /\ d # <<>>
             /\ Len(d) = Len(c)
             /\ d[Len(c)] = s
             /\ \A i \in 1 .. Len(c) - 1 : d[i] = c[i]
  OBVIOUS

-----------------------------------------------------------------------------
(* The shape of the walk. *)

(* Where the walk is: functions are declared before any is analysed, and a   *)
(* frame is recorded for exactly the functions whose analysis is over.       *)
WalkOK ==
  /\ result = "declaring" => func = 0 /\ scopes = <<>>
  /\ scopes # <<>> => result = "analyzing" /\ func > 0 /\ Len(frame_size) = func - 1
  /\ result = "analyzing" /\ scopes = <<>> => Len(frame_size) = func
  /\ Len(frame_size) <= func

(* The outermost scope, and no other, is that of the function, and nothing   *)
(* is opened inside it before its parameters are declared.                   *)
ChainOK(chain) ==
  \A i \in 1 .. Len(chain) :
    /\ chain[i].kind = "func" <=> i = 1
    /\ i < Len(chain) => chain[i].at # "params"

Shape == TypeOK /\ WalkOK /\ ChainOK(scopes) /\ LoopDepthExact

(* The number of loop bodies of a chain is a natural number. *)
LEMMA LoopBodiesFinite ==
  ASSUME NEW c \in Seq(Scope)
  PROVE  /\ IsFiniteSet(LoopBodies(c))
         /\ Cardinality(LoopBodies(c)) \in Nat
<1>1. Len(c) \in Nat /\ LoopBodies(c) \in SUBSET (1 .. Len(c))
  BY DEF LoopBodies
<1>2. IsFiniteSet(1 .. Len(c))
  BY <1>1, FS_Interval
<1> QED
  BY <1>1, <1>2, FS_Subset, FS_CardinalityType

(* Stopping at an error keeps the shape, wherever the walk was. *)
LEMMA FailShape ==
  ASSUME Shape, NEW e \in Errors, Fail(e)
  PROVE  Shape'
<1> USE DEF Shape, Fail, program, counters, annotations
<1>1. TypeOK'
  BY DEF TypeOK, Results
<1>2. WalkOK'
  BY DEF WalkOK, TypeOK, Errors, DeclErrors, UseErrors, ProgErrors
<1>3. ChainOK(scopes')
  BY DEF ChainOK
<1>4. LoopDepthExact'
  BY DEF LoopDepthExact
<1> QED
  BY <1>1, <1>2, <1>3, <1>4

(* A step that only moves the walk keeps the shape if its chain is well      *)
(* formed and has the same loop bodies.                                      *)
LEMMA MoveShape ==
  ASSUME Shape, OnlyMoves, scopes # <<>>,
         scopes' \in Seq(Scope), scopes' # <<>>, ChainOK(scopes'),
         LoopBodies(scopes') = LoopBodies(scopes)
  PROVE  Shape'
<1> USE DEF Shape, OnlyMoves, program, counters, annotations
<1>1. TypeOK'
  BY DEF TypeOK
<1>2. WalkOK'
  BY DEF WalkOK
<1>3. LoopDepthExact'
  BY DEF LoopDepthExact
<1> QED
  BY <1>1, <1>2, <1>3

(* Opening a scope for anything but a loop body keeps the shape. *)
LEMMA CallShape ==
  ASSUME Shape, OnlyMoves, scopes # <<>>,
         NEW at \in Places \ {"params"}, NEW kind \in Kinds \ {"func"}, NEW place \in {"ops", "cond"},
         Top.kind # "while" \/ (Top.at # "body" /\ at # "body"),
         Call(at, NewScope(kind, place))
  PROVE  Shape'
<1> DEFINE n == Len(scopes)
           new == NewScope(kind, place)
<1>1. scopes \in Seq(Scope) /\ n \in Nat \ {0} /\ ChainOK(scopes)
  BY DEF Shape, TypeOK
<1>2. new \in Scope /\ new.kind = kind /\ new.at = place
  BY DEF NewScope, Scope, Places
<1>3. /\ scopes' \in Seq(Scope)
      /\ scopes' # <<>>
      /\ Len(scopes') = n + 1
      /\ scopes'[n + 1] = new
      /\ scopes'[n] = [scopes[n] EXCEPT !.at = at]
      /\ \A i \in 1 .. n - 1 : scopes'[i] = scopes[i]
  BY <1>1, <1>2, CallChain DEF Call
<1>4. scopes[n] \in Scope
  BY <1>1
<1>5. scopes'[n].kind = scopes[n].kind /\ scopes'[n].at = at
  BY <1>3, <1>4 DEF Scope
<1>6. ChainOK(scopes')
  <2> SUFFICES ASSUME NEW i \in 1 .. n + 1
               PROVE  /\ scopes'[i].kind = "func" <=> i = 1
                      /\ i < n + 1 => scopes'[i].at # "params"
    BY <1>3 DEF ChainOK
  <2>1. CASE i = n + 1
    BY <1>1, <1>2, <1>3, <2>1
  <2>2. CASE i = n
    BY <1>1, <1>5, <2>2 DEF ChainOK
  <2>3. CASE i \in 1 .. n - 1
    BY <1>1, <1>3, <2>3 DEF ChainOK
  <2> QED
    BY <1>1, <2>1, <2>2, <2>3
<1>7. LoopBodies(scopes') = LoopBodies(scopes)
  <2>1. n + 1 \notin LoopBodies(scopes')
    BY <1>2, <1>3 DEF LoopBodies
  <2>2. n \in LoopBodies(scopes') <=> n \in LoopBodies(scopes)
    BY <1>1, <1>3, <1>5 DEF LoopBodies, Top
  <2>3. \A i \in 1 .. n - 1 : i \in LoopBodies(scopes') <=> i \in LoopBodies(scopes)
    BY <1>1, <1>3 DEF LoopBodies
  <2>4. LoopBodies(scopes') \subseteq 1 .. n + 1 /\ LoopBodies(scopes) \subseteq 1 .. n
    BY <1>3 DEF LoopBodies
  <2>5. \A i : i \in LoopBodies(scopes') <=> i \in LoopBodies(scopes)
    BY <1>1, <2>1, <2>2, <2>3, <2>4
  <2> QED
    BY <2>5, SetExtensionality, Zenon
<1> QED
  BY <1>3, <1>6, <1>7, MoveShape

(* Moving from statement to expression and back keeps the shape. *)
LEMMA MoveToShape ==
  ASSUME Shape, OnlyMoves, scopes # <<>>, NEW at \in Places \ {"params"},
         Top.kind # "while", MoveTo(at)
  PROVE  Shape'
<1> DEFINE n == Len(scopes)
<1>1. scopes \in Seq(Scope) /\ n \in Nat \ {0} /\ ChainOK(scopes)
  BY DEF Shape, TypeOK
<1>2. /\ scopes' \in Seq(Scope)
      /\ scopes' # <<>>
      /\ Len(scopes') = n
      /\ scopes'[n] = [scopes[n] EXCEPT !.at = at]
      /\ \A i \in 1 .. n - 1 : scopes'[i] = scopes[i]
  BY <1>1, MoveChain DEF MoveTo
<1>3. scopes[n] \in Scope
  BY <1>1
<1>4. scopes'[n].kind = scopes[n].kind
  BY <1>2, <1>3 DEF Scope
<1>5. ChainOK(scopes')
  <2> SUFFICES ASSUME NEW i \in 1 .. n
               PROVE  /\ scopes'[i].kind = "func" <=> i = 1
                      /\ i < n => scopes'[i].at # "params"
    BY <1>2 DEF ChainOK
  <2>1. CASE i = n
    BY <1>1, <1>4, <2>1 DEF ChainOK
  <2>2. CASE i \in 1 .. n - 1
    BY <1>1, <1>2, <2>2 DEF ChainOK
  <2> QED
    BY <1>1, <2>1, <2>2
<1>6. LoopBodies(scopes') = LoopBodies(scopes)
  <2>1. n \notin LoopBodies(scopes') /\ n \notin LoopBodies(scopes)
    BY <1>4 DEF LoopBodies, Top
  <2>2. \A i \in 1 .. n - 1 : i \in LoopBodies(scopes') <=> i \in LoopBodies(scopes)
    BY <1>1, <1>2 DEF LoopBodies
  <2>3. LoopBodies(scopes') \subseteq 1 .. n /\ LoopBodies(scopes) \subseteq 1 .. n
    BY <1>2 DEF LoopBodies
  <2>4. \A i : i \in LoopBodies(scopes') <=> i \in LoopBodies(scopes)
    BY <1>1, <2>1, <2>2, <2>3
  <2> QED
    BY <2>4, SetExtensionality, Zenon
<1> QED
  BY <1>2, <1>5, <1>6, MoveShape

(* Closing a scope that is neither a function's nor a loop's keeps the shape. *)
LEMMA PopShape ==
  ASSUME Shape, OnlyMoves, scopes # <<>>, Top.kind \notin {"func", "while"}, Pop
  PROVE  Shape'
<1> DEFINE n == Len(scopes)
<1>1. scopes \in Seq(Scope) /\ n \in Nat \ {0} /\ ChainOK(scopes)
  BY DEF Shape, TypeOK
<1>2. /\ scopes' \in Seq(Scope)
      /\ Len(scopes') = n - 1
      /\ \A i \in 1 .. n - 1 : scopes'[i] = scopes[i]
  BY <1>1, PopChain DEF Pop
<1>3. n # 1
  BY <1>1 DEF ChainOK, Top
<1>4. scopes' # <<>>
  BY <1>1, <1>2, <1>3
<1>5. ChainOK(scopes')
  BY <1>1, <1>2 DEF ChainOK
<1>6. LoopBodies(scopes') = LoopBodies(scopes)
  BY <1>1, <1>2 DEF LoopBodies, Top
<1> QED
  BY <1>2, <1>4, <1>5, <1>6, MoveShape

(* Declaring a variable keeps the shape. *)
LEMMA DeclareShape ==
  ASSUME Shape, scopes # <<>>, NEW id \in Id, NEW position \in Nat, NEW at \in Places,
         Top.kind # "while", declare_var(id, position, at), param' \in Nat
  PROVE  Shape'
<1> DEFINE n == Len(scopes)
           v == [func |-> func, param |-> position, id |-> id,
                 unique_id |-> var_unique_id, stack_offset |-> NextSlot]
<1>1. scopes \in Seq(Scope) /\ n \in Nat \ {0} /\ ChainOK(scopes)
  BY DEF Shape, TypeOK
<1>2. v \in Decl
  BY DEF Shape, TypeOK, Decl, NextSlot
<1> DEFINE top == [scopes[n] EXCEPT !.at = at, !.decl_var[id] = v]
<1>3. top \in Scope /\ top.kind = scopes[n].kind /\ top.at = at
  <2>1. scopes[n] \in Scope
    BY <1>1
  <2> HIDE DEF v
  <2> QED
    BY <1>2, <2>1 DEF Scope
<1>4. /\ scopes' \in Seq(Scope)
      /\ scopes' # <<>>
      /\ Len(scopes') = n
      /\ scopes'[n].kind = scopes[n].kind
      /\ scopes'[n].at = at
      /\ \A i \in 1 .. n - 1 : scopes'[i] = scopes[i]
  <2>1. scopes' = [scopes EXCEPT ![Len(scopes)] = top]
    BY DEF declare_var, Top
  <2> HIDE DEF top
  <2> QED
    BY <1>1, <1>3, <2>1, ReplaceTop
<1>5. decl_nodes' \in Seq(Decl)
  <2>1. decl_nodes' = Append(decl_nodes, v) /\ decl_nodes \in Seq(Decl)
    BY DEF declare_var, Shape, TypeOK
  <2> HIDE DEF v
  <2> QED
    BY <1>2, <2>1
<1>6. current_stack_offset' \in Nat /\ var_unique_id' \in Nat
  <2>1. current_stack_offset' = current_stack_offset + 8 /\ var_unique_id' = var_unique_id + 1
    BY DEF declare_var, NextSlot
  <2>2. current_stack_offset \in Nat /\ var_unique_id \in Nat
    BY DEF Shape, TypeOK
  <2> QED
    BY <2>1, <2>2
<1>7. UNCHANGED <<result, prog_scope, entry_point_count, func, current_loop_depth,
                  frame_size, var_node>>
  BY DEF declare_var, program
<1>8. TypeOK'
  BY <1>4, <1>5, <1>6, <1>7 DEF Shape, TypeOK
<1>9. WalkOK'
  BY <1>4, <1>7 DEF Shape, WalkOK
<1>10. ChainOK(scopes')
  BY <1>1, <1>4 DEF ChainOK
<1>11. LoopBodies(scopes') = LoopBodies(scopes)
  BY <1>1, <1>4 DEF LoopBodies, Top
<1>12. LoopDepthExact'
  BY <1>7, <1>11 DEF Shape, LoopDepthExact
<1> QED
  BY <1>8, <1>9, <1>10, <1>12 DEF Shape

(* Where an action needs an open scope, there is one. *)
LEMMA InsideOpen ==
  ASSUME Shape, NEW kind, NEW at, Inside(kind, at)
  PROVE  /\ scopes # <<>> /\ Top.kind = kind /\ Top.at = at
         /\ result = "analyzing" /\ func \in 1 .. Len(prog_scope) /\ Len(frame_size) = func - 1
  BY DEF Inside, Shape, WalkOK, TypeOK

(* Nothing is open before the walk. *)
LEMMA InitShape == Init => Shape
<1> SUFFICES ASSUME Init PROVE Shape
  OBVIOUS
<1>1. TypeOK
  BY DEF Init, TypeOK, Results
<1>2. WalkOK
  BY DEF Init, WalkOK
<1>3. ChainOK(scopes)
  BY DEF Init, ChainOK
<1>4. LoopDepthExact
  BY DEF Init, LoopDepthExact
<1> QED
  BY <1>1, <1>2, <1>3, <1>4 DEF Shape

(* The steps outside the functions' bodies. *)
LEMMA ProgramShape ==
  ASSUME Shape,
         \/ \E id \in Id, params \in 0 .. MaxParams : declare_func(id, params)
         \/ CheckEntryPoint
         \/ Finish
  PROVE  Shape'
<1>1. ASSUME NEW id \in Id, NEW params \in 0 .. MaxParams, declare_func(id, params)
      PROVE  Shape'
  <2>1. CASE FuncIsNew(id)
    <3> DEFINE f == [id |-> id, params |-> params]
    <3>1. /\ prog_scope' = Append(prog_scope, f)
          /\ entry_point_count' = entry_point_count + (IF id \in EntryId THEN 1 ELSE 0)
          /\ UNCHANGED <<result, func, param, scopes, counters, annotations>>
      BY <1>1, <2>1 DEF declare_func
    <3>2. prog_scope' \in Seq(Func) /\ Len(prog_scope') = Len(prog_scope) + 1
      <4>1. f \in Func /\ prog_scope \in Seq(Func)
        BY DEF Func, Shape, TypeOK
      <4> HIDE DEF f
      <4> QED
        BY <3>1, <4>1
    <3>3. TypeOK'
      BY <3>1, <3>2 DEF Shape, TypeOK, counters, annotations
    <3>4. WalkOK' /\ ChainOK(scopes') /\ LoopDepthExact'
      BY <3>1 DEF Shape, WalkOK, ChainOK, LoopDepthExact, counters, annotations
    <3> QED
      BY <3>3, <3>4 DEF Shape
  <2>2. CASE ~FuncIsNew(id)
    BY <1>1, <2>2, FailShape DEF declare_func, Errors, DeclErrors
  <2> QED
    BY <2>1, <2>2
<1>2. CASE CheckEntryPoint
  <2>1. CASE EntryPointOk(entry_point_count)
    <3>1. /\ result = "declaring" /\ result' = "analyzing"
          /\ UNCHANGED <<program, func, param, scopes, counters, annotations>>
      BY <1>2, <2>1 DEF CheckEntryPoint
    <3>2. TypeOK'
      BY <3>1 DEF Shape, TypeOK, Results, program, counters, annotations
    <3>3. WalkOK' /\ ChainOK(scopes') /\ LoopDepthExact'
      BY <3>1 DEF Shape, TypeOK, WalkOK, ChainOK, LoopDepthExact, counters, annotations
    <3> QED
      BY <3>2, <3>3 DEF Shape
  <2>2. CASE ~EntryPointOk(entry_point_count)
    <3>1. \E e \in Errors : Fail(e)
      BY <1>2, <2>2 DEF CheckEntryPoint, Errors, ProgErrors
    <3> QED
      BY <3>1, FailShape
  <2> QED
    BY <2>1, <2>2
<1>3. CASE Finish
  <2>1. TypeOK'
    BY <1>3 DEF Finish, Shape, TypeOK, Results, program, counters, annotations
  <2>2. WalkOK' /\ ChainOK(scopes') /\ LoopDepthExact'
    BY <1>3 DEF Finish, Shape, WalkOK, ChainOK, LoopDepthExact, counters, annotations
  <2> QED
    BY <2>1, <2>2 DEF Shape
<1> QED
  BY <1>1, <1>2, <1>3

(* Entering a function. *)
LEMMA BeginFuncShape ==
  ASSUME Shape, BeginFunc
  PROVE  Shape'
<1> DEFINE new == NewScope("func", "params")
<1>1. new \in Scope /\ new.kind = "func" /\ new.at = "params"
  BY DEF NewScope, Scope, Kinds, Places
<1>2. /\ scopes' = <<new>>
      /\ func < Len(prog_scope) /\ func' = func + 1 /\ param' = 0
      /\ current_stack_offset' = 0 /\ current_loop_depth' = 0
      /\ result = "analyzing" /\ scopes = <<>>
      /\ UNCHANGED <<result, prog_scope, entry_point_count, var_unique_id,
                     decl_nodes, frame_size, var_node>>
  BY DEF BeginFunc, StartOffset, program, annotations
<1> HIDE DEF new
<1>3. /\ scopes' \in Seq(Scope) /\ scopes' # <<>> /\ Len(scopes') = 1 /\ scopes'[1] = new
  BY <1>1, <1>2
<1>4. TypeOK'
  BY <1>2, <1>3 DEF Shape, TypeOK
<1>5. WalkOK'
  BY <1>2, <1>3 DEF Shape, WalkOK, TypeOK
<1>6. ChainOK(scopes')
  BY <1>1, <1>3 DEF ChainOK
<1>7. LoopDepthExact'
  <2>1. LoopBodies(scopes') = {}
    BY <1>1, <1>3 DEF LoopBodies
  <2> QED
    BY <1>2, <2>1, FS_EmptySet DEF LoopDepthExact
<1> QED
  BY <1>4, <1>5, <1>6, <1>7 DEF Shape

(* Leaving a function. *)
LEMMA EndFuncShape ==
  ASSUME Shape, EndFunc
  PROVE  Shape'
<1> DEFINE n == Len(scopes)
<1>1. /\ scopes # <<>> /\ Top.kind = "func" /\ result = "analyzing"
      /\ func \in 1 .. Len(prog_scope) /\ Len(frame_size) = func - 1
  BY InsideOpen DEF EndFunc
<1>2. scopes \in Seq(Scope) /\ n \in Nat \ {0}
  BY <1>1 DEF Shape, TypeOK
<1>3. n = 1
  <2>1. n \in 1 .. Len(scopes) /\ scopes[n].kind = "func"
    BY <1>1, <1>2 DEF Top
  <2>2. ChainOK(scopes)
    BY DEF Shape
  <2> QED
    BY <2>1, <2>2, Zenon DEF ChainOK
<1>4. scopes' = <<>>
  BY <1>1, <1>2, <1>3, PopChain DEF EndFunc, Pop
<1>5. /\ frame_size' \in Seq(Nat) /\ Len(frame_size') = func
      /\ UNCHANGED <<result, prog_scope, entry_point_count, func, param, current_stack_offset,
                     current_loop_depth, var_unique_id, decl_nodes, var_node>>
  BY <1>1 DEF EndFunc, Shape, TypeOK, program, counters
<1>6. TypeOK'
  BY <1>4, <1>5 DEF Shape, TypeOK
<1>7. WalkOK' /\ ChainOK(scopes') /\ LoopDepthExact'
  BY <1>1, <1>4, <1>5 DEF Shape, WalkOK, TypeOK, ChainOK, LoopDepthExact
<1> QED
  BY <1>6, <1>7 DEF Shape

(* Entering the body of a loop: one more body, one more level. *)
LEMMA BeginLoopShape ==
  ASSUME Shape, BeginLoop
  PROVE  Shape'
<1> DEFINE n == Len(scopes)
           new == NewScope("block", "ops")
<1>1. /\ scopes # <<>> /\ Top.kind = "while" /\ Top.at = "cond" /\ result = "analyzing"
      /\ func \in 1 .. Len(prog_scope) /\ Len(frame_size) = func - 1
  BY InsideOpen DEF BeginLoop
<1>2. scopes \in Seq(Scope) /\ n \in Nat \ {0} /\ ChainOK(scopes)
  BY <1>1 DEF Shape, TypeOK
<1>3. new \in Scope /\ new.kind = "block" /\ new.at = "ops"
  BY DEF NewScope, Scope, Kinds, Places
<1>4. /\ scopes' \in Seq(Scope)
      /\ scopes' # <<>>
      /\ Len(scopes') = n + 1
      /\ scopes'[n + 1] = new
      /\ scopes'[n] = [scopes[n] EXCEPT !.at = "body"]
      /\ \A i \in 1 .. n - 1 : scopes'[i] = scopes[i]
  <2>1. scopes' = Append([scopes EXCEPT ![Len(scopes)].at = "body"], new) /\ "body" \in Places
    BY DEF BeginLoop, Call, Places
  <2>2. scopes # <<>> /\ scopes \in Seq(Scope) /\ new \in Scope
    BY <1>1, <1>2, <1>3
  <2> HIDE DEF new
  <2> QED
    BY <2>1, <2>2, CallChain
<1>5. scopes'[n].kind = "while" /\ scopes'[n].at = "body"
  <2>1. scopes[n] \in Scope
    BY <1>2
  <2> QED
    BY <1>1, <1>4, <2>1 DEF Scope, Top
<1>6. /\ current_loop_depth' = current_loop_depth + 1
      /\ UNCHANGED <<result, prog_scope, entry_point_count, func, param, current_stack_offset,
                     var_unique_id, decl_nodes, frame_size, var_node>>
  BY DEF BeginLoop, program, annotations
<1>7. TypeOK'
  BY <1>4, <1>6 DEF Shape, TypeOK
<1>8. WalkOK'
  BY <1>1, <1>4, <1>6 DEF Shape, WalkOK
<1>9. ChainOK(scopes')
  <2> SUFFICES ASSUME NEW i \in 1 .. n + 1
               PROVE  /\ scopes'[i].kind = "func" <=> i = 1
                      /\ i < n + 1 => scopes'[i].at # "params"
    BY <1>4 DEF ChainOK
  <2>1. CASE i = n + 1
    BY <1>2, <1>3, <1>4, <2>1
  <2>2. CASE i = n
    BY <1>1, <1>2, <1>5, <2>2 DEF ChainOK, Top
  <2>3. CASE i \in 1 .. n - 1
    BY <1>2, <1>4, <2>3 DEF ChainOK
  <2> QED
    BY <1>2, <2>1, <2>2, <2>3
<1>10. LoopBodies(scopes') = LoopBodies(scopes) \cup {n}
  <2>1. n + 1 \notin LoopBodies(scopes')
    BY <1>3, <1>4 DEF LoopBodies
  <2>2. n \in LoopBodies(scopes')
    <3>1. n \in 1 .. Len(scopes')
      BY <1>2, <1>4
    <3> QED
      BY <1>5, <3>1, Zenon DEF LoopBodies
  <2>3. \A i \in 1 .. n - 1 : i \in LoopBodies(scopes') <=> i \in LoopBodies(scopes)
    BY <1>2, <1>4 DEF LoopBodies
  <2>4. LoopBodies(scopes') \subseteq 1 .. n + 1 /\ LoopBodies(scopes) \subseteq 1 .. n
    BY <1>4 DEF LoopBodies
  <2>5. \A i : i \in LoopBodies(scopes') <=> i \in LoopBodies(scopes) \cup {n}
    BY <1>2, <2>1, <2>2, <2>3, <2>4
  <2> QED
    BY <2>5, SetExtensionality, Zenon
<1>11. n \notin LoopBodies(scopes)
  BY <1>1 DEF LoopBodies, Top
<1>12. LoopDepthExact'
  <2>1. /\ IsFiniteSet(LoopBodies(scopes))
        /\ Cardinality(LoopBodies(scopes')) = Cardinality(LoopBodies(scopes)) + 1
    BY <1>2, <1>10, <1>11, LoopBodiesFinite, FS_AddElement
  <2> QED
    BY <1>1, <1>4, <1>6, <2>1 DEF Shape, LoopDepthExact
<1> QED
  BY <1>7, <1>8, <1>9, <1>12 DEF Shape

(* Leaving a loop: the depth was positive, and one body less is open. *)
LEMMA EndWhileShape ==
  ASSUME Shape, EndWhile
  PROVE  Shape'
<1> DEFINE n == Len(scopes)
<1>1. /\ scopes # <<>> /\ Top.kind = "while" /\ Top.at = "body" /\ result = "analyzing"
      /\ func \in 1 .. Len(prog_scope) /\ Len(frame_size) = func - 1
  BY InsideOpen DEF EndWhile
<1>2. scopes \in Seq(Scope) /\ n \in Nat \ {0} /\ ChainOK(scopes)
  BY <1>1 DEF Shape, TypeOK
<1>3. /\ scopes' \in Seq(Scope)
      /\ Len(scopes') = n - 1
      /\ \A i \in 1 .. n - 1 : scopes'[i] = scopes[i]
  BY <1>1, <1>2, PopChain DEF EndWhile, Pop
<1>4. scopes' # <<>>
  <2>1. n \in 1 .. Len(scopes) /\ scopes[n].kind = "while"
    BY <1>1, <1>2 DEF Top
  <2>2. n # 1
    BY <1>2, <2>1 DEF ChainOK
  <2> QED
    BY <1>2, <1>3, <2>2
<1>5. /\ current_loop_depth' = current_loop_depth - 1
      /\ UNCHANGED <<result, prog_scope, entry_point_count, func, param, current_stack_offset,
                     var_unique_id, decl_nodes, frame_size, var_node>>
  BY DEF EndWhile, LeaveLoop, program, annotations
<1>6. n \in LoopBodies(scopes)
  BY <1>1, <1>2 DEF LoopBodies, Top
<1>7. LoopBodies(scopes') = LoopBodies(scopes) \ {n}
  <2>1. \A i \in 1 .. n - 1 : i \in LoopBodies(scopes') <=> i \in LoopBodies(scopes)
    BY <1>2, <1>3 DEF LoopBodies
  <2>2. LoopBodies(scopes') \subseteq 1 .. n - 1 /\ LoopBodies(scopes) \subseteq 1 .. n
    BY <1>3 DEF LoopBodies
  <2>3. \A i : i \in LoopBodies(scopes') <=> i \in LoopBodies(scopes) \ {n}
    BY <1>2, <2>1, <2>2
  <2> QED
    BY <2>3, SetExtensionality, Zenon
<1>8. /\ Cardinality(LoopBodies(scopes')) = Cardinality(LoopBodies(scopes)) - 1
      /\ Cardinality(LoopBodies(scopes')) \in Nat
      /\ current_loop_depth = Cardinality(LoopBodies(scopes))
  <2>1. IsFiniteSet(LoopBodies(scopes)) /\ Cardinality(LoopBodies(scopes')) \in Nat
    BY <1>2, <1>3, LoopBodiesFinite
  <2>2. Cardinality(LoopBodies(scopes) \ {n}) = Cardinality(LoopBodies(scopes)) - 1
    BY <1>6, <2>1, FS_RemoveElement
  <2>3. current_loop_depth = Cardinality(LoopBodies(scopes))
    BY <1>1 DEF Shape, LoopDepthExact
  <2> QED
    BY <1>7, <2>1, <2>2, <2>3
<1>9. TypeOK'
  BY <1>3, <1>5, <1>8 DEF Shape, TypeOK
<1>10. WalkOK'
  BY <1>1, <1>4, <1>5 DEF Shape, WalkOK
<1>11. ChainOK(scopes')
  BY <1>2, <1>3 DEF ChainOK
<1>12. LoopDepthExact'
  BY <1>5, <1>8 DEF LoopDepthExact
<1> QED
  BY <1>9, <1>10, <1>11, <1>12 DEF Shape

(* Looking up a variable changes only the annotation of its node. *)
LEMMA UseVarShape ==
  ASSUME Shape, NEW id \in Id, UseVar(id)
  PROVE  Shape'
<1> DEFINE decl == seek_var(scopes, id)
<1>1. CASE decl # NoDecl
  <2>1. decl \in Decl \cup {NoDecl}
    BY SeekType DEF Shape, TypeOK
  <2>2. /\ var_node' = decl
        /\ UNCHANGED <<result, program, func, param, scopes, counters, decl_nodes, frame_size>>
    BY <1>1, FailShape DEF UseVar
  <2> HIDE DEF decl
  <2>3. TypeOK'
    BY <2>1, <2>2 DEF Shape, TypeOK, program, counters
  <2>4. WalkOK' /\ ChainOK(scopes') /\ LoopDepthExact'
    BY <2>2 DEF Shape, WalkOK, ChainOK, LoopDepthExact, counters
  <2> QED
    BY <2>3, <2>4 DEF Shape
<1>2. CASE decl = NoDecl
  BY <1>2, FailShape DEF UseVar, Errors, UseErrors
<1> QED
  BY <1>1, <1>2

-----------------------------------------------------------------------------
(* The shape is an invariant. *)

(* Every step of the walk keeps the shape. *)
LEMMA NextShape ==
  ASSUME Shape, [Next]_vars
  PROVE  Shape'
<1>1. CASE \/ \E id \in Id, params \in 0 .. MaxParams : declare_func(id, params)
           \/ CheckEntryPoint
           \/ Finish
  BY <1>1, ProgramShape
<1>2. CASE BeginFunc
  BY <1>2, BeginFuncShape
<1>3. ASSUME NEW id \in Id, DeclareParam(id)
      PROVE  Shape'
  <2>1. scopes # <<>> /\ Top.kind = "func" /\ param \in Nat
    BY <1>3, InsideOpen DEF DeclareParam, Shape, TypeOK
  <2>2. CASE declare_var(id, param + 1, "params") /\ param' = param + 1
    <3>1. param + 1 \in Nat /\ param' \in Nat /\ "params" \in Places
      BY <2>1, <2>2 DEF Places
    <3> QED
      BY <2>1, <2>2, <3>1, DeclareShape
  <2>3. CASE Redeclared(Top, id) /\ Fail("MULTIPLE_VAR_DECLARATION")
    BY <2>3, FailShape DEF Errors, DeclErrors
  <2> QED
    BY <1>3, <2>2, <2>3 DEF DeclareParam
<1>4. CASE BeginBody
  BY <1>4, InsideOpen, CallShape DEF BeginBody, Places, Kinds
<1>5. CASE EndFunc
  BY <1>5, EndFuncShape
<1>6. CASE EndBlock
  BY <1>6, InsideOpen, PopShape DEF EndBlock
<1>7. ASSUME NEW id \in Id, analyze_var_decl(id)
      PROVE  Shape'
  <2>1. scopes # <<>> /\ Top.kind = "block"
    BY <1>7, InsideOpen DEF analyze_var_decl
  <2>2. ASSUME NEW at \in {"ops", "expr"}, declare_var(id, 0, at), UNCHANGED param
        PROVE  Shape'
    <3>1. param' \in Nat /\ at \in Places /\ 0 \in Nat
      BY <2>2 DEF Shape, TypeOK, Places
    <3> QED
      BY <2>1, <2>2, <3>1, DeclareShape
  <2>3. CASE Redeclared(Top, id) /\ Fail("MULTIPLE_VAR_DECLARATION")
    BY <2>3, FailShape DEF Errors, DeclErrors
  <2> QED
    BY <1>7, <2>2, <2>3 DEF analyze_var_decl
<1>8. CASE BeginExpr
  BY <1>8, InsideOpen, MoveToShape DEF BeginExpr, Places
<1>9. CASE analyze_break
  BY <1>9, FailShape DEF analyze_break, Errors, ProgErrors
<1>10. CASE analyze_if
  BY <1>10, InsideOpen, CallShape DEF analyze_if, Places, Kinds
<1>11. CASE BeginThen
  BY <1>11, InsideOpen, CallShape DEF BeginThen, Places, Kinds
<1>12. CASE BeginElse
  BY <1>12, InsideOpen, CallShape DEF BeginElse, Places, Kinds
<1>13. CASE EndIf
  BY <1>13, InsideOpen, PopShape DEF EndIf
<1>14. CASE analyze_while
  BY <1>14, InsideOpen, CallShape DEF analyze_while, Places, Kinds
<1>15. CASE BeginLoop
  BY <1>15, BeginLoopShape
<1>16. CASE EndWhile
  BY <1>16, EndWhileShape
<1>17. ASSUME NEW id \in Id, UseVar(id)
       PROVE  Shape'
  BY <1>17, UseVarShape
<1>18. ASSUME NEW id \in Id, NEW args \in 0 .. MaxParams, UseFunc(id, args)
       PROVE  Shape'
  BY <1>18, FailShape DEF UseFunc, CallError, Errors, UseErrors
<1>19. CASE EndExpr
  BY <1>19, InsideOpen, MoveToShape DEF EndExpr, Places
<1>20. CASE UNCHANGED vars
  BY <1>20 DEF vars, program, counters, annotations, Shape, TypeOK, WalkOK, ChainOK,
               LoopDepthExact
<1> QED
  BY <1>1, <1>2, <1>3, <1>4, <1>5, <1>6, <1>7, <1>8, <1>9, <1>10, <1>11, <1>12, <1>13,
     <1>14, <1>15, <1>16, <1>17, <1>18, <1>19, <1>20 DEF Next

(* Every variable keeps its type; the unsigned counters never wrap.          *)
THEOREM TypeCorrect == Spec => []TypeOK
<1>1. Spec => []Shape
  BY InitShape, NextShape, PTL DEF Spec
<1>2. Shape => TypeOK
  BY DEF Shape
<1> QED
  BY <1>1, <1>2, PTL

(* current_loop_depth is the number of loop bodies around the walk, so       *)
(* BREAK_OUTSIDE_LOOP is reported exactly where there is none.               *)
THEOREM LoopDepthCorrect == Spec => []LoopDepthExact
<1>1. Spec => []Shape
  BY InitShape, NextShape, PTL DEF Spec
<1>2. Shape => LoopDepthExact
  BY DEF Shape
<1> QED
  BY <1>1, <1>2, PTL

-----------------------------------------------------------------------------
(* The slots of the frames. *)

(* Slots are given out in increasing order, so no two of a function agree.   *)
Increasing ==
  \A j, k \in 1 .. Len(decl_nodes) :
    decl_nodes[j].func = decl_nodes[k].func /\ j < k =>
      decl_nodes[j].stack_offset < decl_nodes[k].stack_offset

(* A slot lies within the frame recorded for its function or, as long as the *)
(* function is being analysed, below the current offset.                     *)
Bounded ==
  \A k \in 1 .. Len(decl_nodes) :
    LET d == decl_nodes[k]
    IN  /\ d.func \in 1 .. func
        /\ d.stack_offset > 0
        /\ d.func > Len(frame_size) => d.stack_offset <= current_stack_offset
        /\ d.func <= Len(frame_size) => d.stack_offset <= frame_size[d.func]

(* While parameters are declared, nothing else has taken a slot.             *)
ParamsFirst == Inside("func", "params") => current_stack_offset = 8 * param

Slots == Increasing /\ Bounded /\ ParamSlots /\ ParamsFirst

(* Steps that touch neither the frame nor its declarations. *)
LEMMA QuietSlots ==
  ASSUME Slots,
         UNCHANGED <<decl_nodes, frame_size, current_stack_offset, func, param>>,
         Inside("func", "params")' => Inside("func", "params")
  PROVE  Slots'
<1>1. Increasing'
  BY DEF Slots, Increasing
<1>2. Bounded'
  BY DEF Slots, Bounded
<1>3. ParamSlots'
  BY DEF Slots, ParamSlots
<1>4. ParamsFirst'
  BY DEF Slots, ParamsFirst
<1> QED
  BY <1>1, <1>2, <1>3, <1>4 DEF Slots

(* Stopping at an error gives out no slot. *)
LEMMA FailSlots ==
  ASSUME Slots, NEW e, Fail(e)
  PROVE  Slots'
<1>1. UNCHANGED <<decl_nodes, frame_size, current_stack_offset, func, param>> /\ scopes' = <<>>
  BY DEF Fail, counters, annotations
<1>2. ~Inside("func", "params")'
  BY <1>1 DEF Inside
<1> QED
  BY <1>1, <1>2, QuietSlots

(* Opening a scope gives out no slot. *)
LEMMA CallSlots ==
  ASSUME Slots, Shape, Shape', scopes # <<>>, NEW at \in Places, NEW kind \in Kinds \ {"func"},
         NEW place, Call(at, NewScope(kind, place)),
         UNCHANGED <<decl_nodes, frame_size, current_stack_offset, func, param>>
  PROVE  Slots'
<1> DEFINE new == NewScope(kind, place)
           below == [scopes EXCEPT ![Len(scopes)].at = at]
<1>1. new.kind = kind
  BY DEF NewScope
<1>2. scopes \in Seq(Scope) /\ Len(scopes) \in Nat \ {0}
  BY DEF Shape, TypeOK
<1>3. Len(below) = Len(scopes) /\ below \in Seq(Scope)
  BY <1>2, MoveChain
<1>4. scopes' = Append(below, new)
  BY DEF Call
<1>5. Len(scopes') = Len(scopes) + 1 /\ scopes'[Len(scopes')] = new
  <2> HIDE DEF new, below
  <2> QED
    BY <1>2, <1>3, <1>4
<1>6. ~Inside("func", "params")'
  BY <1>1, <1>5 DEF Inside, Top
<1> QED
  BY <1>6, QuietSlots

(* Moving on inside a function gives out no slot. *)
LEMMA MoveToSlots ==
  ASSUME Slots, Shape, scopes # <<>>, NEW at \in Places \ {"params"}, MoveTo(at),
         UNCHANGED <<decl_nodes, frame_size, current_stack_offset, func, param>>
  PROVE  Slots'
<1>1. scopes \in Seq(Scope) /\ Len(scopes) \in 1 .. Len(scopes) /\ scopes[Len(scopes)] \in Scope
  BY DEF Shape, TypeOK
<1>2. /\ Len(scopes') = Len(scopes)
      /\ scopes'[Len(scopes)] = [scopes[Len(scopes)] EXCEPT !.at = at]
  BY <1>1, MoveChain DEF MoveTo
<1>3. Top'.at = at
  BY <1>1, <1>2 DEF Top, Scope
<1>4. ~Inside("func", "params")'
  BY <1>3 DEF Inside
<1> QED
  BY <1>4, QuietSlots

(* Closing a scope takes no slot back. *)
LEMMA PopSlots ==
  ASSUME Slots, Shape, scopes # <<>>, Pop,
         UNCHANGED <<decl_nodes, frame_size, current_stack_offset, func, param>>
  PROVE  Slots'
<1> DEFINE n == Len(scopes)
<1>1. scopes \in Seq(Scope) /\ n \in Nat \ {0} /\ ChainOK(scopes)
  BY DEF Shape, TypeOK
<1>2. /\ scopes' \in Seq(Scope)
      /\ Len(scopes') = n - 1
      /\ \A i \in 1 .. n - 1 : scopes'[i] = scopes[i]
  BY <1>1, PopChain DEF Pop
<1>3. ~Inside("func", "params")'
  <2> SUFFICES ASSUME scopes' # <<>>
               PROVE  Top'.at # "params"
    BY DEF Inside
  <2>1. n - 1 \in 1 .. n - 1 /\ Top' = scopes[n - 1]
    BY <1>1, <1>2 DEF Top
  <2>2. scopes[n - 1].at # "params"
    BY <1>1, <2>1 DEF ChainOK
  <2> QED
    BY <2>1, <2>2
<1> QED
  BY <1>3, QuietSlots

(* The new slot lies above all those of its function. *)
LEMMA DeclareSlots ==
  ASSUME Slots, Shape, scopes # <<>>, NEW id \in Id, NEW position \in Nat, NEW at \in Places,
         declare_var(id, position, at),
         \/ position = 0 /\ Top.kind # "func" /\ param' = param
         \/ position = param + 1 /\ param' = param + 1 /\ Inside("func", "params")
  PROVE  Slots'
<1> DEFINE n == Len(decl_nodes)
           v == [func |-> func, param |-> position, id |-> id,
                 unique_id |-> var_unique_id, stack_offset |-> NextSlot]
<1>1. /\ decl_nodes \in Seq(Decl) /\ n \in Nat
      /\ current_stack_offset \in Nat /\ param \in Nat /\ func \in Nat \ {0}
      /\ Len(frame_size) = func - 1 /\ frame_size \in Seq(Nat)
  BY DEF Shape, TypeOK, WalkOK
<1>2. /\ v.func = func /\ v.param = position
      /\ v.stack_offset = current_stack_offset + 8
  BY DEF NextSlot
<1>3. decl_nodes' = Append(decl_nodes, v)
  BY DEF declare_var
<1> HIDE DEF v
<1>4. /\ Len(decl_nodes') = n + 1
      /\ decl_nodes'[n + 1] = v
      /\ \A k \in 1 .. n : decl_nodes'[k] = decl_nodes[k] /\ decl_nodes[k] \in Decl
  BY <1>1, <1>3
<1>5. /\ current_stack_offset' = current_stack_offset + 8
      /\ UNCHANGED <<func, frame_size>>
  BY DEF declare_var, NextSlot
<1>6. \A k \in 1 .. n :
        /\ decl_nodes[k].func \in 1 .. func
        /\ decl_nodes[k].stack_offset > 0
        /\ decl_nodes[k].stack_offset \in Nat
        /\ decl_nodes[k].func = func => decl_nodes[k].stack_offset <= current_stack_offset
        /\ decl_nodes[k].func # func =>
             decl_nodes[k].stack_offset <= frame_size[decl_nodes[k].func]
  <2> SUFFICES ASSUME NEW k \in 1 .. n
               PROVE  /\ decl_nodes[k].func \in 1 .. func
                      /\ decl_nodes[k].stack_offset > 0
                      /\ decl_nodes[k].stack_offset \in Nat
                      /\ decl_nodes[k].func = func =>
                           decl_nodes[k].stack_offset <= current_stack_offset
                      /\ decl_nodes[k].func # func =>
                           decl_nodes[k].stack_offset <= frame_size[decl_nodes[k].func]
    OBVIOUS
  <2>1. decl_nodes[k].stack_offset \in Nat
    BY <1>4 DEF Decl
  <2>2. /\ decl_nodes[k].func \in 1 .. func
        /\ decl_nodes[k].stack_offset > 0
        /\ decl_nodes[k].func > Len(frame_size) =>
             decl_nodes[k].stack_offset <= current_stack_offset
        /\ decl_nodes[k].func <= Len(frame_size) =>
             decl_nodes[k].stack_offset <= frame_size[decl_nodes[k].func]
    BY DEF Slots, Bounded
  <2>3. decl_nodes[k].func # func => decl_nodes[k].func <= Len(frame_size)
    BY <1>1, <2>2
  <2>4. decl_nodes[k].func = func => decl_nodes[k].func > Len(frame_size)
    BY <1>1
  <2> QED
    BY <2>1, <2>2, <2>3, <2>4
<1>7. Increasing'
  <2> SUFFICES ASSUME NEW j \in 1 .. n + 1, NEW k \in 1 .. n + 1,
                      decl_nodes'[j].func = decl_nodes'[k].func, j < k
               PROVE  decl_nodes'[j].stack_offset < decl_nodes'[k].stack_offset
    BY <1>4 DEF Increasing
  <2>1. j \in 1 .. n
    BY <1>1
  <2>2. CASE k = n + 1
    <3>1. decl_nodes'[k] = v /\ decl_nodes'[j] = decl_nodes[j]
      BY <1>4, <2>1, <2>2
    <3>2. decl_nodes[j].stack_offset <= current_stack_offset /\ decl_nodes[j].stack_offset \in Nat
      BY <1>2, <1>6, <2>1, <3>1
    <3> QED
      BY <1>1, <1>2, <3>1, <3>2
  <2>3. CASE k \in 1 .. n
    BY <1>4, <2>1, <2>3 DEF Slots, Increasing
  <2> QED
    BY <1>1, <2>2, <2>3
<1>8. Bounded'
  <2> SUFFICES ASSUME NEW k \in 1 .. n + 1
               PROVE  /\ decl_nodes'[k].func \in 1 .. func
                      /\ decl_nodes'[k].stack_offset > 0
                      /\ decl_nodes'[k].func > Len(frame_size) =>
                           decl_nodes'[k].stack_offset <= current_stack_offset + 8
                      /\ decl_nodes'[k].func <= Len(frame_size) =>
                           decl_nodes'[k].stack_offset <= frame_size[decl_nodes'[k].func]
    BY <1>4, <1>5 DEF Bounded
  <2>1. CASE k = n + 1
    BY <1>1, <1>2, <1>4, <2>1
  <2>2. CASE k \in 1 .. n
    <3>1. decl_nodes'[k] = decl_nodes[k]
      BY <1>4, <2>2
    <3>2. /\ decl_nodes[k].func \in 1 .. func
          /\ decl_nodes[k].stack_offset > 0
          /\ decl_nodes[k].func > Len(frame_size) => decl_nodes[k].stack_offset <= current_stack_offset
          /\ decl_nodes[k].func <= Len(frame_size) =>
               decl_nodes[k].stack_offset <= frame_size[decl_nodes[k].func]
      BY <2>2 DEF Slots, Bounded
    <3>3. decl_nodes[k].stack_offset \in Nat
      BY <1>6, <2>2
    <3>4. decl_nodes[k].func > Len(frame_size) => decl_nodes[k].stack_offset <= current_stack_offset + 8
      BY <1>1, <3>2, <3>3
    <3> QED
      BY <3>1, <3>2, <3>4
  <2> QED
    BY <1>1, <2>1, <2>2
<1>9. position > 0 => current_stack_offset + 8 = 8 * position
  BY <1>1 DEF Slots, ParamsFirst
<1>10. ParamSlots'
  <2> SUFFICES ASSUME NEW k \in 1 .. n + 1, decl_nodes'[k].param > 0
               PROVE  decl_nodes'[k].stack_offset = 8 * decl_nodes'[k].param
    BY <1>4 DEF ParamSlots
  <2>1. CASE k = n + 1
    BY <1>2, <1>4, <1>9, <2>1
  <2>2. CASE k \in 1 .. n
    BY <1>4, <2>2 DEF Slots, ParamSlots
  <2> QED
    BY <1>1, <2>1, <2>2
<1>11. ParamsFirst'
  <2>1. CASE position = 0 /\ Top.kind # "func" /\ param' = param
    <3> DEFINE top == [Top EXCEPT !.at = at,
                                  !.decl_var[id] = [func |-> func, param |-> position, id |-> id,
                                                    unique_id |-> var_unique_id,
                                                    stack_offset |-> NextSlot]]
    <3>1. scopes \in Seq(Scope) /\ Len(scopes) \in 1 .. Len(scopes) /\ Top \in Scope
      BY DEF Shape, TypeOK, Top
    <3>2. top.kind = Top.kind
      BY <3>1 DEF Scope
    <3>3. scopes' = [scopes EXCEPT ![Len(scopes)] = top]
      BY DEF declare_var
    <3>4. Len(scopes') = Len(scopes) /\ scopes'[Len(scopes)] = top
      <4> HIDE DEF top
      <4> QED
        BY <3>1, <3>3
    <3>5. ~Inside("func", "params")'
      BY <2>1, <3>2, <3>4 DEF Inside, Top
    <3> QED
      BY <3>5 DEF ParamsFirst
  <2>2. CASE position = param + 1 /\ param' = param + 1
    BY <1>1, <1>5, <1>9, <2>2 DEF ParamsFirst
  <2> QED
    BY <2>1, <2>2
<1> QED
  BY <1>7, <1>8, <1>10, <1>11 DEF Slots

(* No slot is given out before the walk. *)
LEMMA InitSlots == Init => Slots
<1> SUFFICES ASSUME Init PROVE Slots
  OBVIOUS
<1>1. decl_nodes = <<>> /\ scopes = <<>>
  BY DEF Init
<1> QED
  BY <1>1 DEF Slots, Increasing, Bounded, ParamSlots, ParamsFirst, Inside

(* A new function has no slot yet: its counter starts again. *)
LEMMA BeginFuncSlots ==
  ASSUME Slots, Shape, BeginFunc
  PROVE  Slots'
<1>1. /\ func' = func + 1 /\ param' = 0 /\ current_stack_offset' = 0
      /\ func \in Nat /\ Len(frame_size) = func
      /\ UNCHANGED <<decl_nodes, frame_size>>
  BY DEF BeginFunc, StartOffset, annotations, Shape, TypeOK, WalkOK
<1>2. Increasing' /\ ParamSlots'
  BY <1>1 DEF Slots, Increasing, ParamSlots
<1>3. Bounded'
  BY <1>1 DEF Slots, Bounded
<1>4. ParamsFirst'
  BY <1>1 DEF ParamsFirst
<1> QED
  BY <1>2, <1>3, <1>4 DEF Slots

(* The counter becomes the frame of the function that ends. *)
LEMMA EndFuncSlots ==
  ASSUME Slots, Shape, EndFunc
  PROVE  Slots'
<1>1. scopes # <<>> /\ func \in Nat \ {0} /\ Len(frame_size) = func - 1
  BY InsideOpen DEF EndFunc, Shape, TypeOK
<1>2. /\ frame_size' = Append(frame_size, current_stack_offset)
      /\ frame_size \in Seq(Nat) /\ current_stack_offset \in Nat
      /\ UNCHANGED <<decl_nodes, func, param, current_stack_offset>>
  BY DEF EndFunc, counters, Shape, TypeOK
<1>3. /\ Len(frame_size') = func /\ frame_size'[func] = current_stack_offset
      /\ \A i \in 1 .. func - 1 : frame_size'[i] = frame_size[i]
  BY <1>1, <1>2
<1>4. Increasing' /\ ParamSlots'
  BY <1>2 DEF Slots, Increasing, ParamSlots
<1>5. Bounded'
  <2> SUFFICES ASSUME NEW k \in 1 .. Len(decl_nodes)
               PROVE  LET d == decl_nodes[k]
                      IN  /\ d.func \in 1 .. func
                          /\ d.stack_offset > 0
                          /\ d.func > func => d.stack_offset <= current_stack_offset
                          /\ d.func <= func => d.stack_offset <= frame_size'[d.func]
    BY <1>2, <1>3 DEF Bounded
  <2>1. LET d == decl_nodes[k]
        IN  /\ d.func \in 1 .. func
            /\ d.stack_offset > 0
            /\ d.func > func - 1 => d.stack_offset <= current_stack_offset
            /\ d.func <= func - 1 => d.stack_offset <= frame_size[d.func]
    BY <1>1 DEF Slots, Bounded
  <2> QED
    BY <1>1, <1>3, <2>1
<1>6. ParamsFirst'
  <2>1. scopes' = <<>>
    <3>1. scopes \in Seq(Scope) /\ Len(scopes) \in 1 .. Len(scopes) /\ ChainOK(scopes)
      BY <1>1 DEF Shape, TypeOK
    <3>2. scopes[Len(scopes)].kind = "func"
      BY InsideOpen DEF EndFunc, Top
    <3>3. Len(scopes) = 1
      BY <3>1, <3>2, Zenon DEF ChainOK
    <3> QED
      BY <1>1, <3>1, <3>3, PopChain DEF EndFunc, Pop
  <2> QED
    BY <2>1 DEF ParamsFirst, Inside
<1> QED
  BY <1>4, <1>5, <1>6 DEF Slots

(* Every step keeps what is known of the slots. *)
LEMMA NextSlots ==
  ASSUME Slots, Shape, [Next]_vars
  PROVE  Slots'
<1> DEFINE Quiet == UNCHANGED <<decl_nodes, frame_size, current_stack_offset, func, param>>
<1>0. Shape'
  BY NextShape
<1>1. ASSUME NEW id \in Id, NEW params \in 0 .. MaxParams, declare_func(id, params)
      PROVE  Slots'
  <2>1. CASE Quiet /\ UNCHANGED scopes
    BY <2>1, QuietSlots DEF Inside, Top
  <2> QED
    BY <1>1, <2>1, FailSlots DEF declare_func, counters, annotations
<1>2. CASE CheckEntryPoint
  <2>1. CASE Quiet /\ UNCHANGED scopes
    BY <2>1, QuietSlots DEF Inside, Top
  <2> QED
    BY <1>2, <2>1, FailSlots DEF CheckEntryPoint, counters, annotations
<1>3. CASE Finish
  <2>1. Quiet /\ UNCHANGED scopes
    BY <1>3 DEF Finish, counters, annotations
  <2> QED
    BY <2>1, QuietSlots DEF Inside, Top
<1>4. CASE BeginFunc
  BY <1>4, BeginFuncSlots
<1>5. ASSUME NEW id \in Id, DeclareParam(id)
      PROVE  Slots'
  <2>1. scopes # <<>> /\ param \in Nat /\ Inside("func", "params")
    BY <1>5, InsideOpen DEF DeclareParam, Shape, TypeOK
  <2>2. CASE declare_var(id, param + 1, "params") /\ param' = param + 1
    <3>1. param + 1 \in Nat /\ "params" \in Places
      BY <2>1 DEF Places
    <3> QED
      BY <2>1, <2>2, <3>1, DeclareSlots
  <2> QED
    BY <1>5, <2>2, FailSlots DEF DeclareParam
<1>6. CASE BeginBody
  <2>1. Quiet
    BY <1>6 DEF BeginBody, OnlyMoves, counters, annotations
  <2> QED
    BY <1>0, <1>6, <2>1, InsideOpen, CallSlots DEF BeginBody, Places, Kinds
<1>7. CASE EndFunc
  BY <1>7, EndFuncSlots
<1>8. CASE EndBlock \/ EndIf \/ EndWhile
  <2>1. Quiet /\ Pop /\ scopes # <<>>
    BY <1>8, InsideOpen DEF EndBlock, EndIf, EndWhile, OnlyMoves, counters, annotations
  <2> QED
    BY <2>1, PopSlots
<1>9. ASSUME NEW id \in Id, analyze_var_decl(id)
      PROVE  Slots'
  <2>1. scopes # <<>> /\ Top.kind = "block"
    BY <1>9, InsideOpen DEF analyze_var_decl
  <2>2. ASSUME NEW at \in {"ops", "expr"}, declare_var(id, 0, at), UNCHANGED param
        PROVE  Slots'
    <3>1. at \in Places /\ 0 \in Nat
      BY DEF Places
    <3> QED
      BY <2>1, <2>2, <3>1, DeclareSlots
  <2> QED
    BY <1>9, <2>2, FailSlots DEF analyze_var_decl
<1>10. CASE BeginExpr \/ EndExpr
  <2>1. Quiet /\ scopes # <<>>
    BY <1>10, InsideOpen DEF BeginExpr, EndExpr, OnlyMoves, counters, annotations
  <2> QED
    BY <1>10, <2>1, MoveToSlots DEF BeginExpr, EndExpr, Places
<1>11. CASE analyze_break
  BY <1>11, FailSlots DEF analyze_break
<1>12. CASE analyze_if \/ analyze_while
  <2>1. Quiet /\ scopes # <<>>
    BY <1>12, InsideOpen DEF analyze_if, analyze_while, OnlyMoves, counters, annotations
  <2> QED
    BY <1>0, <1>12, <2>1, CallSlots DEF analyze_if, analyze_while, Places, Kinds
<1>13. CASE BeginThen \/ BeginElse
  <2>1. Quiet /\ scopes # <<>>
    BY <1>13, InsideOpen DEF BeginThen, BeginElse, OnlyMoves, counters, annotations
  <2> QED
    BY <1>0, <1>13, <2>1, CallSlots DEF BeginThen, BeginElse, Places, Kinds
<1>14. CASE BeginLoop
  <2>1. Quiet /\ scopes # <<>>
    BY <1>14, InsideOpen DEF BeginLoop, annotations
  <2> QED
    BY <1>0, <1>14, <2>1, CallSlots DEF BeginLoop, Places, Kinds
<1>15. ASSUME NEW id \in Id, UseVar(id)
       PROVE  Slots'
  <2>1. CASE Quiet /\ UNCHANGED scopes
    BY <2>1, QuietSlots DEF Inside, Top
  <2> QED
    BY <1>15, <2>1, FailSlots DEF UseVar, counters
<1>16. ASSUME NEW id \in Id, NEW args \in 0 .. MaxParams, UseFunc(id, args)
       PROVE  Slots'
  BY <1>16, FailSlots DEF UseFunc
<1>17. CASE UNCHANGED vars
  <2>1. Quiet /\ UNCHANGED scopes
    BY <1>17 DEF vars, counters, annotations
  <2> QED
    BY <2>1, QuietSlots DEF Inside, Top
<1> QED
  BY <1>1, <1>2, <1>3, <1>4, <1>5, <1>6, <1>7, <1>8, <1>9, <1>10, <1>11, <1>12, <1>13,
     <1>14, <1>15, <1>16, <1>17 DEF Next

(* The invariant of the slots, for every program. *)
LEMMA SlotsInvariant == Spec => [](Shape /\ Slots)
<1>1. Init => Shape /\ Slots
  BY InitShape, InitSlots
<1>2. Shape /\ Slots /\ [Next]_vars => (Shape /\ Slots)'
  BY NextShape, NextSlots
<1> QED
  BY <1>1, <1>2, PTL DEF Spec

(* No two variables of one function ever share a slot of its frame.          *)
THEOREM DisjointSlots == Spec => []SlotsDisjoint
<1>1. Shape /\ Slots => SlotsDisjoint
  <2> SUFFICES ASSUME Shape, Slots,
                      NEW j \in 1 .. Len(decl_nodes), NEW k \in 1 .. Len(decl_nodes),
                      decl_nodes[j].func = decl_nodes[k].func,
                      decl_nodes[j].stack_offset = decl_nodes[k].stack_offset
               PROVE  j = k
    BY DEF SlotsDisjoint
  <2>1. decl_nodes \in Seq(Decl)
    BY DEF Shape, TypeOK
  <2>2. decl_nodes[j].stack_offset \in Nat /\ decl_nodes[k].stack_offset \in Nat
    <3>1. decl_nodes[j] \in Decl /\ decl_nodes[k] \in Decl
      BY <2>1
    <3> QED
      BY <3>1 DEF Decl
  <2>3. ~(j < k) /\ ~(k < j)
    BY <2>2 DEF Slots, Increasing
  <2> QED
    BY <2>1, <2>3
<1> QED
  BY <1>1, SlotsInvariant, PTL

(* The frame of a function that has been analysed covers all its slots.      *)
THEOREM FrameCoversSlots == Spec => []SlotsInFrame
<1>1. Shape /\ Slots => SlotsInFrame
  BY DEF Slots, Bounded, SlotsInFrame
<1> QED
  BY <1>1, SlotsInvariant, PTL

(* Parameter i is annotated with the slot in which gen_func stores it.       *)
THEOREM ParametersInPlace == Spec => []ParamSlots
<1>1. Shape /\ Slots => ParamSlots
  BY DEF Slots
<1> QED
  BY <1>1, SlotsInvariant, PTL

-----------------------------------------------------------------------------
(* The programs that are accepted. *)

Counted ==
  /\ entry_point_count = Cardinality(EntryFuncs(prog_scope))
  /\ \A i, j \in 1 .. Len(prog_scope) : prog_scope[i].id = prog_scope[j].id => i = j
  /\ result \in {"analyzing", "NO_ERROR"} => entry_point_count = 1
  /\ result = "NO_ERROR" => Len(frame_size) = Len(prog_scope)

(* No function is declared before the walk. *)
LEMMA InitCounted == Init => Counted
<1> SUFFICES ASSUME Init PROVE Counted
  OBVIOUS
<1>1. prog_scope = <<>> /\ result = "declaring" /\ entry_point_count = 0
  BY DEF Init
<1>2. EntryFuncs(prog_scope) = {}
  BY <1>1 DEF EntryFuncs
<1> QED
  BY <1>1, <1>2, FS_EmptySet DEF Counted

(* A function is counted when it is declared, and only then. *)
LEMMA DeclareCounted ==
  ASSUME Counted, Shape, NEW id \in Id, NEW params \in 0 .. MaxParams, declare_func(id, params)
  PROVE  Counted'
<1> DEFINE n == Len(prog_scope)
           f == [id |-> id, params |-> params]
<1>1. CASE FuncIsNew(id)
  <2>1. /\ prog_scope' = Append(prog_scope, f)
        /\ entry_point_count' = entry_point_count + (IF id \in EntryId THEN 1 ELSE 0)
        /\ result = "declaring" /\ result' = "declaring"
    BY <1>1 DEF declare_func
  <2>2. prog_scope \in Seq(Func) /\ n \in Nat /\ f \in Func /\ f.id = id
    BY DEF Shape, TypeOK, Func
  <2> HIDE DEF f
  <2>3. /\ Len(prog_scope') = n + 1
        /\ prog_scope'[n + 1] = f
        /\ \A i \in 1 .. n : prog_scope'[i] = prog_scope[i]
    BY <2>1, <2>2
  <2>4. \A i \in 1 .. n : prog_scope[i].id # id
    BY <1>1 DEF FuncIsNew, seek_func
  <2>5. \A i, j \in 1 .. n + 1 : prog_scope'[i].id = prog_scope'[j].id => i = j
    <3> SUFFICES ASSUME NEW i \in 1 .. n + 1, NEW j \in 1 .. n + 1,
                        prog_scope'[i].id = prog_scope'[j].id
                 PROVE  i = j
      OBVIOUS
    <3>1. CASE i = n + 1 /\ j = n + 1
      BY <3>1
    <3>2. CASE i \in 1 .. n /\ j = n + 1
      BY <2>2, <2>3, <2>4, <3>2
    <3>3. CASE i = n + 1 /\ j \in 1 .. n
      BY <2>2, <2>3, <2>4, <3>3
    <3>4. CASE i \in 1 .. n /\ j \in 1 .. n
      BY <2>3, <3>4 DEF Counted
    <3> QED
      BY <2>2, <3>1, <3>2, <3>3, <3>4
  <2>6. IsFiniteSet(EntryFuncs(prog_scope))
    <3>1. EntryFuncs(prog_scope) \in SUBSET (1 .. n) /\ IsFiniteSet(1 .. n)
      BY <2>2, FS_Interval DEF EntryFuncs
    <3> QED
      BY <3>1, FS_Subset
  <2>7. n + 1 \notin EntryFuncs(prog_scope)
    BY <2>2 DEF EntryFuncs
  <2>8. \A i : i \in EntryFuncs(prog_scope') <=>
                 i \in EntryFuncs(prog_scope) \/ (i = n + 1 /\ id \in EntryId)
    BY <2>2, <2>3 DEF EntryFuncs
  <2>9. entry_point_count' = Cardinality(EntryFuncs(prog_scope'))
    <3>1. CASE id \in EntryId
      <4>1. EntryFuncs(prog_scope') = EntryFuncs(prog_scope) \cup {n + 1}
        <5>1. \A i : i \in EntryFuncs(prog_scope') <=> i \in EntryFuncs(prog_scope) \cup {n + 1}
          BY <2>8, <3>1
        <5> QED
          BY <5>1, SetExtensionality, Zenon
      <4>2. Cardinality(EntryFuncs(prog_scope) \cup {n + 1}) = Cardinality(EntryFuncs(prog_scope)) + 1
        BY <2>6, <2>7, FS_AddElement, Zenon
      <4>3. entry_point_count' = entry_point_count + 1
        BY <2>1, <3>1
      <4>4. entry_point_count = Cardinality(EntryFuncs(prog_scope))
        BY DEF Counted
      <4> QED
        BY <4>1, <4>2, <4>3, <4>4, Zenon
    <3>2. CASE id \notin EntryId
      <4>1. EntryFuncs(prog_scope') = EntryFuncs(prog_scope)
        BY <2>8, <3>2, SetExtensionality, Zenon
      <4>2. entry_point_count' = entry_point_count + 0 /\ entry_point_count \in Nat
        BY <2>1, <3>2 DEF Shape, TypeOK
      <4> QED
        BY <4>1, <4>2 DEF Counted
    <3> QED
      BY <3>1, <3>2
  <2> QED
    BY <2>1, <2>3, <2>5, <2>9 DEF Counted
<1>2. CASE ~FuncIsNew(id)
  BY <1>1, <1>2 DEF declare_func, Fail, program, annotations, Counted
<1> QED
  BY <1>1, <1>2

(* Every other step leaves the functions alone. *)
LEMMA QuietCounted ==
  ASSUME Counted, UNCHANGED program,
         result' \in {"analyzing", "NO_ERROR"} => entry_point_count = 1,
         result' = "NO_ERROR" => Len(frame_size') = Len(prog_scope)
  PROVE  Counted'
  BY DEF Counted, program

(* Every step keeps the count of entry points. *)
LEMMA NextCounted ==
  ASSUME Counted, Shape, [Next]_vars
  PROVE  Counted'
<1>1. ASSUME NEW id \in Id, NEW params \in 0 .. MaxParams, declare_func(id, params)
      PROVE  Counted'
  BY <1>1, DeclareCounted
<1>2. CASE CheckEntryPoint
  <2>1. UNCHANGED program /\ result' # "NO_ERROR"
    BY <1>2 DEF CheckEntryPoint, Fail
  <2>2. result' = "analyzing" => entry_point_count = 1
    BY <1>2 DEF CheckEntryPoint, EntryPointOk, Fail
  <2> QED
    BY <2>1, <2>2, QuietCounted
<1>3. CASE Finish
  <2>1. UNCHANGED <<program, frame_size>> /\ result = "analyzing" /\ Len(frame_size) = Len(prog_scope)
    BY <1>3 DEF Finish, annotations, Shape, WalkOK
  <2> QED
    BY <2>1, QuietCounted DEF Counted
<1>4. ASSUME NEW e \in Errors, Fail(e)
      PROVE  Counted'
  <2>1. result' \notin {"analyzing", "NO_ERROR"} /\ UNCHANGED program
    BY <1>4 DEF Fail, Errors, DeclErrors, UseErrors, ProgErrors
  <2> QED
    BY <2>1, QuietCounted
<1>5. ASSUME UNCHANGED <<result, program>>, result = "analyzing"
      PROVE  Counted'
  BY <1>5, QuietCounted DEF Counted
<1>6. CASE BeginFunc
  BY <1>5, <1>6 DEF BeginFunc
<1>7. ASSUME NEW id \in Id, DeclareParam(id)
      PROVE  Counted'
  <2>1. result = "analyzing"
    BY <1>7, InsideOpen DEF DeclareParam
  <2> QED
    BY <1>4, <1>5, <1>7, <2>1 DEF DeclareParam, declare_var, Errors, DeclErrors
<1>8. CASE BeginBody \/ EndBlock \/ BeginExpr \/ EndExpr \/ analyze_if \/ BeginThen \/ BeginElse
           \/ EndIf \/ analyze_while
  <2>1. result = "analyzing" /\ OnlyMoves
    BY <1>8, InsideOpen DEF BeginBody, EndBlock, BeginExpr, EndExpr, analyze_if, BeginThen,
       BeginElse, EndIf, analyze_while
  <2> QED
    BY <1>5, <2>1 DEF OnlyMoves
<1>9. CASE EndFunc \/ BeginLoop \/ EndWhile
  <2>1. result = "analyzing" /\ UNCHANGED <<result, program>>
    BY <1>9, InsideOpen DEF EndFunc, BeginLoop, EndWhile
  <2> QED
    BY <1>5, <2>1
<1>10. ASSUME NEW id \in Id, analyze_var_decl(id)
       PROVE  Counted'
  <2>1. result = "analyzing"
    BY <1>10, InsideOpen DEF analyze_var_decl
  <2> QED
    BY <1>4, <1>5, <1>10, <2>1 DEF analyze_var_decl, declare_var, Errors, DeclErrors
<1>11. CASE analyze_break
  BY <1>4, <1>11 DEF analyze_break, Errors, ProgErrors
<1>12. ASSUME NEW id \in Id, UseVar(id)
       PROVE  Counted'
  <2>1. result = "analyzing"
    BY <1>12, InsideOpen DEF UseVar, InExpr
  <2> QED
    BY <1>4, <1>5, <1>12, <2>1 DEF UseVar, Errors, UseErrors
<1>13. ASSUME NEW id \in Id, NEW args \in 0 .. MaxParams, UseFunc(id, args)
       PROVE  Counted'
  BY <1>4, <1>13 DEF UseFunc, CallError, Errors, UseErrors
<1>14. CASE UNCHANGED vars
  BY <1>14 DEF vars, program, annotations, Counted
<1> QED
  BY <1>1, <1>2, <1>3, <1>6, <1>7, <1>8, <1>9, <1>10, <1>11, <1>12, <1>13, <1>14 DEF Next

(* An accepted program has exactly one entry point, no function declared     *)
(* twice, and a frame for each of its functions.                             *)
THEOREM AcceptedPrograms == Spec => []AcceptedProgram
<1>1. Init => Shape /\ Counted
  BY InitShape, InitCounted
<1>2. Shape /\ Counted /\ [Next]_vars => (Shape /\ Counted)'
  BY NextShape, NextCounted
<1>3. Shape /\ Counted => AcceptedProgram
  BY DEF Counted, AcceptedProgram
<1> QED
  BY <1>1, <1>2, <1>3, PTL DEF Spec

-----------------------------------------------------------------------------
(* Searching the chain. *)

(* The innermost scope that declares a name decides what it means. *)
LEMMA SeekFound ==
  ASSUME NEW chain \in Seq(Scope), NEW id \in Id, NEW k \in 1 .. Len(chain),
         chain[k].decl_var[id] # NoDecl,
         \A i \in k + 1 .. Len(chain) : chain[i].decl_var[id] = NoDecl
  PROVE  seek_var(chain, id) = chain[k].decl_var[id]
<1> DEFINE H == {i \in 1 .. Len(chain) : chain[i].decl_var[id] # NoDecl}
<1>1. k \in H /\ \A i \in H : k >= i
  <2>1. ASSUME NEW i \in H, ~(k >= i)
        PROVE  FALSE
    <3>1. i \in k + 1 .. Len(chain)
      BY <2>1
    <3> QED
      BY <2>1, <3>1
  <2> QED
    BY <2>1
<1>2. \A i \in H : i \in Int
  OBVIOUS
<1>3. Max(H) = k
  <2> HIDE DEF H
  <2>1. \E x \in H : \A y \in H : x >= y
    BY <1>1
  <2>2. Max(H) \in H /\ \A y \in H : Max(H) >= y
    <3>1. Max(H) = CHOOSE x \in H : \A y \in H : x >= y
      BY DEF Max
    <3> QED
      BY <2>1, <3>1
  <2>3. \A m \in H : k >= m /\ m >= k => m = k
    BY <1>2
  <2> QED
    BY <1>1, <2>2, <2>3, Zenon
<1> QED
  BY <1>1, <1>3 DEF seek_var

(* What a search finds depends on the declarations only. *)
LEMMA SameSeek ==
  ASSUME NEW a \in Seq(Scope), NEW b \in Seq(Scope), NEW id \in Id, Len(a) = Len(b),
         \A i \in 1 .. Len(a) : a[i].decl_var[id] = b[i].decl_var[id]
  PROVE  seek_var(a, id) = seek_var(b, id)
<1> DEFINE H(c) == {i \in 1 .. Len(c) : c[i].decl_var[id] # NoDecl}
<1>1. H(a) = H(b)
  OBVIOUS
<1>2. CASE H(a) = {}
  BY <1>1, <1>2 DEF seek_var
<1>3. CASE H(a) # {}
  <2>1. Max(H(a)) \in H(a)
    <3>1. H(a) \in SUBSET (1 .. Len(a)) /\ Len(a) \in Nat
      OBVIOUS
    <3> HIDE DEF H
    <3> QED
      BY <1>3, <3>1, GreatestPosition
  <2>2. a[Max(H(a))].decl_var[id] = b[Max(H(a))].decl_var[id]
    BY <2>1
  <2> QED
    BY <1>1, <1>3, <2>2 DEF seek_var
<1> QED
  BY <1>2, <1>3

(* The chains of the callers. *)
LEMMA Prefix ==
  ASSUME NEW chain \in Seq(Scope), NEW k \in 0 .. Len(chain)
  PROVE  /\ SubSeq(chain, 1, k) \in Seq(Scope)
         /\ Len(SubSeq(chain, 1, k)) = k
         /\ \A i \in 1 .. k : SubSeq(chain, 1, k)[i] = chain[i]
         /\ k = Len(chain) => SubSeq(chain, 1, k) = chain
<1> DEFINE d == SubSeq(chain, 1, k)
<1>1. k \in Int /\ \A i \in 1 .. k : chain[i] \in Scope
  OBVIOUS
<1>2. /\ d \in Seq(Scope)
      /\ Len(d) = IF 1 <= k THEN k - 1 + 1 ELSE 0
      /\ \A i \in 1 .. k - 1 + 1 : d[i] = chain[1 + i - 1]
  BY <1>1, SubSeqProperties
<1>3. Len(d) = k
  <2> HIDE DEF d
  <2> QED
    BY <1>2
<1>4. \A i \in 1 .. k : d[i] = chain[i]
  <2> HIDE DEF d
  <2> QED
    BY <1>2
<1>5. k = Len(chain) => d = chain
  <2> HIDE DEF d
  <2> QED
    BY <1>2, <1>3, <1>4
<1> QED
  BY <1>2, <1>3, <1>4, <1>5

LEMMA PrefixMeaning ==
  ASSUME NEW a \in Seq(Scope), NEW b \in Seq(Scope), NEW k \in 0 .. Len(a), k <= Len(b),
         \A i \in 1 .. k : a[i].decl_var = b[i].decl_var
  PROVE  Meaning(SubSeq(a, 1, k)) = Meaning(SubSeq(b, 1, k))
<1>1. k \in 0 .. Len(b)
  OBVIOUS
<1> DEFINE p == SubSeq(a, 1, k)
           q == SubSeq(b, 1, k)
<1>2. /\ p \in Seq(Scope) /\ q \in Seq(Scope) /\ Len(p) = k /\ Len(q) = k
      /\ \A i \in 1 .. k : p[i] = a[i] /\ q[i] = b[i]
  BY <1>1, Prefix
<1> HIDE DEF p, q
<1>3. \A id \in Id : seek_var(p, id) = seek_var(q, id)
  BY <1>2, SameSeek
<1>4. Meaning(p) = Meaning(q)
  BY <1>3 DEF Meaning
<1> QED
  BY <1>4 DEF p, q

(* A name that a scope does not declare is sought around it. *)
LEMMA NotOnTop ==
  ASSUME NEW c \in Seq(Scope), c # <<>>, NEW id \in Id, c[Len(c)].decl_var[id] = NoDecl
  PROVE  seek_var(c, id) = seek_var(SubSeq(c, 1, Len(c) - 1), id)
<1> DEFINE n == Len(c) - 1
           p == SubSeq(c, 1, n)
<1>1. n \in 0 .. Len(c) /\ n \in Nat /\ Len(c) = n + 1
  OBVIOUS
<1>2. p \in Seq(Scope) /\ Len(p) = n /\ \A i \in 1 .. n : p[i] = c[i]
  BY <1>1, Prefix
<1> HIDE DEF n, p
<1> DEFINE H(s) == {i \in 1 .. Len(s) : s[i].decl_var[id] # NoDecl}
<1>3. H(c) = H(p)
  <2>1. \A i \in 1 .. Len(c) : i \in 1 .. n \/ i = Len(c)
    BY <1>1
  <2>2. \A i \in 1 .. n : i \in 1 .. Len(c)
    BY <1>1
  <2> QED
    BY <1>2, <2>1, <2>2
<1>4. CASE H(p) = {}
  BY <1>3, <1>4 DEF seek_var, n, p
<1>5. CASE H(p) # {}
  <2>1. Max(H(p)) \in H(p)
    <3>1. H(p) \in SUBSET (1 .. Len(p)) /\ Len(p) \in Nat
      BY <1>2
    <3> HIDE DEF H
    <3> QED
      BY <1>5, <3>1, GreatestPosition
  <2>2. c[Max(H(p))].decl_var[id] = p[Max(H(p))].decl_var[id]
    BY <1>2, <2>1
  <2>3. seek_var(c, id) = seek_var(p, id)
    BY <1>3, <1>5, <2>2 DEF seek_var
  <2> QED
    BY <2>3 DEF n, p
<1> QED
  BY <1>4, <1>5

(* A scope that declares nothing changes no meaning. *)
LEMMA EmptyOnTop ==
  ASSUME NEW c \in Seq(Scope), c # <<>>, \A id \in Id : c[Len(c)].decl_var[id] = NoDecl
  PROVE  Meaning(c) = Meaning(SubSeq(c, 1, Len(c) - 1))
<1>1. \A id \in Id : seek_var(c, id) = seek_var(SubSeq(c, 1, Len(c) - 1), id)
  BY NotOnTop
<1> QED
  BY <1>1 DEF Meaning

-----------------------------------------------------------------------------
(* The variables of Binding. *)

Env == Meaning(scopes)
Outer == [i \in 1 .. Len(scopes) |-> Meaning(SubSeq(scopes, 1, i - 1))]
Answer == Number(var_node)

LEMMA NothingFound ==
  Meaning(<<>>) = Static!NothingBound
<1>1. \A id \in Id : seek_var(<<>>, id) = NoDecl
  BY DEF seek_var
<1> QED
  BY <1>1 DEF Meaning, Number, Static!NothingBound

LEMMA InitStatic == Init => Static!Init
<1> SUFFICES ASSUME Init PROVE Static!Init
  OBVIOUS
<1>1. scopes = <<>> /\ var_unique_id = 0 /\ var_node = NoDecl
  BY DEF Init
<1>2. Env = Static!NothingBound
  BY <1>1, NothingFound DEF Env
<1>3. Outer = <<>>
  BY <1>1 DEF Outer
<1>4. Answer = NoDecl
  BY <1>1 DEF Answer, Number
<1> QED
  BY <1>1, <1>2, <1>3, <1>4 DEF Static!Init, Env, Outer, Answer

-----------------------------------------------------------------------------
(* The steps. *)

(* Steps that change no declaration, of any scope. *)
LEMMA SameChain ==
  ASSUME scopes \in Seq(Scope), scopes' \in Seq(Scope), Len(scopes') = Len(scopes),
         \A i \in 1 .. Len(scopes) : scopes'[i].decl_var = scopes[i].decl_var
  PROVE  Env' = Env /\ Outer' = Outer
<1>1. Len(scopes) \in 0 .. Len(scopes) /\ Len(scopes') \in 0 .. Len(scopes')
  OBVIOUS
<1>2. SubSeq(scopes, 1, Len(scopes)) = scopes /\ SubSeq(scopes', 1, Len(scopes')) = scopes'
  BY <1>1, Prefix
<1>3. \A k \in 0 .. Len(scopes) : Meaning(SubSeq(scopes', 1, k)) = Meaning(SubSeq(scopes, 1, k))
  <2> SUFFICES ASSUME NEW k \in 0 .. Len(scopes)
               PROVE  Meaning(SubSeq(scopes', 1, k)) = Meaning(SubSeq(scopes, 1, k))
    OBVIOUS
  <2>1. k \in 0 .. Len(scopes') /\ k <= Len(scopes) /\ \A i \in 1 .. k : scopes'[i].decl_var = scopes[i].decl_var
    OBVIOUS
  <2> QED
    BY <2>1, PrefixMeaning
<1>4. Meaning(scopes') = Meaning(scopes)
  BY <1>1, <1>2, <1>3
<1>5. \A i \in 1 .. Len(scopes) : Meaning(SubSeq(scopes', 1, i - 1)) = Meaning(SubSeq(scopes, 1, i - 1))
  BY <1>3
<1> QED
  BY <1>4, <1>5 DEF Env, Outer

LEMMA MoveStatic ==
  ASSUME scopes \in Seq(Scope), scopes # <<>>, NEW at \in Places, MoveTo(at)
  PROVE  Env' = Env /\ Outer' = Outer
<1>1. /\ scopes' \in Seq(Scope) /\ Len(scopes') = Len(scopes)
      /\ scopes'[Len(scopes)] = [scopes[Len(scopes)] EXCEPT !.at = at]
      /\ \A i \in 1 .. Len(scopes) - 1 : scopes'[i] = scopes[i]
  BY MoveChain DEF MoveTo
<1>2. scopes[Len(scopes)] \in Scope /\ Len(scopes) \in Nat
  OBVIOUS
<1>3. scopes'[Len(scopes)].decl_var = scopes[Len(scopes)].decl_var
  BY <1>1, <1>2 DEF Scope
<1>4. \A i \in 1 .. Len(scopes) : i \in 1 .. Len(scopes) - 1 \/ i = Len(scopes)
  OBVIOUS
<1> QED
  BY <1>1, <1>3, <1>4, SameChain

(* A function that opens a scope starts with the meanings of its caller. *)
LEMMA CallStatic ==
  ASSUME scopes \in Seq(Scope), scopes # <<>>, NEW at \in Places, NEW kind \in Kinds, NEW place \in Places,
         Call(at, NewScope(kind, place)), UNCHANGED <<var_unique_id, var_node>>
  PROVE  Static!Open
<1> DEFINE s == NewScope(kind, place)
           n == Len(scopes)
<1>1. s \in Scope /\ \A id \in Id : s.decl_var[id] = NoDecl
  BY DEF NewScope, Scope
<1>2. /\ scopes' \in Seq(Scope) /\ scopes' # <<>> /\ Len(scopes') = n + 1 /\ scopes'[n + 1] = s
      /\ scopes'[n] = [scopes[n] EXCEPT !.at = at]
      /\ \A i \in 1 .. n - 1 : scopes'[i] = scopes[i]
  BY <1>1, CallChain DEF Call
<1>3. \A i \in 1 .. n : scopes'[i].decl_var = scopes[i].decl_var
  <2>1. scopes[n] \in Scope
    OBVIOUS
  <2>2. scopes'[n].decl_var = scopes[n].decl_var
    BY <1>2, <2>1 DEF Scope
  <2>3. \A i \in 1 .. n : i \in 1 .. n - 1 \/ i = n
    OBVIOUS
  <2> QED
    BY <1>2, <2>2, <2>3
<1>4. \A k \in 0 .. n : Meaning(SubSeq(scopes', 1, k)) = Meaning(SubSeq(scopes, 1, k))
  <2> SUFFICES ASSUME NEW k \in 0 .. n
               PROVE  Meaning(SubSeq(scopes', 1, k)) = Meaning(SubSeq(scopes, 1, k))
    OBVIOUS
  <2>1. k \in 0 .. Len(scopes') /\ k <= Len(scopes) /\ \A i \in 1 .. k : scopes'[i].decl_var = scopes[i].decl_var
    BY <1>2, <1>3
  <2> QED
    BY <1>2, <2>1, PrefixMeaning
<1>5. SubSeq(scopes, 1, n) = scopes /\ n \in 0 .. n /\ n \in Nat
  BY Prefix
<1>6. Meaning(scopes') = Meaning(scopes)
  <2>1. Meaning(scopes') = Meaning(SubSeq(scopes', 1, Len(scopes') - 1))
    BY <1>1, <1>2, EmptyOnTop
  <2>2. Len(scopes') - 1 = n
    BY <1>2, <1>5
  <2> QED
    BY <1>4, <1>5, <2>1, <2>2
<1>7. Outer' = Append(Outer, Env)
  <2>1. \A i \in 1 .. n : i - 1 \in 0 .. n
    BY <1>5
  <2>2. \A i \in 1 .. n : Meaning(SubSeq(scopes', 1, i - 1)) = Meaning(SubSeq(scopes, 1, i - 1))
    BY <1>4, <2>1
  <2>3. Meaning(SubSeq(scopes', 1, (n + 1) - 1)) = Meaning(scopes)
    <3>1. (n + 1) - 1 = n
      BY <1>5
    <3> QED
      BY <1>4, <1>5, <3>1
  <2> DEFINE F == [i \in 1 .. n + 1 |-> Meaning(SubSeq(scopes', 1, i - 1))]
             G == [i \in 1 .. n |-> Meaning(SubSeq(scopes, 1, i - 1))]
             S == {Meaning(SubSeq(scopes, 1, i - 1)) : i \in 1 .. n}
  <2>4. G \in Seq(S) /\ Len(G) = n
    BY <1>5
  <2>5. F = Append(G, Meaning(scopes))
    <3> DEFINE A == Append(G, Meaning(scopes))
    <3>1. A = [i \in 1 .. Len(G) + 1 |-> IF i \in 1 .. Len(G) THEN G[i] ELSE Meaning(scopes)]
      BY <2>4
    <3>2. \A i \in 1 .. n + 1 : i \in 1 .. n \/ i = n + 1
      BY <1>5
    <3> QED
      BY <1>5, <2>2, <2>3, <2>4, <3>1, <3>2
  <2>6. Outer' = F /\ Outer = G /\ Env = Meaning(scopes)
    BY <1>2 DEF Outer, Env
  <2> QED
    BY <2>5, <2>6
<1> QED
  BY <1>6, <1>7 DEF Static!Open, Env, Outer

(* When a scope is destroyed the names mean again what they meant around it. *)
LEMMA PopStatic ==
  ASSUME scopes \in Seq(Scope), scopes # <<>>, Pop, UNCHANGED <<var_unique_id, var_node>>
  PROVE  Static!Close
<1>1. PICK n \in Nat : n + 1 = Len(scopes)
  <2>1. Len(scopes) \in Nat /\ Len(scopes) # 0
    OBVIOUS
  <2>2. Len(scopes) - 1 \in Nat /\ (Len(scopes) - 1) + 1 = Len(scopes)
    BY <2>1
  <2> QED
    BY <2>2
<1>2. n \in 0 .. Len(scopes) /\ n = Len(scopes) - 1
  BY <1>1
<1>3. /\ scopes' = SubSeq(scopes, 1, n) /\ scopes' \in Seq(Scope) /\ Len(scopes') = n
      /\ \A i \in 1 .. n : scopes'[i] = scopes[i]
  BY <1>2, Prefix DEF Pop
<1>4. \A i \in 1 .. n : Meaning(SubSeq(scopes', 1, i - 1)) = Meaning(SubSeq(scopes, 1, i - 1))
  <2> SUFFICES ASSUME NEW i \in 1 .. n
               PROVE  Meaning(SubSeq(scopes', 1, i - 1)) = Meaning(SubSeq(scopes, 1, i - 1))
    OBVIOUS
  <2>1. /\ i - 1 \in 0 .. Len(scopes') /\ i - 1 <= Len(scopes)
        /\ \A j \in 1 .. i - 1 : scopes'[j].decl_var = scopes[j].decl_var
    BY <1>1, <1>3
  <2> QED
    BY <1>3, <2>1, PrefixMeaning
<1> DEFINE F == [i \in 1 .. n |-> Meaning(SubSeq(scopes', 1, i - 1))]
           G == [i \in 1 .. n + 1 |-> Meaning(SubSeq(scopes, 1, i - 1))]
           S == {Meaning(SubSeq(scopes, 1, i - 1)) : i \in 1 .. n + 1}
<1>5. Outer = G /\ Outer' = F
  BY <1>1, <1>3 DEF Outer
<1>6. G \in Seq(S) /\ Len(G) = n + 1 /\ G # <<>>
  <2>1. PICK m \in Nat : m = n + 1
    OBVIOUS
  <2> DEFINE H == [i \in 1 .. m |-> Meaning(SubSeq(scopes, 1, i - 1))]
             T == {Meaning(SubSeq(scopes, 1, i - 1)) : i \in 1 .. m}
  <2>2. H \in Seq(T) /\ Len(H) = m
    <3>1. H \in [1 .. m -> T]
      OBVIOUS
    <3> HIDE DEF H, T
    <3> QED
      BY <3>1
  <2>3. H = G /\ T = S
    BY <2>1
  <2> HIDE DEF G, H, S, T
  <2> QED
    BY <2>1, <2>2, <2>3
<1>7. G[n + 1] = Meaning(scopes')
  <2>1. n + 1 \in 1 .. n + 1 /\ (n + 1) - 1 = n
    BY <1>1
  <2> QED
    BY <1>3, <2>1
<1>8. F = SubSeq(G, 1, n)
  <2>1. F = [i \in 1 .. n |-> G[i]]
    BY <1>1, <1>4
  <2> HIDE DEF F, G, S
  <2> QED
    BY <1>1, <1>6, <2>1, SubSeqProperties
<1>9. Env' = G[Len(G)] /\ Len(G) - 1 = n
  <2> HIDE DEF G
  <2> QED
    BY <1>1, <1>6, <1>7 DEF Env
<1> QED
  <2> HIDE DEF F, G, S
  <2>1. Outer # <<>> /\ Env' = Outer[Len(Outer)] /\ Outer' = SubSeq(Outer, 1, Len(Outer) - 1)
    BY <1>5, <1>6, <1>8, <1>9
  <2> QED
    BY <2>1 DEF Static!Close, Env, Outer

(* An error gives up every scope, and with them every meaning. *)
LEMMA FailStatic ==
  ASSUME NEW e, Fail(e)
  PROVE  Static!GiveUp
<1>1. scopes' = <<>> /\ UNCHANGED <<var_unique_id, var_node>>
  BY DEF Fail, counters, annotations
<1>2. Env' = Static!NothingBound
  BY <1>1, NothingFound DEF Env
<1>3. Outer' = <<>>
  BY <1>1 DEF Outer
<1> QED
  BY <1>1, <1>2, <1>3 DEF Static!GiveUp, Env, Outer

(* Nothing is bound when the analysis of a function begins. *)
LEMMA BeginFuncStatic ==
  ASSUME BeginFunc
  PROVE  Static!Open
<1> DEFINE s == NewScope("func", "params")
<1>1. scopes = <<>> /\ scopes' = <<s>> /\ UNCHANGED <<var_unique_id, var_node>>
  BY DEF BeginFunc, annotations
<1>2. s \in Scope /\ \A id \in Id : s.decl_var[id] = NoDecl
  BY DEF NewScope, Scope, Kinds, Places
<1>3. /\ <<s>> \in Seq(Scope) /\ <<s>> # <<>> /\ Len(<<s>>) = 1
      /\ <<s>>[Len(<<s>>)] = s /\ SubSeq(<<s>>, 1, 0) = <<>>
  <2> HIDE DEF s
  <2>1. <<s>> \in Seq(Scope) /\ <<s>> # <<>> /\ Len(<<s>>) = 1 /\ <<s>>[Len(<<s>>)] = s
    BY <1>2
  <2>2. SubSeq(<<s>>, 1, 0) = <<>>
    <3>1. 0 \in 0 .. Len(<<s>>)
      BY <2>1
    <3>2. SubSeq(<<s>>, 1, 0) \in Seq(Scope) /\ Len(SubSeq(<<s>>, 1, 0)) = 0
      BY <2>1, <3>1, Prefix
    <3> QED
      BY <3>2
  <2> QED
    BY <2>1, <2>2
<1> HIDE DEF s
<1>4. Meaning(<<s>>) = Meaning(<<>>)
  <2>1. Meaning(<<s>>) = Meaning(SubSeq(<<s>>, 1, Len(<<s>>) - 1))
    BY <1>2, <1>3, EmptyOnTop
  <2>2. Len(<<s>>) - 1 = 0
    BY <1>3
  <2> QED
    BY <1>3, <2>1, <2>2
<1>5. Env' = Meaning(<<s>>) /\ Env = Meaning(<<>>)
  BY <1>1 DEF Env
<1>6. Outer = <<>> /\ Outer' = <<Meaning(<<>>)>>
  <2>1. Outer = <<>>
    BY <1>1 DEF Outer
  <2>2. Outer' = [i \in 1 .. 1 |-> Meaning(SubSeq(<<s>>, 1, i - 1))]
    BY <1>1, <1>3 DEF Outer
  <2>3. \A i \in 1 .. 1 : Meaning(SubSeq(<<s>>, 1, i - 1)) = Meaning(<<>>)
    <3>1. \A i \in 1 .. 1 : i - 1 = 0
      OBVIOUS
    <3> QED
      BY <1>3, <3>1, Zenon
  <2> QED
    BY <2>1, <2>2, <2>3
<1>7. Outer' = Append(Outer, Env)
  BY <1>5, <1>6
<1> QED
  BY <1>1, <1>4, <1>5, <1>7 DEF Static!Open, Env, Outer

(* What is annotated on a reference is what its name means. *)
LEMMA UseVarStatic ==
  ASSUME scopes \in Seq(Scope), NEW id \in Id, UseVar(id)
  PROVE  Static!Lookup(id) \/ Static!GiveUp
<1> DEFINE decl == seek_var(scopes, id)
<1>1. CASE decl # NoDecl
  <2>1. decl \in Decl
    BY <1>1, SeekType
  <2>2. var_node' = decl /\ UNCHANGED <<scopes, var_unique_id>>
    BY <1>1 DEF UseVar, counters
  <2>3. Env[id] = decl.unique_id /\ Env[id] # NoDecl
    <3>1. Env[id] = decl.unique_id
      BY <1>1 DEF Env, Meaning, Number
    <3> HIDE DEF decl
    <3>2. decl.unique_id \in Nat
      BY <2>1 DEF Decl
    <3> QED
      BY <3>1, <3>2, NoDeclAssumption
  <2>4. Answer' = Env[id]
    <3> HIDE DEF decl
    <3> QED
      BY <1>1, <2>2, <2>3 DEF Answer, Number
  <2>5. Env' = Env /\ Outer' = Outer
    BY <2>2 DEF Env, Outer
  <2> QED
    BY <2>2, <2>3, <2>4, <2>5 DEF Static!Lookup, Env, Outer, Answer
<1>2. CASE decl = NoDecl
  <2>1. Fail("UNDECLARED_VARIABLE")
    BY <1>2 DEF UseVar
  <2> QED
    BY <2>1, FailStatic
<1> QED
  BY <1>1, <1>2

(* A declaration binds a name that its scope has not bound yet. *)
LEMMA DeclareStatic ==
  ASSUME scopes \in Seq(Scope), scopes # <<>>, func \in Nat, current_stack_offset \in Nat,
         var_unique_id \in Nat, NEW id \in Id, NEW position \in Nat, NEW at \in Places,
         declare_var(id, position, at)
  PROVE  Static!Bind(id)
<1> DEFINE v == [func |-> func, param |-> position, id |-> id,
                 unique_id |-> var_unique_id, stack_offset |-> NextSlot]
           top == [Top EXCEPT !.at = at, !.decl_var[id] = v]
<1>1. v \in Decl /\ v # NoDecl /\ v.unique_id = var_unique_id
  BY NoDeclAssumption DEF Decl, NextSlot
<1>2. /\ scopes' = [scopes EXCEPT ![Len(scopes)] = top]
      /\ Top.decl_var[id] = NoDecl
      /\ var_unique_id' = var_unique_id + 1 /\ var_node' = var_node
  BY DEF declare_var, Redeclared
<1> HIDE DEF v
<1>3. PICK n \in Nat : n = Len(scopes)
  OBVIOUS
<1>4. n # 0 /\ Top = scopes[n] /\ Top \in Scope
  BY <1>3 DEF Top
<1>5. /\ top \in Scope /\ top.decl_var[id] = v
      /\ \A other \in Id \ {id} : top.decl_var[other] = Top.decl_var[other]
  BY <1>1, <1>4 DEF Scope
<1> HIDE DEF top
<1>6. /\ scopes' \in Seq(Scope) /\ scopes' # <<>> /\ Len(scopes') = n /\ scopes'[n] = top
      /\ \A i \in 1 .. n - 1 : scopes'[i] = scopes[i]
  BY <1>2, <1>3, <1>5, ReplaceTop
<1>7. Outer' = Outer
  <2>1. \A i \in 1 .. n : Meaning(SubSeq(scopes', 1, i - 1)) = Meaning(SubSeq(scopes, 1, i - 1))
    <3> SUFFICES ASSUME NEW i \in 1 .. n
                 PROVE  Meaning(SubSeq(scopes', 1, i - 1)) = Meaning(SubSeq(scopes, 1, i - 1))
      OBVIOUS
    <3>1. /\ i - 1 \in 0 .. Len(scopes') /\ i - 1 <= Len(scopes)
          /\ \A j \in 1 .. i - 1 : scopes'[j].decl_var = scopes[j].decl_var
      BY <1>3, <1>6
    <3> QED
      BY <1>6, <3>1, PrefixMeaning
  <2> QED
    BY <1>3, <1>6, <2>1 DEF Outer
<1>8. Env' = [Env EXCEPT ![id] = var_unique_id]
  <2>1. seek_var(scopes', id) = v
    <3>1. n \in 1 .. Len(scopes') /\ scopes'[n].decl_var[id] = v
      BY <1>4, <1>5, <1>6
    <3>2. \A i \in n + 1 .. Len(scopes') : scopes'[i].decl_var[id] = NoDecl
      BY <1>6
    <3> QED
      BY <1>1, <1>6, <3>1, <3>2, SeekFound
  <2>2. ASSUME NEW other \in Id, other # id
        PROVE  seek_var(scopes', other) = seek_var(scopes, other)
    <3>1. \A i \in 1 .. n : i \in 1 .. n - 1 \/ i = n
      OBVIOUS
    <3>2. scopes'[n].decl_var[other] = scopes[n].decl_var[other]
      BY <1>4, <1>5, <1>6, <2>2
    <3>3. \A i \in 1 .. n : scopes'[i].decl_var[other] = scopes[i].decl_var[other]
      BY <1>6, <3>1, <3>2
    <3> QED
      BY <1>3, <1>6, <3>3, SameSeek
  <2>3. Number(v) = var_unique_id
    BY <1>1 DEF Number
  <2> QED
    BY <2>1, <2>2, <2>3 DEF Env, Meaning
<1>9. Outer # <<>> /\ Env[id] = Outer[Len(Outer)][id]
  <2>1. seek_var(scopes, id) = seek_var(SubSeq(scopes, 1, n - 1), id)
    BY <1>2, <1>3, <1>4, NotOnTop
  <2>2. Len(Outer) = n /\ Outer[n] = Meaning(SubSeq(scopes, 1, n - 1))
    BY <1>3, <1>4 DEF Outer
  <2>3. Outer # <<>>
    BY <1>4, <2>2
  <2> QED
    BY <2>1, <2>2, <2>3 DEF Env, Meaning
<1> QED
  BY <1>2, <1>7, <1>8, <1>9 DEF Static!Bind, Env, Outer

StaticStep == [Static!Next]_<<Env, Outer, var_unique_id, Answer>>

(* Every step of the walk is a step of Binding, or leaves its variables. *)
LEMMA NextStatic ==
  ASSUME Shape, [Next]_vars
  PROVE  StaticStep
<1>1. /\ scopes \in Seq(Scope) /\ func \in Nat /\ param \in Nat
      /\ current_stack_offset \in Nat /\ var_unique_id \in Nat
  BY DEF Shape, TypeOK
<1>2. ASSUME UNCHANGED <<scopes, var_unique_id, var_node>>
      PROVE  StaticStep
  BY <1>2 DEF StaticStep, Env, Outer, Answer
<1>3. ASSUME NEW e, Fail(e)
      PROVE  StaticStep
  BY <1>3, FailStatic DEF Static!Next, StaticStep
<1>4. ASSUME OnlyMoves \/ UNCHANGED <<var_unique_id, var_node>>
      PROVE  UNCHANGED <<var_unique_id, var_node>>
  BY <1>4 DEF OnlyMoves, counters, annotations
<1>5. ASSUME scopes # <<>>, NEW at \in Places, NEW kind \in Kinds, NEW place \in Places,
             Call(at, NewScope(kind, place)), UNCHANGED <<var_unique_id, var_node>>
      PROVE  StaticStep
  BY <1>1, <1>5, CallStatic DEF Static!Next, StaticStep
<1>6. ASSUME scopes # <<>>, Pop, UNCHANGED <<var_unique_id, var_node>>
      PROVE  StaticStep
  BY <1>1, <1>6, PopStatic DEF Static!Next, StaticStep
<1>7. ASSUME scopes # <<>>, NEW at \in Places, MoveTo(at), UNCHANGED <<var_unique_id, var_node>>
      PROVE  StaticStep
  <2>1. Env' = Env /\ Outer' = Outer
    BY <1>1, <1>7, MoveStatic
  <2> QED
    BY <1>7, <2>1 DEF Answer, StaticStep
<1>8. ASSUME scopes # <<>>, NEW id \in Id, NEW position \in Nat, NEW at \in Places,
             declare_var(id, position, at)
      PROVE  StaticStep
  <2>1. Static!Bind(id)
    BY <1>1, <1>8, DeclareStatic
  <2> QED
    BY <2>1 DEF Static!Next, StaticStep
<1> USE DEF Places, Kinds
<1>9. ASSUME NEW id \in Id, NEW params \in 0 .. MaxParams, declare_func(id, params)
       PROVE  StaticStep
  <2>1. Fail("MULTIPLE_FUNC_DECLARATION") \/ UNCHANGED <<scopes, var_unique_id, var_node>>
    BY <1>9 DEF declare_func, counters, annotations
  <2> QED
    BY <1>3, <1>2, <2>1
<1>10. CASE CheckEntryPoint
  <2>1. (\E e : Fail(e)) \/ UNCHANGED <<scopes, var_unique_id, var_node>>
    BY <1>10, Zenon DEF CheckEntryPoint, counters, annotations
  <2> QED
    BY <1>3, <1>2, <2>1
<1>11. CASE BeginFunc
  BY <1>11, BeginFuncStatic DEF Static!Next, StaticStep
<1>12. ASSUME NEW id \in Id, DeclareParam(id)
       PROVE  StaticStep
  <2>1. scopes # <<>>
    BY <1>12, InsideOpen DEF DeclareParam
  <2>2. CASE declare_var(id, param + 1, "params")
    BY <1>1, <1>8, <2>1, <2>2
  <2>3. CASE Fail("MULTIPLE_VAR_DECLARATION")
    BY <1>3, <2>3
  <2> QED
    BY <1>12, <2>2, <2>3 DEF DeclareParam
<1>13. CASE BeginBody
  BY <1>4, <1>5, <1>13, InsideOpen DEF BeginBody
<1>14. CASE EndFunc
  BY <1>6, <1>14, InsideOpen DEF EndFunc, counters
<1>15. CASE Finish
  BY <1>2, <1>15 DEF Finish, counters, annotations
<1>16. CASE EndBlock
  BY <1>4, <1>6, <1>16, InsideOpen DEF EndBlock
<1>17. ASSUME NEW id \in Id, analyze_var_decl(id)
       PROVE  StaticStep
  <2>1. scopes # <<>>
    BY <1>17, InsideOpen DEF analyze_var_decl
  <2>2. ASSUME NEW at \in {"ops", "expr"}, declare_var(id, 0, at)
        PROVE  StaticStep
    BY <1>8, <2>1, <2>2
  <2>3. CASE Fail("MULTIPLE_VAR_DECLARATION")
    BY <1>3, <2>3
  <2> QED
    BY <1>17, <2>2, <2>3 DEF analyze_var_decl
<1>18. CASE BeginExpr
  BY <1>4, <1>7, <1>18, InsideOpen DEF BeginExpr
<1>19. CASE analyze_break
  BY <1>3, <1>19 DEF analyze_break
<1>20. CASE analyze_if
  BY <1>4, <1>5, <1>20, InsideOpen DEF analyze_if
<1>21. CASE BeginThen
  BY <1>4, <1>5, <1>21, InsideOpen DEF BeginThen
<1>22. CASE BeginElse
  BY <1>4, <1>5, <1>22, InsideOpen DEF BeginElse
<1>23. CASE EndIf
  BY <1>4, <1>6, <1>23, InsideOpen DEF EndIf
<1>24. CASE analyze_while
  BY <1>4, <1>5, <1>24, InsideOpen DEF analyze_while
<1>25. CASE BeginLoop
  BY <1>5, <1>25, InsideOpen DEF BeginLoop, annotations
<1>26. CASE EndWhile
  BY <1>6, <1>26, InsideOpen DEF EndWhile, annotations
<1>27. ASSUME NEW id \in Id, UseVar(id)
       PROVE  StaticStep
  BY <1>1, <1>27, UseVarStatic DEF Static!Next, StaticStep
<1>28. ASSUME NEW id \in Id, NEW args \in 0 .. MaxParams, UseFunc(id, args)
       PROVE  StaticStep
  BY <1>3, <1>28 DEF UseFunc
<1>29. CASE EndExpr
  BY <1>4, <1>7, <1>29, InsideOpen DEF EndExpr
<1>30. CASE UNCHANGED vars
  BY <1>2, <1>30 DEF vars, counters, annotations
<1> QED
  BY <1>9, <1>10, <1>11, <1>12, <1>13, <1>14, <1>15, <1>16, <1>17, <1>18, <1>19, <1>20,
     <1>21, <1>22, <1>23, <1>24, <1>25, <1>26, <1>27, <1>28, <1>29, <1>30 DEF Next

-----------------------------------------------------------------------------
(* build_scopes gives every reference the meaning that static scoping gives   *)
(* it, in every program: the chain of scope_t lists, searched outwards from   *)
(* the innermost (seek_var), behaves as the nested environments of Binding.   *)
THEOREM ScopingIsStatic == Spec => StaticScoping
<1>1. Init => Static!Init
  BY InitStatic
<1>2. Shape /\ [Next]_vars => StaticStep
  BY NextStatic
<1>3. Spec => []Shape
  BY InitShape, NextShape, PTL DEF Spec
<1> QED
  BY <1>1, <1>2, <1>3, PTL DEF Spec, StaticScoping, Static!Spec, StaticStep, Env, Outer, Answer
=============================================================================
