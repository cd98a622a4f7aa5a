---------------------------- MODULE ParserProofs ----------------------------
(***************************************************************************)
(* Proofs about the parser and the code it generates, for every program    *)
(* and every set of declarations, in three parts: the structure of the     *)
(* activations, and what each knows; the operand stack; and the code:      *)
(* accesses through pointers, FOR, labels and arguments.                   *)
(***************************************************************************)
EXTENDS ParserProps, ParserLabels, ArgumentRegisters, FiniteSetTheorems, TLAPS

(***************************************************************************)
(* create_type: the id it returns stands for a pointer to the target, and  *)
(* the table stays free of duplicates and cycles.                          *)
(***************************************************************************)
LEMMA CreateType ==
  ASSUME NEW table, NEW free, NEW target,
         PointerTableOK(table, free),
         target \in Concrete \cup DOMAIN table,
         NEW new,  new  = TableWith(table, free, target),
         NEW id,   id   = PointerTo(table, free, target),
         NEW next, next = FreeAfter(table, free, target)
  PROVE  /\ PointerTableOK(new, next)
         /\ id \in DOMAIN new
         /\ new[id] = target
         /\ DOMAIN table \subseteq DOMAIN new
         /\ \A t \in DOMAIN table : new[t] = table[t]
<1>1. CASE IsCreated(table, target)
  <2>1. new = table /\ next = free
    BY <1>1 DEF TableWith, FreeAfter
  <2>2. id \in DOMAIN table /\ table[id] = target
    BY <1>1 DEF PointerTo, IsCreated
  <2> QED BY <2>1, <2>2
<1>2. CASE ~IsCreated(table, target)
  <2>1. next = free + 1 /\ id = free + 1
    BY <1>2 DEF FreeAfter, PointerTo
  <2>2. new = [t \in DOMAIN table \cup {free + 1} |->
                 IF t \in DOMAIN table THEN table[t] ELSE target]
    BY <1>2 DEF TableWith
  <2>3. free + 1 \notin DOMAIN table /\ free \in Nat /\ free >= FIRST_USER_DEFINED
    BY DEF PointerTableOK
  <2>4. DOMAIN new = (FIRST_USER_DEFINED + 1) .. next
    BY <2>1, <2>2, <2>3 DEF PointerTableOK, FIRST_USER_DEFINED
  <2>5. \A t \in DOMAIN new :
          new[t] \in Concrete \cup {u \in DOMAIN new : u < t}
    BY <2>2, <2>3 DEF PointerTableOK, FIRST_USER_DEFINED
  <2>6. \A t, u \in DOMAIN new : new[t] = new[u] => t = u
    <3>1. /\ DOMAIN new = DOMAIN table \cup {free + 1}
          /\ \A t \in DOMAIN table : new[t] = table[t] /\ new[t] # target
          /\ new[free + 1] = target
      BY <1>2, <2>2, <2>3 DEF IsCreated
    <3>2. \A t, u \in DOMAIN table : table[t] = table[u] => t = u
      BY DEF PointerTableOK
    <3> QED BY <3>1, <3>2
  <2>7. PointerTableOK(new, next)
    BY <2>1, <2>3, <2>4, <2>5, <2>6 DEF PointerTableOK, FIRST_USER_DEFINED
  <2> QED BY <2>1, <2>2, <2>3, <2>7
<1> QED BY <1>1, <1>2

-----------------------------------------------------------------------------
(***************************************************************************)
(* What the operators that actions are built of do to the parts of the     *)
(* invariant.                                                              *)
(***************************************************************************)

LEMMA ReadTokenOK ==
  ASSUME LexerOK, ReadToken
  PROVE  LexerOK'
BY DEF LexerOK, ReadToken, FEOF

LEMMA KeepTokenOK ==
  ASSUME LexerOK, KeepToken
  PROVE  LexerOK'
BY DEF LexerOK, KeepToken, lexer

LEMMA ReturnsOK ==
  ASSUME ControlOK,
         NEW p \in ControlPoints, NEW r \in [type : Type, name : Names \cup {NoName}],
         Returns(p, r)
  PROVE  ControlOK' /\ pc' = p /\ result' = r
BY DEF ControlOK, Returns

LEMMA GotoOK ==
  ASSUME ControlOK, NEW p \in ControlPoints, Goto(p)
  PROVE  ControlOK' /\ pc' = p
BY DEF ControlOK, Goto, Nothing, VOID, NoName, Type

LEMMA YieldsOK ==
  ASSUME ControlOK, NEW t \in Type, Yields(t)
  PROVE  ControlOK' /\ pc' = "return" /\ result'.type = t
BY DEF ControlOK, Yields, Returns, NoName, ControlPoints

LEMMA AfterOK ==
  ASSUME NEW s \in Seq(Type), NEW op \in Op
  PROVE  After(s, op) \in Seq(Type)
<1>1. Leaves(op) \in Seq(Type)
  BY DEF Leaves, Op, Type, BOOL
<1>2. Len(Expects(op)) \in Nat
  BY DEF Expects, Op
<1>3. SubSeq(s, 1, Len(s) - Len(Expects(op))) \in Seq(Type)
  BY <1>2
<1> QED BY <1>1, <1>3 DEF After

LEMMA EmitOK ==
  ASSUME OutputOK, NEW op \in Op, Emit(op), m_label_tag' \in Nat
  PROVE  OutputOK'
BY AfterOK DEF OutputOK, Emit

LEMMA QuietOK ==
  ASSUME OutputOK, Quiet, m_label_tag' \in Nat
  PROVE  OutputOK'
<1>1. NoOp \in Op
  BY DEF NoOp, Op, Calls, Silent, VOID, Type, NoName
<1> QED BY <1>1 DEF OutputOK, Quiet

LEMMA ActivationOK ==
  ASSUME OutputOK, NEW at \in Enclosing \cup Waiting
  PROVE  /\ Activation(at) \in Frame
         /\ Activation(at).at = at
BY DEF OutputOK, Activation, Frame, Type, VOID

LEMMA TopOK ==
  ASSUME FramesOK, frames # <<>>
  PROVE  Top \in Frame /\ Len(frames) \in Nat \ {0} /\ Top = frames[Len(frames)]
BY DEF FramesOK, Top

(***************************************************************************)
(* The four things a step does to the activations.                         *)
(***************************************************************************)
LEMMA PushOK ==
  ASSUME FramesOK, Nesting, frames # <<>>,
         NEW f \in Frame, Push(f),
         Top.at \in Parents(f.at),
         pc' # "end", f.at \in RunsIn(pc')
  PROVE  FramesOK' /\ Nesting' /\ Top' = f
<1>1. frames' \in Seq(Frame) /\ Len(frames') = Len(frames) + 1
  BY DEF FramesOK, Push
<1>2. \A i \in 1 .. Len(frames) : frames'[i] = frames[i]
  BY DEF FramesOK, Push
<1>3. frames'[Len(frames')] = f /\ Top' = f
  BY DEF FramesOK, Push, Top
<1>4. frames' # <<>> /\ frames'[1].at = "main"
  BY <1>1, <1>2, TopOK DEF Nesting
<1>5. ASSUME NEW i \in 2 .. Len(frames')
      PROVE  frames'[i - 1].at \in Parents(frames'[i].at)
  <2>1. CASE i = Len(frames')
    BY <1>1, <1>2, <1>3, <2>1, TopOK
  <2>2. CASE i # Len(frames')
    <3>1. i \in 2 .. Len(frames) /\ frames'[i] = frames[i] /\ frames'[i - 1] = frames[i - 1]
      BY <1>1, <1>2, <2>2, TopOK
    <3> QED BY <3>1 DEF Nesting
  <2> QED BY <2>1, <2>2
<1> QED BY <1>1, <1>3, <1>4, <1>5 DEF FramesOK, Nesting

LEMMA BecomeOK ==
  ASSUME FramesOK, Nesting, frames # <<>>,
         NEW f \in Frame, Become(f),
         Parents(Top.at) \subseteq Parents(f.at), Top.at # "main",
         pc' # "end", f.at \in RunsIn(pc')
  PROVE  FramesOK' /\ Nesting' /\ Top' = f
<1>1. frames' \in Seq(Frame) /\ Len(frames') = Len(frames)
  BY DEF FramesOK, Become
<1>2. \A i \in 1 .. Len(frames) - 1 : frames'[i] = frames[i]
  BY DEF FramesOK, Become
<1>3. frames'[Len(frames')] = f /\ Top' = f
  BY TopOK DEF FramesOK, Become, Top
<1>4. frames' # <<>> /\ Len(frames) > 1 /\ frames'[1].at = "main"
  BY <1>1, <1>2, TopOK DEF Nesting, Top
<1>5. ASSUME NEW i \in 2 .. Len(frames')
      PROVE  frames'[i - 1].at \in Parents(frames'[i].at)
  <2>1. CASE i = Len(frames')
    <3>1. i \in 2 .. Len(frames) /\ frames[i] = Top /\ frames'[i - 1] = frames[i - 1]
      BY <1>1, <1>2, <2>1, TopOK
    <3>2. frames[i - 1].at \in Parents(Top.at) /\ frames'[i] = f
      BY <1>3, <2>1, <3>1 DEF Nesting
    <3> QED BY <3>1, <3>2
  <2>2. CASE i # Len(frames')
    <3>1. i \in 2 .. Len(frames) /\ frames'[i] = frames[i] /\ frames'[i - 1] = frames[i - 1]
      BY <1>1, <1>2, <2>2, TopOK
    <3> QED BY <3>1 DEF Nesting
  <2> QED BY <2>1, <2>2
<1> QED BY <1>1, <1>3, <1>4, <1>5 DEF FramesOK, Nesting

LEMMA PopOK ==
  ASSUME FramesOK, Nesting, frames # <<>>, Pop,
         Top.at # "main",
         pc' # "end", Parents(Top.at) \subseteq RunsIn(pc')
  PROVE  /\ FramesOK' /\ Nesting'
         /\ Top' = frames[Len(frames) - 1]
         /\ Len(frames) > 1 /\ Top'.at \in Parents(Top.at)
<1>1. Len(frames) > 1
  BY TopOK DEF Nesting, Top
<1>2. frames' \in Seq(Frame) /\ Len(frames') = Len(frames) - 1
  BY <1>1 DEF FramesOK, Pop
<1>3. \A i \in 1 .. Len(frames) - 1 : frames'[i] = frames[i]
  BY <1>1 DEF FramesOK, Pop
<1>4. Top' = frames[Len(frames) - 1] /\ Top'.at \in Parents(Top.at)
  BY <1>1, <1>2, <1>3, TopOK DEF Top, Nesting
<1>6. frames' # <<>>
  BY <1>1, <1>2
<1>5. \A i \in 2 .. Len(frames') : frames'[i - 1].at \in Parents(frames'[i].at)
  BY <1>1, <1>2, <1>3 DEF Nesting
<1> QED BY <1>1, <1>2, <1>3, <1>4, <1>5, <1>6 DEF FramesOK, Nesting

LEMMA SameOK ==
  ASSUME FramesOK, Nesting, frames' = frames,
         pc' # "end", frames # <<>>, Top.at \in RunsIn(pc')
  PROVE  FramesOK' /\ Nesting' /\ Top' = Top
BY DEF FramesOK, Nesting, Top

(***************************************************************************)
(* Types are only added to m_user_types; what is resolved stays resolved.  *)
(***************************************************************************)
TypesGrow == \A t \in DOMAIN m_user_types :
               t \in DOMAIN m_user_types' /\ m_user_types'[t] = m_user_types[t]

LEMMA UnchangedTypes ==
  ASSUME TypesOK, TableKept, UNCHANGED types
  PROVE  TypesOK' /\ TableKept' /\ TypesGrow /\ Valid' = Valid
BY DEF types, TypesOK, TableKept, PointerTypesAreUnique, PointerTableOK, TypesGrow, Valid

LEMMA ResolvedGrows ==
  ASSUME TypesGrow, NEW f, Resolved(f)
  PROVE  Resolved(f)'
<1>1. TargetChain(f) => TargetChain(f)'
  BY DEF TypesGrow, TargetChain
<1>2. f.type \in Valid => f.type \in Valid'
  BY DEF TypesGrow, Valid
<1> QED BY <1>1, <1>2 DEF Resolved

LEMMA SameResolved ==
  ASSUME FramesResolved, TypesGrow, frames' = frames
  PROVE  FramesResolved'
BY ResolvedGrows DEF FramesResolved

LEMMA PushResolved ==
  ASSUME FramesOK, FramesResolved, TypesGrow, NEW f, Push(f), Resolved(f)
  PROVE  FramesResolved'
BY ResolvedGrows DEF FramesOK, FramesResolved, Push

LEMMA BecomeResolved ==
  ASSUME FramesOK, FramesResolved, TypesGrow, NEW f, Become(f), Resolved(f)
  PROVE  FramesResolved'
BY ResolvedGrows DEF FramesOK, FramesResolved, Become

LEMMA PopResolved ==
  ASSUME FramesOK, FramesResolved, TypesGrow, frames # <<>>, Pop
  PROVE  FramesResolved'
BY ResolvedGrows DEF FramesOK, FramesResolved, Pop

LEMMA TopResolved ==
  ASSUME FramesOK, FramesResolved, frames # <<>>
  PROVE  Resolved(Top)
BY TopOK DEF FramesResolved

(***************************************************************************)
(* error() and bug() leave everything as it is.                            *)
(***************************************************************************)
LEMMA StopsOK ==
  ASSUME Structure, NEW op \in Op,
         NEW how \in {"parsing", "accepted", "error", "bug", "uncaught"}, StopsAfter(op, how)
  PROVE  Structure'
<1>1. /\ UNCHANGED <<tok, remaining, pc, frames, result, m_user_types, m_first_free_type,
                     m_label_tag, operands, ignored>>
      /\ status' = how /\ emitted' = op
  BY DEF StopsAfter, lexer, types
<1>2. TypeOK'
  BY <1>1 DEF Structure, TypeOK, LexerOK, ControlOK, FramesOK, TypesOK, OutputOK
<1>3. Nesting' /\ TableKept' /\ ResultResolved'
  BY <1>1 DEF Structure, Nesting, TableKept, ResultResolved, Valid, Top, PointerTypesAreUnique
<1>4. FramesResolved'
  BY <1>1, SameResolved DEF Structure, TypesGrow
<1> QED BY <1>2, <1>3, <1>4 DEF Structure

LEMMA NoOpOK == NoOp \in Op
BY DEF NoOp, Op, Calls, Silent, VOID, Type, NoName

-----------------------------------------------------------------------------
(***************************************************************************)
(* A step preserves the structure if the activation it leaves on top may   *)
(* run where the step goes, and knows what it must know there.             *)
(***************************************************************************)

\* The variables that are no activations.
RestOK == LexerOK /\ ControlOK /\ TypesOK /\ TableKept /\ OutputOK /\ ResultResolved

LEMMA StructurePush ==
  ASSUME Structure, frames # <<>>, NEW f \in Frame, Push(f),
         Top.at \in Parents(f.at), pc' # "end", f.at \in RunsIn(pc'), Resolved(f),
         RestOK', TypesGrow
  PROVE  Structure'
BY PushOK, PushResolved DEF Structure, TypeOK, RestOK

LEMMA StructureBecome ==
  ASSUME Structure, frames # <<>>, NEW f \in Frame, Become(f),
         Parents(Top.at) \subseteq Parents(f.at), Top.at # "main",
         pc' # "end", f.at \in RunsIn(pc'), Resolved(f),
         RestOK', TypesGrow
  PROVE  Structure'
BY BecomeOK, BecomeResolved DEF Structure, TypeOK, RestOK

LEMMA StructurePop ==
  ASSUME Structure, frames # <<>>, Pop,
         Top.at # "main", pc' # "end", Parents(Top.at) \subseteq RunsIn(pc'),
         RestOK', TypesGrow
  PROVE  Structure'
BY PopOK, PopResolved DEF Structure, TypeOK, RestOK

LEMMA StructureSame ==
  ASSUME Structure, frames # <<>>, frames' = frames,
         pc' # "end", Top.at \in RunsIn(pc'),
         RestOK', TypesGrow
  PROVE  Structure'
BY SameOK, SameResolved DEF Structure, TypeOK, RestOK

\* A step that reads or keeps the token, makes no call or a well-formed one,
\* and only moves to another control point.
LEMMA RestMoves ==
  ASSUME Structure, NEW p \in ControlPoints \ {"return", "type_done", "walk_target", "deref_target"},
         Goto(p), ReadToken \/ KeepToken,
         Quiet \/ \E op \in Op : Emit(op), m_label_tag' \in Nat, UNCHANGED types
  PROVE  RestOK' /\ TypesGrow /\ pc' = p
<1>1. LexerOK'
  BY ReadTokenOK, KeepTokenOK DEF Structure, TypeOK
<1>2. ControlOK' /\ pc' = p
  BY GotoOK DEF Structure, TypeOK
<1>3. TypesOK' /\ TableKept' /\ TypesGrow
  BY UnchangedTypes DEF Structure, TypeOK
<1>4. OutputOK'
  BY QuietOK, EmitOK DEF Structure, TypeOK
<1>5. ResultResolved'
  BY <1>2 DEF ResultResolved
<1> QED BY <1>1, <1>2, <1>3, <1>4, <1>5 DEF RestOK

\* The same, for a step that returns with a result.
LEMMA RestReturns ==
  ASSUME Structure, NEW p \in {"return", "type_done", "walk_target"},
         NEW r \in [type : Type, name : Names \cup {NoName}], r.type \in Valid,
         Returns(p, r), ReadToken \/ KeepToken,
         Quiet \/ \E op \in Op : Emit(op), m_label_tag' \in Nat, UNCHANGED types
  PROVE  RestOK' /\ TypesGrow /\ pc' = p /\ result' = r
<1>1. LexerOK'
  BY ReadTokenOK, KeepTokenOK DEF Structure, TypeOK
<1>2. ControlOK' /\ pc' = p /\ result' = r
  BY ReturnsOK DEF Structure, TypeOK, ControlPoints
<1>3. TypesOK' /\ TableKept' /\ TypesGrow /\ Valid' = Valid
  BY UnchangedTypes DEF Structure, TypeOK
<1>4. OutputOK'
  BY QuietOK, EmitOK DEF Structure, TypeOK
<1>5. ResultResolved'
  BY <1>2, <1>3 DEF ResultResolved
<1> QED BY <1>1, <1>2, <1>3, <1>4, <1>5 DEF RestOK

LEMMA AtOK ==
  ASSUME Structure, NEW p, NEW at, At(p, at)
  PROVE  frames # <<>> /\ Top.at = at /\ pc = p /\ Top \in Frame /\ Resolved(Top)
BY TopOK, TopResolved DEF Structure, TypeOK, At

LEMMA EntersOK ==
  ASSUME Structure, NEW p, Enters(p), p # "end"
  PROVE  frames # <<>> /\ Top.at \in RunsIn(p) /\ pc = p /\ Top \in Frame /\ Resolved(Top)
BY TopOK, TopResolved DEF Structure, TypeOK, Enters, Nesting

-----------------------------------------------------------------------------
(***************************************************************************)
(* Expressions preserve the structure.                                     *)
(***************************************************************************)

\* The control points of expressions, and the activations that return values.
ValuePoints == {"expression", "simple_expression", "term", "factor", "dereferencable",
                "reference", "return"}
ValueFrames == {"paren", "not", "cast", "cast_to", "factor", "term", "term_rhs", "simple",
                "simple_rhs", "expr", "expr_rhs", "identifier", "call"}

LEMMA ValueTables ==
  /\ \A p \in ValuePoints : RunsIn(p) = AwaitsValue /\ p \in ControlPoints
  /\ \A a \in ValueFrames : Parents(a) = AwaitsValue /\ a \in Waiting
BY DEF ValuePoints, ValueFrames, RunsIn, Parents, ControlPoints, Waiting, Holding

\* A new activation knows nothing yet.
LEMMA NothingToResolve ==
  ASSUME NEW f,
         f.at \notin Holding \cup InACall \cup {"assign", "deref", "assign_ptr", "store_ptr"},
         f.at \notin {"statement_name", "target"}
  PROVE  Resolved(f)
BY DEF Resolved, Holding, InACall

LEMMA DescendOK ==
  ASSUME Structure,
         NEW from \in ValuePoints \ {"return"}, NEW at \in {"expr", "simple", "term", "factor"},
         NEW to \in ValuePoints \ {"return"},
         Descend(from, at, to)
  PROVE  Structure'
<1>1. /\ Enters(from) /\ Push(Activation(at)) /\ Goto(to) /\ KeepToken /\ Quiet
      /\ UNCHANGED types /\ m_label_tag' = m_label_tag
  BY DEF Descend
<1>2. frames # <<>> /\ Top.at \in AwaitsValue
  BY <1>1, EntersOK, ValueTables DEF ValuePoints
<1>3. RestOK' /\ TypesGrow /\ pc' = to
  BY <1>1, RestMoves DEF ValuePoints, ControlPoints, Structure, TypeOK, OutputOK
<1>4. Activation(at) \in Frame /\ Activation(at).at = at
  BY ActivationOK, ValueTables DEF Structure, TypeOK, ValueFrames
<1>5. Parents(at) = AwaitsValue /\ RunsIn(pc') = AwaitsValue /\ at \in AwaitsValue /\ pc' # "end"
  BY <1>3, ValueTables DEF AwaitsValue, ValueFrames, ValuePoints
<1>6. Resolved(Activation(at))
  BY <1>4, NothingToResolve DEF Holding, InACall
<1> QED BY <1>1, <1>2, <1>3, <1>4, <1>5, <1>6, StructurePush

LEMMA ParseNestedOK ==
  ASSUME Structure, ParseNested
  PROVE  Structure'
<1>1. Enters("dereferencable") /\ ReadToken /\ Quiet /\ UNCHANGED types /\ m_label_tag' = m_label_tag
  BY DEF ParseNested
<1>2. frames # <<>> /\ Top.at \in AwaitsValue
  BY <1>1, EntersOK, ValueTables DEF ValuePoints
<1>3. ASSUME NEW p \in (ValuePoints \ {"return"}) \cup {"factor_identifier"}, Goto(p)
      PROVE  RestOK' /\ TypesGrow /\ pc' = p
  BY <1>1, <1>3, RestMoves DEF ValuePoints, ControlPoints, Structure, TypeOK, OutputOK
<1>4. ASSUME NEW at \in {"paren", "not", "cast", "identifier"}
      PROVE  Activation(at) \in Frame /\ Activation(at).at = at /\ Resolved(Activation(at))
  BY ActivationOK, ValueTables, NothingToResolve
     DEF Structure, TypeOK, ValueFrames, Holding, InACall
<1>5. ASSUME NEW at \in {"paren", "not", "cast"}, NEW p \in {"expression", "factor"},
             Push(Activation(at)), Goto(p)
      PROVE  Structure'
  BY <1>2, <1>3, <1>4, <1>5, ValueTables, StructurePush
     DEF AwaitsValue, ValueFrames, ValuePoints
<1>6. CASE tok = "AT" /\ UNCHANGED frames /\ Goto("reference")
  BY <1>2, <1>3, <1>6, ValueTables, StructureSame DEF ValuePoints
<1>7. CASE /\ IsId(tok) /\ Push([Activation("identifier") EXCEPT !.name = tok])
           /\ Goto("factor_identifier")
  <2> DEFINE f == [Activation("identifier") EXCEPT !.name = tok]
  <2>1. f \in Frame /\ f.at = "identifier"
    BY <1>4, <1>7 DEF Frame, IsId
  <2>2. Resolved(f)
    BY <2>1, NothingToResolve DEF Holding, InACall
  <2>3. Parents("identifier") = AwaitsValue /\ RunsIn("factor_identifier") = {"identifier"}
    BY ValueTables DEF ValueFrames, RunsIn
  <2>4. Push(f) /\ RestOK' /\ TypesGrow /\ pc' = "factor_identifier"
    BY <1>3, <1>7
  <2> HIDE DEF f
  <2> QED BY <1>2, <2>1, <2>2, <2>3, <2>4, StructurePush
<1> QED BY <1>5, <1>6, <1>7 DEF ParseNested

LEMMA OpsOK ==
  ASSUME NEW call \in Calls, NEW t \in Type
  PROVE  /\ OpOf(call, t) \in Op
         /\ \A d \in Type : OpTo(call, t, d) \in Op
         /\ \A x \in Names \cup {NoName} : OpNamed(call, t, x) \in Op
         /\ \A n \in Nat : OpTag(call, n) \in Op /\ [OpOf(call, t) EXCEPT !.n = n] \in Op
         /\ \A n \in Nat, x \in Names \cup {NoName} : [OpNamed(call, t, x) EXCEPT !.n = n] \in Op
BY NoOpOK DEF OpOf, OpTo, OpNamed, OpTag, Op

LEMMA StopOK ==
  ASSUME Structure, NEW how \in {"parsing", "accepted", "error", "bug", "uncaught"}, Stops(how)
  PROVE  Structure'
BY StopsOK, NoOpOK DEF Stops

\* The types of values, and where the parser takes them from.
LEMMA ValidTypes ==
  ASSUME Structure
  PROVE  /\ Valid \subseteq Type
         /\ Concrete \subseteq Valid
         /\ KnownTypes \subseteq Valid
         /\ \A x \in DOMAIN VarType : VarType[x] \in Valid
         /\ \A x \in DOMAIN Typedefs : Typedefs[x] \in Valid
         /\ \A x \in DOMAIN FunReturn : FunReturn[x] \in Valid \cup {VOID}
         /\ \A t \in DOMAIN m_user_types : m_user_types[t] \in Valid
<1>1. Concrete \subseteq Type
  BY DEF Concrete, Arithmetic, Integral, Floating, UNSIGNED_INT, DOUBLE, BOOL, CHAR, Type
<1>2. DOMAIN m_user_types \subseteq Type
  BY DEF Structure, TableKept, PointerTypesAreUnique, PointerTableOK, FIRST_USER_DEFINED, Type
<1>3. KnownTypes \subseteq Valid
  BY DEF Structure, TableKept, KnownTypes, Valid
<1>4. \A t \in DOMAIN m_user_types : m_user_types[t] \in Valid
  BY DEF Structure, TableKept, PointerTypesAreUnique, PointerTableOK, Valid
<1> QED BY <1>1, <1>2, <1>3, <1>4, DeclarationsAssumption DEF DeclarationsAssumption, Valid

LEMMA ReturnPop ==
  ASSUME Structure, frames # <<>>, Top.at \in ValueFrames,
         Pop, RestOK', TypesGrow, pc' = "return"
  PROVE  Structure'
BY ValueTables, StructurePop DEF ValueFrames, ValuePoints

LEMMA RestYields ==
  ASSUME Structure, NEW t \in Valid, Yields(t), ReadToken \/ KeepToken,
         Quiet \/ \E op \in Op : Emit(op), m_label_tag' \in Nat, UNCHANGED types
  PROVE  RestOK' /\ TypesGrow /\ pc' = "return"
<1>1. [type |-> t, name |-> NoName] \in [type : Type, name : Names \cup {NoName}]
  BY ValidTypes
<1> QED BY <1>1, RestReturns DEF Yields

LEMMA ParseLiteralOK ==
  ASSUME Structure, ParseLiteral
  PROVE  Structure'
<1>1. Enters("dereferencable") /\ tok \in DOMAIN Literal
  BY DEF ParseLiteral
<1>2. Literal[tok] \in Concrete
  BY <1>1 DEF Literal, Concrete, Arithmetic, Integral, Floating
<1>3. OpOf("load_i64", Literal[tok]) \in Op
  BY <1>2, OpsOK, ValidTypes DEF Calls, Loads
<1>4. ASSUME Emit(OpOf("load_i64", Literal[tok])), Yields(Literal[tok]), ReadToken,
             UNCHANGED types, m_label_tag' = m_label_tag, frames' = frames
      PROVE  Structure'
  <2>1. RestOK' /\ TypesGrow /\ pc' = "return"
    BY <1>2, <1>3, <1>4, RestYields, ValidTypes DEF Structure, TypeOK, OutputOK
  <2> QED BY <1>1, <1>4, <2>1, EntersOK, StructureSame, ValueTables DEF ValuePoints
<1> QED BY <1>4, StopOK DEF ParseLiteral

LEMMA CloseParenthesisOK ==
  ASSUME Structure, CloseParenthesis
  PROVE  Structure'
<1>1. At("return", "paren")
  BY DEF CloseParenthesis
<1>2. ASSUME Pop, Returns("return", result), ReadToken, Quiet, UNCHANGED types,
             m_label_tag' = m_label_tag
      PROVE  Structure'
  <2>1. RestOK' /\ TypesGrow /\ pc' = "return"
    BY <1>1, <1>2, AtOK, RestReturns DEF Structure, TypeOK, OutputOK, ControlOK, ResultResolved
  <2> QED BY <1>1, <1>2, <2>1, AtOK, ReturnPop DEF ValueFrames
<1> QED BY <1>2, StopOK DEF CloseParenthesis, Checked

LEMMA NotOperandOK ==
  ASSUME Structure, NotOperand
  PROVE  Structure'
<1>1. At("return", "not")
  BY DEF NotOperand
<1>2. ASSUME Emit(OpOf("alu_not_bool", BOOL)), Pop, Yields(BOOL), KeepToken,
             UNCHANGED types, m_label_tag' = m_label_tag
      PROVE  Structure'
  <2>1. BOOL \in Concrete
    BY DEF Concrete
  <2>2. OpOf("alu_not_bool", BOOL) \in Op
    BY <2>1, OpsOK, ValidTypes DEF Calls
  <2>3. RestOK' /\ TypesGrow /\ pc' = "return"
    BY <1>2, <2>1, <2>2, RestYields, ValidTypes DEF Structure, TypeOK, OutputOK
  <2> QED BY <1>1, <1>2, <2>3, AtOK, ReturnPop DEF ValueFrames
<1> QED BY <1>2, StopOK DEF NotOperand, Checked

LEMMA VariableUsageOK ==
  ASSUME Structure, VariableUsage
  PROVE  Structure'
<1>1. At("factor_identifier", "identifier")
  BY DEF VariableUsage
<1>2. ASSUME Top.name \in DOMAIN VarType,
             Emit(OpNamed("load_variable", VarType[Top.name], Top.name)),
             Pop, Yields(VarType[Top.name]), KeepToken, UNCHANGED types,
             m_label_tag' = m_label_tag
      PROVE  Structure'
  <2>1. VarType[Top.name] \in Valid
    BY <1>2, ValidTypes
  <2>2. OpNamed("load_variable", VarType[Top.name], Top.name) \in Op
    BY <1>1, <2>1, AtOK, OpsOK, ValidTypes, NoOpOK DEF Calls, Loads, Frame, OpNamed, Op
  <2>3. RestOK' /\ TypesGrow /\ pc' = "return"
    BY <1>2, <2>1, <2>2, RestYields DEF Structure, TypeOK, OutputOK
  <2> QED BY <1>1, <1>2, <2>3, AtOK, ReturnPop DEF ValueFrames
<1> QED BY <1>2, StopOK DEF VariableUsage, Checked

LEMMA DereferenceOK ==
  ASSUME Structure, Dereference
  PROVE  Structure'
<1>1. At("return", "factor")
  BY DEF Dereference
<1>2. ASSUME NEW target, target = m_user_types[result.type],
             result.type \in DOMAIN m_user_types,
             Emit(OpTo("load_value_from_pointer", result.type, target)),
             Yields(target), ReadToken, frames' = frames, UNCHANGED types,
             m_label_tag' = m_label_tag
      PROVE  Structure'
  <2>1. target \in Valid /\ result.type \in Valid
    BY <1>2, ValidTypes DEF Valid
  <2>2. OpTo("load_value_from_pointer", result.type, target) \in Op
    BY <2>1, OpsOK, ValidTypes DEF Calls
  <2>3. RestOK' /\ TypesGrow /\ pc' = "return"
    BY <1>2, <2>1, <2>2, RestYields DEF Structure, TypeOK, OutputOK
  <2>4. Top.at \in RunsIn("return") /\ frames # <<>>
    BY <1>1, AtOK, ValueTables DEF ValuePoints, AwaitsValue
  <2> QED BY <1>2, <2>3, <2>4, StructureSame
<1> QED BY <1>2, StopOK DEF Dereference, Checked

LEMMA LoopEndsOK ==
  ASSUME Structure, NEW at \in {"factor", "term", "simple", "expr"}, NEW operators,
         LoopEnds(at, operators)
  PROVE  Structure'
<1>1. /\ At("return", at) /\ Pop /\ Returns("return", result) /\ KeepToken /\ Quiet
      /\ UNCHANGED types /\ m_label_tag' = m_label_tag
  BY DEF LoopEnds
<1>2. RestOK' /\ TypesGrow /\ pc' = "return"
  BY <1>1, AtOK, RestReturns DEF Structure, TypeOK, OutputOK, ControlOK, ResultResolved
<1> QED BY <1>1, <1>2, AtOK, ReturnPop DEF ValueFrames

LEMMA OperatorOK ==
  ASSUME Structure, NEW operators,
         NEW at \in {"term", "simple", "expr"}, NEW rhs, NEW operand,
         \/ rhs = "term_rhs" /\ operators = DOMAIN MulopCall /\ operand = "factor"
         \/ rhs = "simple_rhs" /\ operators = DOMAIN AddopCall /\ operand = "term"
         \/ rhs = "expr_rhs" /\ operators = DOMAIN RelopCall /\ operand = "simple_expression",
         Operator(at, operators, rhs, operand)
  PROVE  Structure'
<1> DEFINE f == [Top EXCEPT !.at = rhs, !.type = result.type, !.op = tok]
<1>1. /\ At("return", at) /\ tok \in operators /\ Become(f) /\ Goto(operand)
      /\ ReadToken /\ Quiet /\ UNCHANGED types /\ m_label_tag' = m_label_tag
  BY DEF Operator
<1>2. frames # <<>> /\ Top.at = at /\ Top \in Frame /\ result.type \in Valid
  BY <1>1, AtOK DEF Structure, ResultResolved
<1>3. f \in Frame /\ f.at = rhs /\ f.type = result.type /\ f.op = tok
  BY <1>1, <1>2, ValidTypes DEF Frame, Waiting, Holding
<1>4. Resolved(f)
  BY <1>1, <1>2, <1>3 DEF Resolved, Holding, InACall
<1>5. RestOK' /\ TypesGrow /\ pc' = operand
  BY <1>1, RestMoves DEF ControlPoints, Structure, TypeOK, OutputOK
<1>6. /\ Parents(at) = AwaitsValue /\ Parents(rhs) = AwaitsValue
      /\ RunsIn(operand) = AwaitsValue /\ rhs \in AwaitsValue
      /\ at # "main" /\ operand # "end"
  BY ValueTables DEF ValueFrames, ValuePoints, AwaitsValue
<1> HIDE DEF f
<1> QED BY <1>1, <1>2, <1>3, <1>4, <1>5, <1>6, StructureBecome

LEMMA CombineOK ==
  ASSUME Structure, NEW rhs, NEW at, NEW call,
         \/ rhs = "term_rhs" /\ at = "term" /\ call = MulopCall
         \/ rhs = "simple_rhs" /\ at = "simple" /\ call = AddopCall,
         Combine(rhs, at, call)
  PROVE  Structure'
<1> DEFINE f == [Top EXCEPT !.at = at, !.type = VOID, !.op = NoOperator]
           op == OpOf(call[Top.op], Top.type)
<1>1. At("return", rhs)
  BY DEF Combine
<1>2. frames # <<>> /\ Top.at = rhs /\ Top \in Frame /\ Resolved(Top) /\ Top.type \in Valid
  BY <1>1, AtOK DEF Resolved, Holding
<1>3. ASSUME Emit(op), Become(f), Yields(Top.type), KeepToken, UNCHANGED types,
             m_label_tag' = m_label_tag
      PROVE  Structure'
  <2>1. f \in Frame /\ f.at = at
    BY <1>2 DEF Frame, Waiting, Holding, VOID, Type
  <2>2. Resolved(f)
    BY <2>1, NothingToResolve DEF Holding, InACall
  <2>3. call[Top.op] \in Calls
    BY <1>2 DEF Resolved, MulopCall, AddopCall, Calls, Binops
  <2>4. op \in Op
    BY <1>2, <2>3, OpsOK, ValidTypes
  <2>5. RestOK' /\ TypesGrow /\ pc' = "return"
    BY <1>2, <1>3, <2>4, RestYields DEF Structure, TypeOK, OutputOK
  <2>6. /\ Parents(at) = AwaitsValue /\ Parents(rhs) = AwaitsValue
        /\ RunsIn("return") = AwaitsValue /\ at \in AwaitsValue /\ rhs # "main"
    BY ValueTables DEF ValueFrames, ValuePoints, AwaitsValue
  <2> HIDE DEF f, op
  <2> QED BY <1>2, <1>3, <2>1, <2>2, <2>5, <2>6, StructureBecome
<1> QED BY <1>3, StopOK DEF Combine, Checked

LEMMA CompareOK ==
  ASSUME Structure, Compare
  PROVE  Structure'
<1> DEFINE op == [OpOf(RelopCall[Top.op], Top.type) EXCEPT !.n = m_label_tag']
<1>1. At("return", "expr_rhs")
  BY DEF Compare
<1>2. frames # <<>> /\ Top.at = "expr_rhs" /\ Top \in Frame /\ Resolved(Top) /\ Top.type \in Valid
  BY <1>1, AtOK DEF Resolved, Holding
<1>3. ASSUME m_label_tag' = m_label_tag + 1, Emit(op), Pop, Yields(BOOL), KeepToken,
             UNCHANGED types
      PROVE  Structure'
  <2>1. m_label_tag' \in Nat
    BY <1>3 DEF Structure, TypeOK, OutputOK
  <2>2. RelopCall[Top.op] \in Calls
    BY <1>2 DEF Resolved, RelopCall, Calls, Compares
  <2>3. op \in Op
    BY <1>2, <2>1, <2>2, OpsOK, ValidTypes
  <2>4. RestOK' /\ TypesGrow /\ pc' = "return"
    <3>1. BOOL \in Valid
      BY ValidTypes DEF Concrete
    <3> HIDE DEF op
    <3> QED BY <1>3, <2>1, <2>3, <3>1, RestYields
  <2> QED BY <1>2, <1>3, <2>4, ReturnPop DEF ValueFrames
<1> QED BY <1>3, StopOK DEF Compare, Checked

LEMMA CastToOK ==
  ASSUME Structure, CastTo
  PROVE  Structure'
<1> DEFINE f == [Top EXCEPT !.at = "cast_to", !.type = result.type]
<1>1. At("return", "cast")
  BY DEF CastTo
<1>2. frames # <<>> /\ Top.at = "cast" /\ Top \in Frame /\ result.type \in Valid
  BY <1>1, AtOK DEF Structure, ResultResolved
<1>3. ASSUME Become(f), Goto("type"), ReadToken, Quiet, UNCHANGED types,
             m_label_tag' = m_label_tag
      PROVE  Structure'
  <2>1. f \in Frame /\ f.at = "cast_to" /\ f.type = result.type
    BY <1>2, ValidTypes DEF Frame, Waiting, Holding
  <2>2. Resolved(f)
    BY <1>2, <2>1 DEF Resolved, Holding, InACall
  <2>3. RestOK' /\ TypesGrow /\ pc' = "type"
    BY <1>3, RestMoves DEF ControlPoints, Structure, TypeOK, OutputOK
  <2>4. /\ Parents("cast") = AwaitsValue /\ Parents("cast_to") = AwaitsValue
        /\ RunsIn("type") = AwaitsType /\ "cast_to" \in AwaitsType
    BY ValueTables DEF ValueFrames, RunsIn, AwaitsType
  <2> HIDE DEF f
  <2> QED BY <1>2, <1>3, <2>1, <2>2, <2>3, <2>4, StructureBecome
<1> QED BY <1>3, StopOK DEF CastTo, Checked

-----------------------------------------------------------------------------
(***************************************************************************)
(* Types preserve the structure: parse_type, CONVERT and '@'.              *)
(***************************************************************************)

LEMMA ParseNamedTypeOK ==
  ASSUME Structure, ParseNamedType
  PROVE  Structure'
<1>1. /\ Enters("type") /\ ReadToken /\ Quiet /\ UNCHANGED types
      /\ frames' = frames /\ m_label_tag' = m_label_tag
  BY DEF ParseNamedType
<1>2. PICK t \in Valid : Returns("type_done", [type |-> t, name |-> NoName])
  <2>1. \A k \in DOMAIN TypeToken : TypeToken[k] \in Concrete
    BY DEF TypeToken, Concrete, Arithmetic, Integral, Floating
  <2> QED BY <2>1, ValidTypes DEF ParseNamedType
<1>3. RestOK' /\ TypesGrow /\ pc' = "type_done"
  <2>1. [type |-> t, name |-> NoName] \in [type : Type, name : Names \cup {NoName}]
    BY ValidTypes
  <2> QED BY <1>1, <1>2, <2>1, RestReturns DEF Structure, TypeOK, OutputOK
<1>4. frames # <<>> /\ Top.at \in RunsIn("type_done")
  BY <1>1, EntersOK DEF RunsIn
<1> QED BY <1>1, <1>3, <1>4, StructureSame

LEMMA ParsePointerTypeOK ==
  ASSUME Structure, ParsePointerType
  PROVE  Structure'
<1>1. /\ Enters("type") /\ Push(Activation("pointer_type")) /\ Goto("type")
      /\ ReadToken /\ Quiet /\ UNCHANGED types /\ m_label_tag' = m_label_tag
  BY DEF ParsePointerType
<1>2. frames # <<>> /\ Top.at \in AwaitsType
  BY <1>1, EntersOK DEF RunsIn
<1>3. /\ Activation("pointer_type") \in Frame
      /\ Activation("pointer_type").at = "pointer_type"
      /\ Resolved(Activation("pointer_type"))
  BY ActivationOK, NothingToResolve DEF Structure, TypeOK, Waiting, Holding, InACall
<1>4. RestOK' /\ TypesGrow /\ pc' = "type"
  BY <1>1, RestMoves DEF ControlPoints, Structure, TypeOK, OutputOK
<1>5. /\ Parents("pointer_type") = AwaitsType /\ RunsIn("type") = AwaitsType
      /\ "pointer_type" \in AwaitsType
  BY DEF Parents, RunsIn, AwaitsType
<1> QED BY <1>1, <1>2, <1>3, <1>4, <1>5, StructurePush

\* A pointer type is created, for ^ in a type or for @ before a variable.
LEMMA CreateTypeOK ==
  ASSUME Structure, NEW target \in Valid,
         m_user_types' = TableWith(m_user_types, m_first_free_type, target),
         m_first_free_type' = FreeAfter(m_user_types, m_first_free_type, target)
  PROVE  /\ TypesOK' /\ TableKept' /\ TypesGrow
         /\ PointerTo(m_user_types, m_first_free_type, target) \in DOMAIN m_user_types'
         /\ PointerTo(m_user_types, m_first_free_type, target) \in Type
<1> DEFINE id == PointerTo(m_user_types, m_first_free_type, target)
<1>1. /\ PointerTableOK(m_user_types', m_first_free_type')
      /\ id \in DOMAIN m_user_types'
      /\ DOMAIN m_user_types \subseteq DOMAIN m_user_types'
      /\ \A t \in DOMAIN m_user_types : m_user_types'[t] = m_user_types[t]
  BY CreateType DEF Structure, TableKept, PointerTypesAreUnique, Valid
<1>2. TypesGrow
  BY <1>1 DEF TypesGrow
<1>3. TableKept'
  BY <1>1 DEF Structure, TableKept, PointerTypesAreUnique
<1>4. DOMAIN m_user_types' \subseteq Type
  BY <1>1 DEF PointerTableOK, FIRST_USER_DEFINED, Type
<1>5. \A t \in DOMAIN m_user_types' : m_user_types'[t] \in Type
  BY <1>1, <1>4, ValidTypes DEF PointerTableOK
<1>6. m_user_types' = [t \in DOMAIN m_user_types' |-> m_user_types'[t]]
  BY DEF TableWith, Structure, TypeOK, TypesOK
<1>7. TypesOK'
  BY <1>1, <1>5, <1>6 DEF TypesOK, PointerTableOK
<1> QED BY <1>1, <1>2, <1>3, <1>4, <1>7

LEMMA PointerTypeDoneOK ==
  ASSUME Structure, PointerTypeDone
  PROVE  Structure'
<1> DEFINE id == PointerTo(m_user_types, m_first_free_type, result.type)
<1>1. /\ At("type_done", "pointer_type") /\ Pop /\ KeepToken /\ Quiet
      /\ Returns("type_done", [type |-> id, name |-> NoName])
      /\ m_user_types' = TableWith(m_user_types, m_first_free_type, result.type)
      /\ m_first_free_type' = FreeAfter(m_user_types, m_first_free_type, result.type)
      /\ m_label_tag' = m_label_tag
  BY DEF PointerTypeDone
<1>2. frames # <<>> /\ Top.at = "pointer_type" /\ result.type \in Valid
  BY <1>1, AtOK DEF Structure, ResultResolved
<1>3. TypesOK' /\ TableKept' /\ TypesGrow /\ id \in DOMAIN m_user_types' /\ id \in Type
  BY <1>1, <1>2, CreateTypeOK
<1> HIDE DEF id
<1>4. [type |-> id, name |-> NoName] \in [type : Type, name : Names \cup {NoName}]
  BY <1>3
<1>5. ControlOK' /\ pc' = "type_done" /\ result'.type = id
  BY <1>1, <1>4, ReturnsOK DEF Structure, TypeOK, ControlPoints
<1>6. LexerOK' /\ OutputOK' /\ ResultResolved'
  BY <1>1, <1>3, <1>5, KeepTokenOK, QuietOK
     DEF Structure, TypeOK, OutputOK, ResultResolved, Valid
<1>7. Parents("pointer_type") = AwaitsType /\ RunsIn("type_done") = AwaitsType
  BY DEF Parents, RunsIn
<1> QED BY <1>1, <1>2, <1>3, <1>5, <1>6, <1>7, StructurePop DEF RestOK

LEMMA VariableReferenceOK ==
  ASSUME Structure, VariableReference
  PROVE  Structure'
<1> DEFINE target == VarType[tok]
           id == PointerTo(m_user_types, m_first_free_type, target)
<1>1. frames # <<>> /\ Top.at \in RunsIn("return") /\ pc = "reference"
  BY EntersOK, ValueTables DEF VariableReference, ValuePoints
<1>2. ASSUME IsId(tok), tok \in DOMAIN VarType,
             m_user_types' = TableWith(m_user_types, m_first_free_type, target),
             m_first_free_type' = FreeAfter(m_user_types, m_first_free_type, target),
             Emit(OpNamed("load_pointer_to_variable", id, tok)),
             Yields(id), ReadToken, frames' = frames, m_label_tag' = m_label_tag
      PROVE  Structure'
  <2>1. TypesOK' /\ TableKept' /\ TypesGrow /\ id \in DOMAIN m_user_types' /\ id \in Type
    BY <1>2, ValidTypes, CreateTypeOK
  <2> HIDE DEF id
  <2>2. OpNamed("load_pointer_to_variable", id, tok) \in Op
    BY <1>2, <2>1, OpsOK DEF Calls, Loads, IsId
  <2>3. ControlOK' /\ pc' = "return" /\ result'.type = id
    BY <1>2, <2>1, YieldsOK DEF Structure, TypeOK
  <2>4. LexerOK' /\ OutputOK' /\ ResultResolved'
    BY <1>2, <2>1, <2>2, <2>3, ReadTokenOK, EmitOK
       DEF Structure, TypeOK, OutputOK, ResultResolved, Valid
  <2> QED BY <1>1, <1>2, <2>1, <2>3, <2>4, StructureSame DEF RestOK
<1> QED BY <1>2, StopOK DEF VariableReference, Checked

LEMMA ConvertOK ==
  ASSUME Structure, Convert
  PROVE  Structure'
<1> DEFINE op == OpTo("convert", Top.type, result.type)
<1>1. At("type_done", "cast_to")
  BY DEF Convert
<1>2. /\ frames # <<>> /\ Top.at = "cast_to" /\ Top.type \in Valid /\ result.type \in Valid
  BY <1>1, AtOK DEF Structure, ResultResolved, Resolved, Holding
<1>3. ASSUME Emit(op), Pop, Yields(result.type), KeepToken, UNCHANGED types,
             m_label_tag' = m_label_tag
      PROVE  Structure'
  <2>1. op \in Op
    BY <1>2, OpsOK, ValidTypes DEF Calls
  <2> HIDE DEF op
  <2>2. RestOK' /\ TypesGrow /\ pc' = "return"
    BY <1>2, <1>3, <2>1, RestYields DEF Structure, TypeOK, OutputOK
  <2> QED BY <1>2, <1>3, <2>2, ReturnPop DEF ValueFrames
<1> QED BY <1>3, StopOK DEF Convert, Checked

LEMMA ExpressionStepOK ==
  ASSUME Structure, ExpressionStep
  PROVE  Structure'
<1>1. CASE ParseExpression
  BY <1>1, DescendOK DEF ParseExpression, ValuePoints
<1>2. CASE ParseSimpleExpression
  BY <1>2, DescendOK DEF ParseSimpleExpression, ValuePoints
<1>3. CASE ParseTerm
  BY <1>3, DescendOK DEF ParseTerm, ValuePoints
<1>4. CASE ParseFactor
  BY <1>4, DescendOK DEF ParseFactor, ValuePoints
<1>5. CASE EndFactor \/ EndTerm \/ EndSimpleExpression \/ EndExpression
  BY <1>5, LoopEndsOK DEF EndFactor, EndTerm, EndSimpleExpression, EndExpression
<1>6. CASE Mulop
  BY <1>6, OperatorOK DEF Mulop
<1>7. CASE Addop
  BY <1>7, OperatorOK DEF Addop
<1>8. CASE Relop
  BY <1>8, OperatorOK DEF Relop
<1>9. CASE CombineTerm \/ CombineSimple
  BY <1>9, CombineOK DEF CombineTerm, CombineSimple
<1>10. CASE ExpectedExpression \/ ExpectedType
  BY <1>10, StopOK DEF ExpectedExpression, ExpectedType
<1> QED
  BY <1>1, <1>2, <1>3, <1>4, <1>5, <1>6, <1>7, <1>8, <1>9, <1>10,
     ParseNestedOK, ParseLiteralOK, CloseParenthesisOK, NotOperandOK, VariableReferenceOK,
     VariableUsageOK, DereferenceOK, CompareOK, CastToOK, ParseNamedTypeOK,
     ParsePointerTypeOK, PointerTypeDoneOK, ConvertOK
  DEF ExpressionStep

-----------------------------------------------------------------------------
(***************************************************************************)
(* Calls preserve the structure.                                           *)
(***************************************************************************)

LEMMA CallTables ==
  /\ \A p \in {"call_args", "call_arg", "call_finish"} :
       RunsIn(p) = InACall /\ p \in ControlPoints
  /\ InACall \subseteq Waiting /\ InACall \subseteq AwaitsValue
  /\ Parents("identifier") = AwaitsValue /\ Parents("call") = AwaitsValue
  /\ Parents("statement_name") = Enclosing /\ Parents("call_statement") = Enclosing
BY DEF RunsIn, ControlPoints, InACall, Waiting, AwaitsValue, Parents

LEMMA BeginCallOK ==
  ASSUME Structure, NEW p, NEW from, NEW at,
         \/ from = "identifier" /\ at = "call"
         \/ from = "statement_name" /\ at = "call_statement",
         BeginCall(p, from, at)
  PROVE  Structure'
<1> DEFINE f == [Top EXCEPT !.at = at]
<1>1. At(p, from)
  BY DEF BeginCall
<1>2. frames # <<>> /\ Top.at = from /\ Top \in Frame
  BY <1>1, AtOK
<1>3. ASSUME Top.name \in DOMAIN FunReturn, at = "call" => FunReturn[Top.name] # VOID,
             Become(f), Goto("call_args"), ReadToken, Quiet, UNCHANGED types,
             m_label_tag' = m_label_tag
      PROVE  Structure'
  <2>1. f \in Frame /\ f.at = at /\ f.name = Top.name
    BY <1>2, CallTables DEF Frame, InACall
  <2>2. Resolved(f)
    BY <1>3, <2>1 DEF Resolved, Holding, InACall
  <2>3. RestOK' /\ TypesGrow /\ pc' = "call_args"
    BY <1>3, RestMoves DEF ControlPoints, Structure, TypeOK, OutputOK
  <2>4. Parents(from) = Parents(at) /\ at \in RunsIn("call_args") /\ from # "main"
    BY CallTables DEF InACall
  <2> HIDE DEF f
  <2> QED BY <1>2, <1>3, <2>1, <2>2, <2>3, <2>4, StructureBecome
<1> QED BY <1>3, StopOK DEF BeginCall, Checked

LEMMA CallArgsOK ==
  ASSUME Structure, CallArgs
  PROVE  Structure'
<1>1. frames # <<>> /\ Top.at \in InACall
  BY DEF CallArgs, InCall, InACall
<1>2. PICK p \in {"call_arg", "call_finish"} : Goto(p)
  BY DEF CallArgs
<1>3. RestOK' /\ TypesGrow /\ pc' = p /\ frames' = frames
  BY <1>2, RestMoves DEF CallArgs, ControlPoints, Structure, TypeOK, OutputOK
<1> QED BY <1>1, <1>3, CallTables, StructureSame

LEMMA CallArgOK ==
  ASSUME Structure, CallArg
  PROVE  Structure'
<1>1. frames # <<>> /\ Top.at \in InACall
  BY DEF CallArg, InCall, InACall
<1>2. ASSUME Goto("expression"), KeepToken, Quiet, UNCHANGED <<frames, types, m_label_tag>>
      PROVE  Structure'
  <2>1. RestOK' /\ TypesGrow /\ pc' = "expression" /\ frames' = frames
    BY <1>2, RestMoves DEF ControlPoints, Structure, TypeOK, OutputOK
  <2> QED BY <1>1, <2>1, CallTables, ValueTables, StructureSame DEF ValuePoints
<1> QED BY <1>2, StopOK DEF CallArg, Checked

LEMMA CountedOK ==
  ASSUME NEW f \in Frame, NEW n \in Nat, NEW r \in Nat, NEW x \in Nat
  PROVE  [f EXCEPT !.n = n, !.regs = r, !.xmms = x] \in Frame
BY DEF Frame

LEMMA CallParamOK ==
  ASSUME Structure, CallParam
  PROVE  Structure'
<1> DEFINE regular == IsRegular(result.type)
           op == [OpOf("function_call_param", result.type)
                    EXCEPT !.n = IF regular THEN Top.regs ELSE Top.xmms]
           f  == [Top EXCEPT !.n = @ + 1,
                    !.regs = IF regular THEN @ + 1 ELSE @,
                    !.xmms = IF regular THEN @ ELSE @ + 1]
<1>1. Enters("return") /\ frames # <<>> /\ Top.at \in InACall
  BY DEF CallParam, InCall, InACall
<1>2. Top \in Frame /\ Resolved(Top) /\ result.type \in Valid
  BY <1>1, EntersOK DEF Structure, ResultResolved
<1>3. ASSUME Emit(op), Become(f), UNCHANGED <<types, m_label_tag>>,
             NEW p \in {"call_arg", "call_finish"}, Goto(p), ReadToken \/ KeepToken
      PROVE  Structure'
  <2>1. op \in Op
    BY <1>2, OpsOK, ValidTypes DEF Calls, Pops, Frame
  <2>2. f \in Frame /\ f.at = Top.at /\ f.name = Top.name
    <3>1. PICK n \in Nat : n = Top.n + 1
      BY <1>2 DEF Frame
    <3>2. PICK r \in Nat : r = IF regular THEN Top.regs + 1 ELSE Top.regs
      BY <1>2 DEF Frame
    <3>3. PICK x \in Nat : x = IF regular THEN Top.xmms ELSE Top.xmms + 1
      BY <1>2 DEF Frame
    <3>4. f = [Top EXCEPT !.n = n, !.regs = r, !.xmms = x]
      BY <3>1, <3>2, <3>3
    <3>5. Top \in Frame
      BY <1>2
    <3>6. [Top EXCEPT !.n = n, !.regs = r, !.xmms = x] \in Frame
      BY <3>5, CountedOK
    <3>7. f.at = Top.at /\ f.name = Top.name
      BY <3>5 DEF Frame
    <3> HIDE DEF f
    <3> QED BY <3>4, <3>6, <3>7
  <2>3. Resolved(f)
    <3> HIDE DEF f
    <3> QED BY <1>1, <1>2, <2>2 DEF Resolved, Holding, InACall
  <2> HIDE DEF f, op
  <2>4. RestOK' /\ TypesGrow /\ pc' = p
    BY <1>3, <2>1, RestMoves DEF ControlPoints, Structure, TypeOK, OutputOK
  <2>5. Parents(Top.at) = Parents(f.at) /\ f.at \in RunsIn(p) /\ Top.at # "main" /\ p # "end"
    BY <1>1, <2>2, CallTables DEF InACall
  <2> QED BY <1>1, <1>3, <2>2, <2>3, <2>4, <2>5, StructureBecome
<1> HIDE DEF f, op
<1> QED BY <1>3, StopOK DEF CallParam, Checked, ArgumentIndex, f, op

LEMMA CallFinishOK ==
  ASSUME Structure, CallFinish
  PROVE  Structure'
<1> DEFINE type == FunReturn[Top.name]
           call == OpNamed("function_call_finalize", type, Top.name)
<1>1. Enters("call_finish") /\ frames # <<>> /\ Top.at \in InACall
  BY DEF CallFinish, InCall, InACall
<1>2. Top \in Frame /\ Resolved(Top) /\ type \in Valid \cup {VOID}
  BY <1>1, EntersOK, ValidTypes DEF Resolved
<1>3. call \in Op
  <2>1. type \in Type /\ Top.name \in Names \cup {NoName}
    BY <1>2, ValidTypes DEF Frame, VOID, Type
  <2> HIDE DEF type
  <2> QED BY <2>1, OpsOK DEF Calls
<1>4. ASSUME emitted' = call, operands' = After(operands, call), Pop, ReadToken,
             UNCHANGED <<types, m_label_tag>>,
             \/ /\ Top.at = "call"
                /\ ignored' = ignored
                /\ Yields(type)
             \/ /\ Top.at = "call_statement"
                /\ ignored' = ignored + Len(Leaves(call))
                /\ Done
      PROVE  Structure'
  <2>1. LexerOK' /\ TypesOK' /\ TableKept' /\ TypesGrow /\ Valid' = Valid
    BY <1>4, ReadTokenOK, UnchangedTypes DEF Structure, TypeOK
  <2>2. Len(Leaves(call)) \in Nat
    BY DEF Leaves
  <2> HIDE DEF call
  <2>3. OutputOK'
    <3>1. operands' \in Seq(Type) /\ emitted' \in Op
      BY <1>3, <1>4, AfterOK DEF Structure, TypeOK, OutputOK
    <3>2. ignored' \in Nat /\ m_label_tag' \in Nat
      BY <1>4, <2>2 DEF Structure, TypeOK, OutputOK
    <3> QED BY <3>1, <3>2 DEF OutputOK
  <2>4. CASE Top.at = "call" /\ Yields(type)
    <3>1. type \in Valid
      BY <1>2, <2>4 DEF Resolved
    <3>2. ControlOK' /\ pc' = "return" /\ result'.type = type
      BY <2>4, <3>1, YieldsOK, ValidTypes DEF Structure, TypeOK
    <3> HIDE DEF type
    <3>3. ResultResolved'
      BY <2>1, <3>1, <3>2 DEF ResultResolved
    <3> QED BY <1>1, <1>4, <2>1, <2>3, <2>4, <3>2, <3>3, ReturnPop DEF RestOK, ValueFrames
  <2>5. CASE Top.at = "call_statement" /\ Done
    <3>1. ControlOK' /\ pc' = "done"
      BY <2>5, GotoOK DEF Done, Structure, TypeOK, ControlPoints
    <3>2. ResultResolved'
      BY <3>1 DEF ResultResolved
    <3>3. Parents("call_statement") \subseteq RunsIn("done")
      BY CallTables DEF RunsIn
    <3> QED BY <1>1, <1>4, <2>1, <2>3, <2>5, <3>1, <3>2, <3>3, StructurePop DEF RestOK
  <2> QED BY <1>4, <2>4, <2>5
<1> HIDE DEF type, call
<1> QED BY <1>3, <1>4, StopsOK, StopOK DEF CallFinish, Checked, type, call

LEMMA CallStepOK ==
  ASSUME Structure, CallStep
  PROVE  Structure'
<1>1. CASE CallInExpression
  BY <1>1, BeginCallOK DEF CallInExpression
<1>2. CASE CallStatement
  BY <1>2, BeginCallOK DEF CallStatement
<1> QED BY <1>1, <1>2, CallArgsOK, CallArgOK, CallParamOK, CallFinishOK DEF CallStep

-----------------------------------------------------------------------------
(***************************************************************************)
(* Statements preserve the structure.                                      *)
(***************************************************************************)

\* The control points a statement goes to, and the activations that wait in it.
StatementPoints == {"expression", "statement", "statement_identifier", "assignment",
                    "assign_target", "block_statement", "block", "done"}

LEMMA StatementTables ==
  /\ \A p \in {"statement", "block_statement"} : RunsIn(p) = Enclosing
  /\ RunsIn("done") = Enclosing \cup {"for_assign"}
  /\ RunsIn("block") = {"block"} /\ RunsIn("expression") = AwaitsValue
  /\ RunsIn("statement_identifier") = {"statement_name"}
  /\ RunsIn("assignment") = {"for_assign"} /\ RunsIn("assign_target") = {"target"}
  /\ RunsIn("deref_target") = {"deref"} /\ RunsIn("walk_target") = {"store_ptr"}
  /\ StatementPoints \subseteq ControlPoints
BY DEF RunsIn, StatementPoints, ControlPoints

LEMMA StatementParents ==
  /\ \A a \in {"display", "if_cond", "while_cond", "for_assign", "for_max", "block",
               "if_then", "if_end", "while_body", "for_body", "statement_name"} :
       Parents(a) = Enclosing
  /\ \A a \in {"target", "deref", "assign", "assign_ptr", "store_ptr"} :
       Parents(a) = Enclosing \cup {"for_assign"}
  /\ Parents("main") = {}
BY DEF Parents

\* A step that goes to p, and how it leaves the other variables.
Moves(p) == /\ Goto(p)
            /\ ReadToken \/ KeepToken
            /\ Quiet \/ \E op \in Op : Emit(op)
            /\ m_label_tag' \in Nat
            /\ UNCHANGED types

LEMMA MovesOK ==
  ASSUME Structure, NEW p \in StatementPoints, Moves(p)
  PROVE  RestOK' /\ TypesGrow /\ pc' = p
BY RestMoves, StatementTables DEF StatementPoints, Moves

LEMMA PushMoves ==
  ASSUME Structure, NEW p \in StatementPoints, Moves(p), frames # <<>>,
         NEW f \in Frame, Push(f), Top.at \in Parents(f.at), f.at \in RunsIn(p), Resolved(f)
  PROVE  Structure'
BY MovesOK, StructurePush DEF StatementPoints

LEMMA BecomeMoves ==
  ASSUME Structure, NEW p \in StatementPoints, Moves(p), frames # <<>>,
         NEW f \in Frame, Become(f), Parents(Top.at) \subseteq Parents(f.at),
         Top.at # "main", f.at \in RunsIn(p), Resolved(f)
  PROVE  Structure'
BY MovesOK, StructureBecome DEF StatementPoints

LEMMA PopMoves ==
  ASSUME Structure, NEW p \in StatementPoints, Moves(p), frames # <<>>, Pop,
         Top.at # "main", Parents(Top.at) \subseteq RunsIn(p)
  PROVE  Structure'
BY MovesOK, StructurePop DEF StatementPoints

LEMMA StayMoves ==
  ASSUME Structure, NEW p \in StatementPoints, Moves(p), frames # <<>>, frames' = frames,
         Top.at \in RunsIn(p)
  PROVE  Structure'
BY MovesOK, StructureSame DEF StatementPoints

LEMMA TagOK ==
  ASSUME Structure
  PROVE  m_label_tag \in Nat
BY DEF Structure, TypeOK, OutputOK

LEMMA ParseAssignmentOK ==
  ASSUME Structure, ParseAssignment
  PROVE  Structure'
<1> DEFINE f == [Activation("target") EXCEPT !.name = tok]
<1>1. Enters("assignment") /\ frames # <<>> /\ Top.at = "for_assign"
  BY EntersOK, StatementTables DEF ParseAssignment
<1>2. ASSUME IsId(tok), Push(f), Goto("assign_target"), ReadToken, Quiet,
             UNCHANGED <<types, m_label_tag>>
      PROVE  Structure'
  <2>1. f \in Frame /\ f.at = "target" /\ f.derefs = <<>>
    BY <1>2, ActivationOK DEF Frame, IsId, Structure, TypeOK, Waiting, Activation
  <2>2. Resolved(f)
    BY <2>1 DEF Resolved, Holding, InACall
  <2> HIDE DEF f
  <2> QED BY <1>1, <1>2, <2>1, <2>2, TagOK, PushMoves, StatementTables, StatementParents
          DEF Moves, StatementPoints
<1> QED BY <1>2, StopOK DEF ParseAssignment, Checked

LEMMA StatementIdentifierOK ==
  ASSUME Structure, StatementIdentifier
  PROVE  Structure'
<1> DEFINE f == [Top EXCEPT !.at = "target"]
<1>1. /\ At("statement_identifier", "statement_name") /\ Become(f) /\ Moves("assign_target")
  BY TagOK DEF StatementIdentifier, Moves
<1>2. frames # <<>> /\ Top.at = "statement_name" /\ Top \in Frame /\ Resolved(Top)
  BY <1>1, AtOK
<1>3. f \in Frame /\ f.at = "target" /\ f.derefs = <<>>
  BY <1>2 DEF Frame, Waiting, Resolved
<1>4. Resolved(f)
  BY <1>3 DEF Resolved, Holding, InACall
<1> HIDE DEF f
<1> QED BY <1>1, <1>2, <1>3, <1>4, BecomeMoves, StatementTables, StatementParents
        DEF StatementPoints

LEMMA ParseStatementOK ==
  ASSUME Structure, ParseStatement
  PROVE  Structure'
<1>1. frames # <<>> /\ Top.at \in Enclosing
  BY EntersOK, StatementTables DEF ParseStatement
<1>2. \A p \in StatementPoints : ParseStatement /\ Goto(p) => Moves(p)
  BY TagOK DEF ParseStatement, Moves
<1>3. ASSUME NEW at \in {"display", "for_assign"}, NEW p \in {"expression", "assignment"},
             Push(Activation(at)), Goto(p), at \in RunsIn(p)
      PROVE  Structure'
  <2>1. Activation(at) \in Frame /\ Activation(at).at = at
    BY ActivationOK DEF Structure, TypeOK, Waiting
  <2>2. Resolved(Activation(at))
    BY <2>1, NothingToResolve DEF Holding, InACall
  <2> QED BY <1>1, <1>2, <1>3, <2>1, <2>2, PushMoves, StatementParents DEF StatementPoints
<1>4. ASSUME IsId(tok), Push([Activation("statement_name") EXCEPT !.name = tok]),
             Goto("statement_identifier")
      PROVE  Structure'
  <2> DEFINE f == [Activation("statement_name") EXCEPT !.name = tok]
  <2>1. f \in Frame /\ f.at = "statement_name" /\ f.derefs = <<>>
    BY <1>4, ActivationOK DEF Frame, IsId, Structure, TypeOK, Waiting, Activation
  <2>2. Resolved(f)
    BY <2>1 DEF Resolved, Holding, InACall
  <2>3. Push(f)
    BY <1>4
  <2> HIDE DEF f
  <2> QED BY <1>1, <1>2, <1>4, <2>1, <2>2, <2>3, PushMoves, StatementTables, StatementParents
          DEF StatementPoints
<1>5. "display" \in RunsIn("expression") /\ "for_assign" \in RunsIn("assignment")
  BY StatementTables DEF AwaitsValue
<1> QED BY <1>3, <1>4, <1>5 DEF ParseStatement

LEMMA ParseConditionalOK ==
  ASSUME Structure, ParseConditional
  PROVE  Structure'
<1>1. frames # <<>> /\ Top.at \in Enclosing
  BY EntersOK, StatementTables DEF ParseConditional
<1>2. m_label_tag' \in Nat
  BY TagOK DEF ParseConditional
<1>3. PICK at \in {"if_cond", "while_cond"} : Push([Activation(at) EXCEPT !.n = m_label_tag'])
  BY DEF ParseConditional
<1> DEFINE f == [Activation(at) EXCEPT !.n = m_label_tag']
<1>4. OpTag("statement_while_prepare", m_label_tag') \in Op
  BY <1>2, OpsOK DEF Calls, Silent, Type, OpTag
<1>5. Moves("expression")
  BY <1>2, <1>4 DEF ParseConditional, Moves
<1>6. f \in Frame /\ f.at = at
  BY <1>2, ActivationOK DEF Frame, Structure, TypeOK, Waiting
<1>7. Resolved(f)
  BY <1>6, NothingToResolve DEF Holding, InACall
<1>8. at \in AwaitsValue
  BY DEF AwaitsValue
<1>9. Push(f)
  BY <1>3
<1> HIDE DEF f
<1> QED BY <1>1, <1>5, <1>6, <1>7, <1>8, <1>9, PushMoves, StatementTables, StatementParents
        DEF StatementPoints

LEMMA ParseNestedBlockOK ==
  ASSUME Structure, ParseNestedBlock
  PROVE  Structure'
<1>1. frames # <<>> /\ Top.at \in Enclosing /\ frames' = frames
  BY EntersOK, StatementTables DEF ParseNestedBlock
<1>2. Moves("block_statement")
  BY TagOK DEF ParseNestedBlock, Moves
<1> QED BY <1>1, <1>2, StayMoves, StatementTables DEF StatementPoints

\* The activations of IF, WHILE and FOR change only their place in the statement.
LEMMA PlaceOK ==
  ASSUME Structure, frames # <<>>,
         NEW at \in {"if_then", "if_end", "while_body", "for_body"},
         Top \in Frame
  PROVE  /\ [Top EXCEPT !.at = at] \in Frame
         /\ [Top EXCEPT !.at = at].at = at
         /\ Resolved([Top EXCEPT !.at = at])
<1> DEFINE f == [Top EXCEPT !.at = at]
<1>1. f \in Frame /\ f.at = at
  BY DEF Frame, Enclosing
<1> HIDE DEF f
<1>2. Resolved(f)
  BY <1>1, NothingToResolve DEF Holding, InACall
<1> QED BY <1>1, <1>2 DEF f

LEMMA ConditionOK ==
  ASSUME Structure, NEW at, NEW keyword, NEW call \in Calls, NEW body,
         \/ at = "if_cond" /\ body = "if_then"
         \/ at = "while_cond" /\ body = "while_body",
         Condition(at, keyword, call, body)
  PROVE  Structure'
<1> DEFINE f == [Top EXCEPT !.at = body]
<1>1. At("return", at)
  BY DEF Condition
<1>2. frames # <<>> /\ Top.at = at /\ Top \in Frame
  BY <1>1, AtOK
<1>3. ASSUME Emit([OpOf(call, BOOL) EXCEPT !.n = Top.n]), Become(f), Goto("statement"),
             ReadToken, UNCHANGED <<types, m_label_tag>>
      PROVE  Structure'
  <2>1. f \in Frame /\ f.at = body /\ Resolved(f)
    BY <1>2, PlaceOK
  <2> HIDE DEF f
  <2>2. [OpOf(call, BOOL) EXCEPT !.n = Top.n] \in Op
    BY <1>2, OpsOK DEF Frame, BOOL, Type
  <2>3. Moves("statement")
    BY <1>3, <2>2, TagOK DEF Moves
  <2>4. body \in RunsIn("statement")
    BY StatementTables DEF Enclosing
  <2> QED BY <1>2, <1>3, <2>1, <2>3, <2>4, BecomeMoves, StatementParents DEF StatementPoints
<1> QED BY <1>3, StopOK DEF Condition, Checked

LEMMA IfElseOK ==
  ASSUME Structure, IfElse
  PROVE  Structure'
<1> DEFINE f == [Top EXCEPT !.at = "if_end"]
<1>1. At("done", "if_then") /\ Become(f)
  BY DEF IfElse
<1>2. frames # <<>> /\ Top.at = "if_then" /\ Top \in Frame
  BY <1>1, AtOK
<1>3. f \in Frame /\ f.at = "if_end" /\ Resolved(f)
  BY <1>2, PlaceOK
<1> HIDE DEF f
<1>4. \A call \in {"statement_if_with_else", "statement_if_without_else"} :
        OpTag(call, Top.n) \in Op
  BY <1>2, OpsOK DEF Frame, Calls, Silent, Type
<1>5. PICK p \in {"statement", "done"} : Moves(p)
  BY <1>4, TagOK DEF IfElse, Moves
<1>6. "if_end" \in RunsIn(p)
  BY StatementTables DEF Enclosing
<1> QED BY <1>1, <1>2, <1>3, <1>5, <1>6, BecomeMoves, StatementParents DEF StatementPoints

LEMMA ClosesOK ==
  ASSUME Structure, NEW at \in {"if_end", "while_body", "for_body"}, NEW call \in Calls,
         Closes(at, call)
  PROVE  Structure'
<1>1. At("done", at) /\ Pop
  BY DEF Closes
<1>2. frames # <<>> /\ Top.at = at /\ Top \in Frame
  BY <1>1, AtOK
<1>3. OpTag(call, Top.n) \in Op
  BY <1>2, OpsOK DEF Frame, Type
<1>4. Moves("done")
  BY <1>3, TagOK DEF Closes, Done, Moves
<1> QED BY <1>1, <1>2, <1>4, PopMoves, StatementTables, StatementParents DEF StatementPoints

LEMMA ForAssignedOK ==
  ASSUME Structure, ForAssigned
  PROVE  Structure'
<1> DEFINE f == [Top EXCEPT !.at = "for_max", !.name = result.name, !.n = m_label_tag']
           op == OpTag("statement_for_post_assignment", m_label_tag + 1)
<1>1. At("done", "for_assign")
  BY DEF ForAssigned
<1>2. frames # <<>> /\ Top.at = "for_assign" /\ Top \in Frame
  BY <1>1, AtOK
<1>3. op \in Op
  <2>1. "statement_for_post_assignment" \in Calls /\ VOID \in Type /\ m_label_tag + 1 \in Nat
    BY TagOK DEF Calls, Silent, VOID, Type
  <2> QED BY <2>1, OpsOK
<1> HIDE DEF op
<1>4. ASSUME m_label_tag' = m_label_tag + 1, Emit(op), Become(f), Goto("expression"), ReadToken,
             UNCHANGED types
      PROVE  Structure'
  <2>1. m_label_tag' \in Nat /\ result.name \in Names \cup {NoName}
    BY <1>4, TagOK DEF Structure, TypeOK, ControlOK
  <2>2. f \in Frame /\ f.at = "for_max"
    BY <1>2, <2>1 DEF Frame, Waiting
  <2> HIDE DEF f
  <2>3. Resolved(f)
    BY <2>2, NothingToResolve DEF Holding, InACall
  <2>4. Moves("expression")
    BY <1>3, <1>4, <2>1 DEF Moves
  <2>5. "for_max" \in RunsIn("expression")
    BY StatementTables DEF AwaitsValue
  <2> QED BY <1>2, <1>4, <2>2, <2>3, <2>4, <2>5, BecomeMoves, StatementParents
          DEF StatementPoints
<1> HIDE DEF f
<1> QED BY <1>3, <1>4, StopOK, StopsOK DEF ForAssigned, Checked, CheckedAfter, f, op

LEMMA ForMaxOK ==
  ASSUME Structure, ForMax
  PROVE  Structure'
<1> DEFINE f  == [Top EXCEPT !.at = "for_body"]
           op == [OpNamed("statement_for_post_check", UNSIGNED_INT, Top.name) EXCEPT !.n = Top.n]
<1>1. At("return", "for_max")
  BY DEF ForMax
<1>2. frames # <<>> /\ Top.at = "for_max" /\ Top \in Frame
  BY <1>1, AtOK
<1>3. op \in Op
  <2>1. Top.n \in Nat /\ Top.name \in Names \cup {NoName}
    BY <1>2 DEF Frame
  <2>2. "statement_for_post_check" \in Calls /\ UNSIGNED_INT \in Type
    BY DEF Calls, Pops, UNSIGNED_INT, Type
  <2> QED BY <2>1, <2>2, OpsOK
<1> HIDE DEF op
<1>4. ASSUME Emit(op), Become(f), Goto("statement"), ReadToken, UNCHANGED <<types, m_label_tag>>
      PROVE  Structure'
  <2>1. f \in Frame /\ f.at = "for_body" /\ Resolved(f)
    BY <1>2, PlaceOK
  <2> HIDE DEF f
  <2>2. Moves("statement")
    BY <1>3, <1>4, TagOK DEF Moves
  <2>3. "for_body" \in RunsIn("statement")
    BY StatementTables DEF Enclosing
  <2> QED BY <1>2, <1>4, <2>1, <2>2, <2>3, BecomeMoves, StatementParents DEF StatementPoints
<1> QED BY <1>4, StopOK DEF ForMax, Checked, op

LEMMA DisplayOK ==
  ASSUME Structure, Display
  PROVE  Structure'
<1>1. At("return", "display")
  BY DEF Display
<1>2. frames # <<>> /\ Top.at = "display" /\ result.type \in Valid
  BY <1>1, AtOK DEF Structure, ResultResolved
<1>3. ASSUME Emit(OpOf("debug_display", result.type)), Pop, Done, KeepToken,
             UNCHANGED <<types, m_label_tag>>
      PROVE  Structure'
  <2>1. OpOf("debug_display", result.type) \in Op
    BY <1>2, OpsOK, ValidTypes DEF Calls, Pops
  <2>2. Moves("done")
    BY <1>3, <2>1, TagOK DEF Moves, Done
  <2> QED BY <1>2, <1>3, <2>2, PopMoves, StatementTables, StatementParents DEF StatementPoints
<1> QED BY <1>3, StopOK DEF Display, Checked

LEMMA BeginBlockOK ==
  ASSUME Structure, BeginBlock
  PROVE  Structure'
<1>1. frames # <<>> /\ Top.at \in Enclosing
  BY EntersOK, StatementTables DEF BeginBlock
<1>2. ASSUME Push(Activation("block")), Goto("block"), ReadToken, Quiet,
             UNCHANGED <<types, m_label_tag>>
      PROVE  Structure'
  <2>1. Activation("block") \in Frame /\ Activation("block").at = "block"
    BY ActivationOK DEF Structure, TypeOK, Enclosing
  <2>2. Resolved(Activation("block"))
    BY <2>1, NothingToResolve DEF Holding, InACall
  <2>3. Moves("block")
    BY <1>2, TagOK DEF Moves
  <2> QED BY <1>1, <1>2, <2>1, <2>2, <2>3, PushMoves, StatementTables, StatementParents
          DEF StatementPoints
<1> QED BY <1>2, StopOK DEF BeginBlock, Checked

\* A block ends, goes on with a statement, or is entered again.
LEMMA BlockMoves ==
  ASSUME Structure, frames # <<>>, Top.at = "block",
         \/ Pop /\ Moves("done")
         \/ frames' = frames /\ Moves("statement")
         \/ frames' = frames /\ Moves("block")
  PROVE  Structure'
<1>1. "block" \in Enclosing
  BY DEF Enclosing
<1>2. CASE Pop /\ Moves("done")
  BY <1>2, PopMoves, StatementTables, StatementParents DEF StatementPoints
<1>3. CASE frames' = frames /\ Moves("statement")
  BY <1>1, <1>3, StayMoves, StatementTables DEF StatementPoints
<1>4. CASE frames' = frames /\ Moves("block")
  BY <1>4, StayMoves, StatementTables DEF StatementPoints
<1> QED BY <1>2, <1>3, <1>4

LEMMA BlockItemOK ==
  ASSUME Structure, BlockItem
  PROVE  Structure'
<1>1. frames # <<>> /\ Top.at = "block"
  BY AtOK DEF BlockItem
<1> QED BY <1>1, BlockMoves, TagOK DEF BlockItem, Moves, Done

LEMMA BlockNextOK ==
  ASSUME Structure, BlockNext
  PROVE  Structure'
<1>1. frames # <<>> /\ Top.at = "block"
  BY AtOK DEF BlockNext
<1>2. CASE tok \notin {"SEMICOLON", "KEYWORD_END"} /\ Stops("error")
  BY <1>2, StopOK
<1> QED BY <1>1, <1>2, BlockMoves, TagOK DEF BlockNext, Checked, Moves, Done

\* The main block is the outermost activation: nothing is left below it.
LEMMA EndMainOK ==
  ASSUME Structure, EndMain
  PROVE  Structure'
<1>1. At("done", "main")
  BY DEF EndMain
<1>2. frames # <<>> /\ Top.at = "main" /\ frames \in Seq(Frame)
  BY <1>1, AtOK DEF Structure, TypeOK, FramesOK
<1>3. Len(frames) = 1
  <2>1. Len(frames) \in Nat \ {0} /\ Top = frames[Len(frames)]
    BY <1>2, TopOK DEF FramesOK
  <2>2. ASSUME Len(frames) > 1
        PROVE  FALSE
    <3>1. Len(frames) \in 2 .. Len(frames)
      BY <2>1, <2>2
    <3>2. frames[Len(frames) - 1].at \in Parents(Top.at)
      BY <2>1, <3>1 DEF Structure, Nesting
    <3> QED BY <1>2, <3>2, StatementParents
  <2> QED BY <2>1, <2>2
<1>4. ASSUME Emit(OpOf("finalize_main_procedure", VOID)), Pop, Goto("end"), ReadToken,
             UNCHANGED <<types, m_label_tag>>
      PROVE  Structure'
  <2>1. OpOf("finalize_main_procedure", VOID) \in Op
    BY OpsOK DEF Calls, Silent, VOID, Type
  <2>2. RestOK' /\ TypesGrow /\ pc' = "end"
    BY <1>4, <2>1, TagOK, RestMoves DEF ControlPoints
  <2>3. frames' = <<>> /\ frames' \in Seq(Frame)
    BY <1>2, <1>3, <1>4 DEF Pop
  <2>4. Nesting' /\ FramesOK' /\ FramesResolved'
    BY <2>2, <2>3 DEF Nesting, FramesOK, FramesResolved
  <2> QED BY <2>2, <2>4 DEF Structure, TypeOK, RestOK
<1> QED BY <1>4, StopOK DEF EndMain, Checked

-----------------------------------------------------------------------------
(***************************************************************************)
(* Assignments preserve the structure.                                     *)
(***************************************************************************)

\* The top activation, where it is changed but not left.
LEMMA BecomeTop ==
  ASSUME FramesOK, frames # <<>>, NEW f, Become(f)
  PROVE  Top' = f
BY TopOK DEF FramesOK, Become, Top

LEMMA TargetOK ==
  ASSUME Structure, NEW f \in Frame, TargetChain(f)
  PROVE  /\ f.name \in DOMAIN VarType /\ VarType[f.name] \in Valid
         /\ f.type \in Valid
         /\ \A k \in 1 .. Len(f.derefs) : f.derefs[k] \in Valid /\ f.derefs[k] \in Type
<1>1. f.derefs \in Seq(Type)
  BY DEF Frame
<1>2. \A k \in 1 .. Len(f.derefs) : f.derefs[k] \in Valid
  BY <1>1, ValidTypes DEF TargetChain
<1>3. f.type \in Valid
  BY <1>1, <1>2, ValidTypes DEF TargetChain
<1> QED BY <1>2, <1>3, ValidTypes DEF TargetChain

LEMMA StoreVariableOK ==
  ASSUME Structure, StoreVariable
  PROVE  Structure'
<1> DEFINE type == VarType[Top.name]
           op == OpNamed("store_variable", type, Top.name)
<1>1. At("return", "assign")
  BY DEF StoreVariable
<1>2. frames # <<>> /\ Top.at = "assign" /\ Top \in Frame /\ Top.name \in DOMAIN VarType
  BY <1>1, AtOK DEF Resolved
<1>3. type \in Type /\ Top.name \in Names \cup {NoName}
  BY <1>2, ValidTypes DEF Frame
<1> HIDE DEF type
<1>4. op \in Op
  BY <1>3, OpsOK DEF Calls, Pops
<1> HIDE DEF op
<1>5. ASSUME Emit(op), Pop, Returns("done", [type |-> type, name |-> Top.name]), KeepToken,
             UNCHANGED <<types, m_label_tag>>
      PROVE  Structure'
  <2>1. ControlOK' /\ pc' = "done"
    <3>1. [type |-> type, name |-> Top.name] \in [type : Type, name : Names \cup {NoName}]
      BY <1>3
    <3> QED BY <1>5, <3>1, ReturnsOK DEF ControlPoints, Structure, TypeOK
  <2>2. LexerOK' /\ TypesOK' /\ TableKept' /\ TypesGrow /\ OutputOK'
    BY <1>4, <1>5, KeepTokenOK, UnchangedTypes, EmitOK, TagOK DEF Structure, TypeOK
  <2>3. ResultResolved'
    BY <2>1 DEF ResultResolved
  <2> QED BY <1>2, <1>5, <2>1, <2>2, <2>3, StructurePop, StatementTables, StatementParents
          DEF RestOK
<1> QED BY <1>4, <1>5, StopsOK DEF StoreVariable, CheckedAfter, type, op

LEMMA EndTargetOK ==
  ASSUME Structure, EndTarget
  PROVE  Structure'
<1> DEFINE f == [Top EXCEPT !.at = "assign_ptr"]
<1>1. At("deref_target", "deref") /\ tok # "EXPONENT"
  BY DEF EndTarget
<1>2. /\ frames # <<>> /\ Top.at = "deref" /\ Top \in Frame /\ TargetChain(Top)
      /\ Top.derefs # <<>>
  BY <1>1, AtOK DEF Resolved, Structure, ResultResolved
<1>3. ASSUME Become(f), Goto("expression"), ReadToken, Quiet, UNCHANGED <<types, m_label_tag>>
      PROVE  Structure'
  <2>1. /\ f \in Frame /\ f.at = "assign_ptr"
        /\ f.name = Top.name /\ f.derefs = Top.derefs /\ f.type = Top.type
    BY <1>2 DEF Frame, Waiting
  <2> HIDE DEF f
  <2>2. Resolved(f)
    BY <1>2, <2>1 DEF Resolved, Holding, InACall, TargetChain
  <2>3. Moves("expression")
    BY <1>3, TagOK DEF Moves
  <2>4. "assign_ptr" \in RunsIn("expression")
    BY StatementTables DEF AwaitsValue
  <2> QED BY <1>2, <1>3, <2>1, <2>2, <2>3, <2>4, BecomeMoves, StatementParents
          DEF StatementPoints
<1> QED BY <1>3, StopOK DEF EndTarget, Checked

LEMMA AssignTargetOK ==
  ASSUME Structure, AssignTarget
  PROVE  Structure'
<1>1. At("assign_target", "target")
  BY DEF AssignTarget
<1>2. frames # <<>> /\ Top.at = "target" /\ Top \in Frame /\ Top.derefs = <<>>
  BY <1>1, AtOK DEF Resolved
<1>3. ASSUME Top.name \in DOMAIN VarType, tok = "EXPONENT",
             Become([Top EXCEPT !.at = "deref", !.type = VarType[Top.name]]),
             Goto("deref_target"), KeepToken, Quiet, UNCHANGED <<types, m_label_tag>>
      PROVE  Structure'
  <2> DEFINE f == [Top EXCEPT !.at = "deref", !.type = VarType[Top.name]]
  <2>1. /\ f \in Frame /\ f.at = "deref" /\ f.name = Top.name /\ f.derefs = <<>>
        /\ f.type = VarType[Top.name] /\ Become(f)
    BY <1>2, <1>3, ValidTypes DEF Frame, Waiting
  <2> HIDE DEF f
  <2>2. Resolved(f)
    BY <1>3, <2>1 DEF Resolved, Holding, InACall, TargetChain
  <2>3. LexerOK' /\ TypesOK' /\ TableKept' /\ TypesGrow /\ OutputOK'
    BY <1>3, KeepTokenOK, UnchangedTypes, QuietOK, TagOK DEF Structure, TypeOK
  <2>4. ControlOK' /\ pc' = "deref_target"
    BY <1>3, GotoOK DEF ControlPoints, Structure, TypeOK
  <2>5. ResultResolved'
    BY <1>3, <2>4 DEF ResultResolved, KeepToken, lexer
  <2> QED BY <1>2, <2>1, <2>2, <2>3, <2>4, <2>5, StructureBecome, StatementTables,
             StatementParents DEF RestOK
<1>4. ASSUME Top.name \in DOMAIN VarType, Become([Top EXCEPT !.at = "assign"]),
             Goto("expression"), ReadToken, Quiet, UNCHANGED <<types, m_label_tag>>
      PROVE  Structure'
  <2> DEFINE f == [Top EXCEPT !.at = "assign"]
  <2>1. f \in Frame /\ f.at = "assign" /\ f.name = Top.name /\ Become(f)
    BY <1>2, <1>4 DEF Frame, Waiting
  <2> HIDE DEF f
  <2>2. Resolved(f)
    BY <1>4, <2>1 DEF Resolved, Holding, InACall
  <2>3. Moves("expression")
    BY <1>4, TagOK DEF Moves
  <2>4. "assign" \in RunsIn("expression")
    BY StatementTables DEF AwaitsValue
  <2> QED BY <1>2, <2>1, <2>2, <2>3, <2>4, BecomeMoves, StatementParents DEF StatementPoints
<1> QED BY <1>3, <1>4, StopOK DEF AssignTarget, Checked

LEMMA AppendType ==
  ASSUME NEW s \in Seq(Type), NEW t \in Type
  PROVE  Append(s, t) \in Seq(Type)
OBVIOUS

LEMMA ChainFrame ==
  ASSUME NEW f \in Frame, NEW t \in Type, NEW s \in Seq(Type)
  PROVE  [f EXCEPT !.type = t, !.derefs = s] \in Frame
BY DEF Frame

\* One more '^' in the target of an assignment.
LEMMA ChainGrows ==
  ASSUME NEW f \in Frame, TargetChain(f), f.type \in DOMAIN m_user_types,
         NEW target \in Type, target = m_user_types[f.type]
  PROVE  /\ [f EXCEPT !.type = target, !.derefs = Append(@, target)] \in Frame
         /\ TargetChain([f EXCEPT !.type = target, !.derefs = Append(@, target)])
<1> DEFINE g == [f EXCEPT !.type = target, !.derefs = Append(@, target)]
<1>1. f.derefs \in Seq(Type) /\ g \in Frame
  <2>1. f.derefs \in Seq(Type)
    BY DEF Frame
  <2>2. Append(f.derefs, target) \in Seq(Type)
    BY <2>1, AppendType
  <2> QED BY <2>1, <2>2, ChainFrame
<1>2. g.name = f.name /\ g.type = target /\ g.derefs = Append(f.derefs, target)
  BY DEF Frame
<1> HIDE DEF g
<1>3. /\ Len(g.derefs) = Len(f.derefs) + 1 /\ g.derefs # <<>>
      /\ g.derefs[Len(f.derefs) + 1] = target
      /\ \A k \in 1 .. Len(f.derefs) : g.derefs[k] = f.derefs[k]
  BY <1>1, <1>2
<1>4. ASSUME NEW k \in 1 .. Len(g.derefs)
      PROVE  LET from == IF k = 1 THEN VarType[g.name] ELSE g.derefs[k - 1]
             IN from \in DOMAIN m_user_types /\ g.derefs[k] = m_user_types[from]
  <2>1. CASE k = Len(f.derefs) + 1
    <3>1. CASE k = 1
      <4>1. f.derefs = <<>>
        BY <1>1, <2>1, <3>1
      <4> QED BY <1>2, <1>3, <2>1, <3>1, <4>1 DEF TargetChain
    <3>2. CASE k # 1
      <4>1. f.derefs # <<>> /\ k - 1 = Len(f.derefs) /\ Len(f.derefs) \in 1 .. Len(f.derefs)
        BY <1>1, <2>1, <3>2
      <4>2. g.derefs[k - 1] = f.type
        BY <1>3, <4>1 DEF TargetChain
      <4> QED BY <1>3, <2>1, <3>2, <4>2
    <3> QED BY <3>1, <3>2
  <2>2. CASE k # Len(f.derefs) + 1
    <3>1. k \in 1 .. Len(f.derefs) /\ (k # 1 => k - 1 \in 1 .. Len(f.derefs))
      BY <1>1, <1>3, <2>2
    <3> QED BY <1>2, <1>3, <3>1 DEF TargetChain
  <2> QED BY <2>1, <2>2
<1>5. g.type = g.derefs[Len(g.derefs)]
  BY <1>1, <1>2, <1>3
<1>6. TargetChain(g)
  BY <1>2, <1>3, <1>4, <1>5 DEF TargetChain
<1> QED BY <1>1, <1>6 DEF g

LEMMA DerefTargetOK ==
  ASSUME Structure, DerefTarget
  PROVE  Structure'
<1> DEFINE target == m_user_types[Top.type]
           f == [Top EXCEPT !.type = target, !.derefs = Append(@, target)]
<1>1. At("deref_target", "deref")
  BY DEF DerefTarget
<1>2. frames # <<>> /\ Top.at = "deref" /\ Top \in Frame /\ TargetChain(Top)
  BY <1>1, AtOK DEF Resolved
<1>3. ASSUME Top.type \in DOMAIN m_user_types, Become(f), Goto("deref_target"), ReadToken, Quiet,
             UNCHANGED <<types, m_label_tag>>
      PROVE  Structure'
  <2>1. target \in Type
    BY <1>3, ValidTypes
  <2>2. f \in Frame /\ TargetChain(f)
    BY <1>2, <1>3, <2>1, ChainGrows
  <2>3. f.at = "deref" /\ f.derefs = Append(Top.derefs, target) /\ Top.derefs \in Seq(Type)
    BY <1>2 DEF Frame
  <2> HIDE DEF f
  <2>4. f.derefs # <<>>
    BY <2>1, <2>3
  <2>5. Resolved(f)
    BY <2>2, <2>3 DEF Resolved, Holding, InACall
  <2>6. LexerOK' /\ TypesOK' /\ TableKept' /\ TypesGrow /\ OutputOK'
    BY <1>3, ReadTokenOK, UnchangedTypes, QuietOK, TagOK DEF Structure, TypeOK
  <2>7. ControlOK' /\ pc' = "deref_target"
    BY <1>3, GotoOK DEF ControlPoints, Structure, TypeOK
  <2>8. Top' = f
    BY <1>2, <1>3, BecomeTop DEF Structure, TypeOK
  <2>9. ResultResolved'
    BY <2>4, <2>7, <2>8 DEF ResultResolved
  <2> QED BY <1>2, <1>3, <2>2, <2>3, <2>5, <2>6, <2>7, <2>9, StructureBecome, StatementTables,
             StatementParents DEF RestOK
<1> HIDE DEF f
<1> QED BY <1>3, StopOK DEF DerefTarget, Checked, f

\* What a store through a pointer knows of its target.
LEMMA PointerTarget ==
  ASSUME Structure, frames # <<>>, Top \in Frame, Top.at \in {"assign_ptr", "store_ptr"},
         Resolved(Top)
  PROVE  /\ TargetChain(Top) /\ Top.derefs \in Seq(Type) /\ Top.derefs # <<>>
         /\ VarType[Top.name] \in Type /\ Top.name \in Names \cup {NoName}
         /\ Top.type \in Type
<1>1. TargetChain(Top) /\ Top.derefs # <<>>
  BY DEF Resolved
<1>2. Top.derefs \in Seq(Type) /\ Top.name \in Names \cup {NoName} /\ Top.type \in Type
  BY DEF Frame
<1>3. VarType[Top.name] \in Type
  BY <1>1, ValidTypes DEF TargetChain
<1> QED BY <1>1, <1>2, <1>3

\* Only n, the index into dereference_stack, changes during the store.
LEMMA WalkOK ==
  ASSUME NEW f \in Frame, TargetChain(f), f.derefs # <<>>, NEW n \in 1 .. Len(f.derefs),
         NEW g, g = [f EXCEPT !.at = "store_ptr", !.n = n]
  PROVE  g \in Frame /\ g.at = "store_ptr" /\ Resolved(g)
<1>1. f.derefs \in Seq(Type) /\ n \in Nat
  BY DEF Frame
<1>2. g \in Frame
  BY <1>1 DEF Frame, Waiting
<1>3. /\ g.at = "store_ptr" /\ g.n = n
      /\ g.name = f.name /\ g.derefs = f.derefs /\ g.type = f.type
  BY DEF Frame
<1> QED BY <1>2, <1>3 DEF Resolved, Holding, InACall, TargetChain

LEMMA LoadTargetOK ==
  ASSUME Structure, LoadTarget
  PROVE  Structure'
<1> DEFINE f  == [Top EXCEPT !.at = "store_ptr", !.n = 1]
           op == OpNamed("load_variable", VarType[Top.name], Top.name)
<1>1. /\ At("return", "assign_ptr") /\ Become(f) /\ Emit(op) /\ Returns("walk_target", result)
      /\ KeepToken /\ UNCHANGED types /\ m_label_tag' = m_label_tag
  BY DEF LoadTarget
<1>2. /\ frames # <<>> /\ Top.at = "assign_ptr" /\ Top \in Frame /\ Resolved(Top)
      /\ result.type \in Valid
  BY <1>1, AtOK DEF Structure, ResultResolved
<1>3. /\ TargetChain(Top) /\ Top.derefs \in Seq(Type) /\ Top.derefs # <<>>
      /\ VarType[Top.name] \in Type /\ Top.name \in Names \cup {NoName}
  BY <1>2, PointerTarget
<1>4. f \in Frame /\ f.at = "store_ptr" /\ Resolved(f)
  <2>1. 1 \in 1 .. Len(Top.derefs)
    BY <1>3
  <2> QED BY <1>2, <1>3, <2>1, WalkOK
<1>5. op \in Op
  <2>1. "load_variable" \in Calls
    BY DEF Calls, Loads
  <2> QED BY <1>3, <2>1, OpsOK
<1> HIDE DEF f, op
<1>6. RestOK' /\ TypesGrow /\ pc' = "walk_target"
  BY <1>1, <1>2, <1>5, TagOK, RestReturns DEF Structure, TypeOK, ControlOK
<1> QED BY <1>1, <1>2, <1>4, <1>6, StructureBecome, StatementTables, StatementParents

LEMMA WalkTypeOK ==
  ASSUME Structure, frames # <<>>, Top \in Frame, Top.at = "store_ptr", Resolved(Top)
  PROVE  WalkType(Top) \in Type /\ Top.n \in 1 .. Len(Top.derefs)
<1>1. /\ TargetChain(Top) /\ Top.derefs \in Seq(Type) /\ Top.n \in 1 .. Len(Top.derefs)
      /\ VarType[Top.name] \in Type
  BY PointerTarget DEF Resolved
<1>2. CASE Top.n # 1
  <2>1. Top.n - 1 \in 1 .. Len(Top.derefs)
    BY <1>1, <1>2
  <2> QED BY <1>1, <1>2, <2>1 DEF WalkType
<1>3. CASE Top.n = 1
  BY <1>1, <1>3 DEF WalkType
<1> QED BY <1>2, <1>3

LEMMA WalkTargetOK ==
  ASSUME Structure, WalkTarget
  PROVE  Structure'
<1> DEFINE f  == [Top EXCEPT !.n = @ + 1]
           op == OpTo("load_value_from_pointer", WalkType(Top), Top.derefs[Top.n])
<1>1. /\ At("walk_target", "store_ptr") /\ Top.n < Len(Top.derefs) /\ Become(f) /\ Emit(op)
      /\ Returns("walk_target", result)
      /\ KeepToken /\ UNCHANGED types /\ m_label_tag' = m_label_tag
  BY DEF WalkTarget
<1>2. /\ frames # <<>> /\ Top.at = "store_ptr" /\ Top \in Frame /\ Resolved(Top)
      /\ result.type \in Valid
  BY <1>1, AtOK DEF Structure, ResultResolved
<1>3. TargetChain(Top) /\ Top.derefs \in Seq(Type) /\ Top.derefs # <<>>
  BY <1>2, PointerTarget
<1>4. WalkType(Top) \in Type /\ Top.n \in 1 .. Len(Top.derefs)
  BY <1>2, WalkTypeOK
<1>5. f \in Frame /\ f.at = "store_ptr" /\ Resolved(f)
  <2>1. Top.n + 1 \in 1 .. Len(Top.derefs)
    BY <1>1, <1>3, <1>4
  <2>2. f = [Top EXCEPT !.at = "store_ptr", !.n = Top.n + 1]
    BY <1>2 DEF Frame
  <2> HIDE DEF f
  <2> QED BY <1>2, <1>3, <2>1, <2>2, WalkOK
<1>6. op \in Op
  <2>1. "load_value_from_pointer" \in Calls /\ Top.derefs[Top.n] \in Type
    BY <1>3, <1>4 DEF Calls
  <2> QED BY <1>4, <2>1, OpsOK
<1> HIDE DEF f, op
<1>7. RestOK' /\ TypesGrow /\ pc' = "walk_target"
  BY <1>1, <1>2, <1>6, TagOK, RestReturns DEF Structure, TypeOK, ControlOK
<1> QED BY <1>1, <1>2, <1>5, <1>7, StructureBecome, StatementTables, StatementParents

LEMMA StoreToPointerOK ==
  ASSUME Structure, StoreToPointer
  PROVE  Structure'
<1> DEFINE op == OpTo("store_value_to_pointer", result.type, WalkType(Top))
<1>1. At("walk_target", "store_ptr")
  BY DEF StoreToPointer
<1>2. /\ frames # <<>> /\ Top.at = "store_ptr" /\ Top \in Frame /\ Resolved(Top)
      /\ result.type \in Valid
  BY <1>1, AtOK DEF Structure, ResultResolved
<1>3. op \in Op
  <2>1. "store_value_to_pointer" \in Calls /\ result.type \in Type /\ WalkType(Top) \in Type
    BY <1>2, WalkTypeOK, ValidTypes DEF Calls
  <2> QED BY <2>1, OpsOK
<1> HIDE DEF op
<1>4. ASSUME Emit(op), Pop, Done, KeepToken, UNCHANGED <<types, m_label_tag>>
      PROVE  Structure'
  <2>1. Moves("done")
    BY <1>3, <1>4, TagOK DEF Moves, Done
  <2> QED BY <1>2, <1>4, <2>1, PopMoves, StatementTables, StatementParents DEF StatementPoints
<1> QED BY <1>3, <1>4, StopsOK DEF StoreToPointer, CheckedAfter, op

LEMMA StatementStepOK ==
  ASSUME Structure, StatementStep
  PROVE  Structure'
<1>1. CASE IfCondition \/ WhileCondition
  BY <1>1, ConditionOK DEF IfCondition, WhileCondition, Calls, Pops
<1>2. CASE EndIf \/ EndWhile \/ EndFor
  BY <1>2, ClosesOK DEF EndIf, EndWhile, EndFor, Calls, Silent
<1>3. CASE ExpectedStatement \/ EndOfFile
  BY <1>3, StopOK DEF ExpectedStatement, EndOfFile
<1> QED
  BY <1>1, <1>2, <1>3, ParseAssignmentOK, StatementIdentifierOK, AssignTargetOK, DerefTargetOK,
     EndTargetOK, StoreVariableOK, LoadTargetOK, WalkTargetOK, StoreToPointerOK,
     ParseStatementOK, ParseConditionalOK, ParseNestedBlockOK, IfElseOK, ForAssignedOK, ForMaxOK,
     DisplayOK, BeginBlockOK, BlockItemOK, BlockNextOK, EndMainOK
  DEF StatementStep

LEMMA StepOK ==
  ASSUME Structure, [Next]_vars
  PROVE  Structure'
<1>1. CASE UNCHANGED vars
  <2>1. StopsAfter(emitted, status) /\ emitted \in Op
        /\ status \in {"parsing", "accepted", "error", "bug", "uncaught"}
    BY <1>1 DEF vars, output, StopsAfter, Structure, TypeOK, OutputOK, ControlOK
  <2> QED BY <2>1, StopsOK
<1>2. CASE Stopped
  BY <1>1, <1>2 DEF Stopped
<1> QED BY <1>1, <1>2, ExpressionStepOK, CallStepOK, StatementStepOK DEF Next

LEMMA InitOK ==
  ASSUME Init
  PROVE  Structure
<1>1. LexerOK /\ ControlOK /\ OutputOK
  <2>1. LexerOK
    BY DeclarationsAssumption DEF Init, LexerOK, DeclarationsAssumption
  <2>2. ControlOK
    BY DEF Init, ControlOK, ControlPoints, Nothing, VOID, Type, NoName
  <2>3. OutputOK
    BY NoOpOK DEF Init, OutputOK
  <2> QED BY <2>1, <2>2, <2>3
<1>2. TableKept
  BY DeclarationsAssumption
     DEF Init, TableKept, PointerTypesAreUnique, DeclarationsAssumption, Pointers
<1>3. TypesOK
  <2>1. DeclaredTypes \in [DOMAIN DeclaredTypes -> Type] /\ DeclaredFree \in Nat
    BY DeclarationsAssumption DEF DeclarationsAssumption, PointerTableOK, Pointers
  <2> QED BY <2>1 DEF Init, TypesOK
<1>4. Activation("main") \in Frame /\ Activation("main").at = "main"
  BY <1>1, ActivationOK DEF Enclosing
<1>5. /\ frames = <<Activation("main")>> /\ Len(frames) = 1 /\ Top = Activation("main")
      /\ FramesOK /\ pc = "block_statement"
  BY <1>4 DEF Init, FramesOK, Top
<1>6. Nesting
  BY <1>4, <1>5, StatementTables DEF Nesting, Enclosing
<1>7. Resolved(Activation("main"))
  BY <1>4, NothingToResolve DEF Holding, InACall
<1>8. FramesResolved
  BY <1>5, <1>7 DEF FramesResolved
<1>9. ResultResolved
  BY <1>5 DEF ResultResolved
<1> QED BY <1>1, <1>2, <1>3, <1>5, <1>6, <1>8, <1>9 DEF Structure, TypeOK

-----------------------------------------------------------------------------
(***************************************************************************)
(* In every reachable state, whatever the source text, every activation    *)
(* waits below one that may be started there and holds resolved names and  *)
(* types (parse_statement ... parse_dereferencable).                       *)
(***************************************************************************)
THEOREM StructureHolds == Spec => []Structure
<1>1. Init => Structure
  BY InitOK
<1>2. Structure /\ [Next]_vars => Structure'
  BY StepOK
<1> QED BY <1>1, <1>2, PTL DEF Spec

(***************************************************************************)
(* Type correctness of the parser's variables.                             *)
(***************************************************************************)
THEOREM TypeCorrect == Spec => []TypeOK
<1>1. Structure => TypeOK
  BY DEF Structure
<1> QED BY <1>1, StructureHolds, PTL

(***************************************************************************)
(* create_type never gives one pointer type two ids, nor one id two types, *)
(* however many pointer types '@' and parse_type create.                   *)
(***************************************************************************)
THEOREM PointersUnique == Spec => []PointerTypesAreUnique
<1>1. Structure => PointerTypesAreUnique
  BY DEF Structure, TableKept
<1> QED BY <1>1, StructureHolds, PTL

-----------------------------------------------------------------------------
(***************************************************************************)
(* The operand stack: every activation finds its operands where it left    *)
(* them, and the calls the parser makes are a well-typed stack program.    *)
(***************************************************************************)
Stacked == BasesAscend /\ OperandsMatchActivations

\* The height of the operand stack where the code of the i-th activation goes on.
Height(i) == IF frames[i].at \in Enclosing THEN ignored
             ELSE frames[i].base + Held(frames[i])

\* Where something lies above Level.
Resulting == {"return", "walk_target"}

LEMMA Kinds ==
  /\ Enclosing \cap Waiting = {} /\ Holding \subseteq Waiting /\ "main" \in Enclosing
  /\ \A a \in Enclosing : Parents(a) \subseteq Enclosing
BY DEF Enclosing, Waiting, Holding, Parents

LEMMA HeldOK ==
  ASSUME NEW f
  PROVE  Held(f) \in {0, 1} /\ (Held(f) = 1 <=> f.at \in Holding)
BY DEF Held

LEMMA TopStack ==
  ASSUME IInv, frames # <<>>
  PROVE  /\ Top \in Frame /\ Top.base \in Nat /\ Held(Top) \in {0, 1}
         /\ operands \in Seq(Type) /\ ignored \in Nat /\ Level \in Nat
         /\ Len(frames) \in Nat \ {0} /\ Top = frames[Len(frames)]
         /\ Top.at \in Enclosing => Level = ignored
         /\ Top.at \in Waiting => Level = Top.base + Held(Top) /\ Len(frames) > 1
         /\ Len(operands) = Level + Len(Above)
         /\ \A k \in 1 .. Len(Above) : operands[Level + k] = Above[k]
         /\ Top.at \in Holding => operands[Top.base + 1] = Top.type
<1>1. /\ FramesOK /\ Nesting /\ OutputOK /\ OperandsMatchActivations
  BY DEF IInv, Structure, TypeOK
<1>2. Top \in Frame /\ Len(frames) \in Nat \ {0} /\ Top = frames[Len(frames)]
  BY <1>1, TopOK
<1>3. Top.base \in Nat /\ Top.at \in Enclosing \cup Waiting
  BY <1>2 DEF Frame
<1>4. operands \in Seq(Type) /\ ignored \in Nat
  BY <1>1 DEF OutputOK
<1>5. /\ Top.at \in Enclosing => Level = ignored
      /\ Top.at \in Waiting => Level = Top.base + Held(Top)
  BY Kinds DEF Level
<1>6. Top.at \in Waiting => Len(frames) > 1
  BY <1>1, <1>2, Kinds DEF Nesting
<1>7. Top.at \in Holding => operands[Top.base + 1] = Top.type
  BY <1>1, <1>2 DEF OperandsMatchActivations
<1>8. Level \in Nat
  BY <1>3, <1>4, <1>5, HeldOK
<1> QED BY <1>1, <1>2, <1>3, <1>4, <1>5, <1>6, <1>7, <1>8, HeldOK DEF OperandsMatchActivations

(***************************************************************************)
(* The operands after a step: `a` above the first h, which are kept.       *)
(***************************************************************************)
Leads(h, a) == /\ Len(operands') = h + Len(a)
               /\ \A k \in 1 .. h : operands'[k] = operands[k]
               /\ \A k \in 1 .. Len(a) : operands'[h + k] = a[k]

(***************************************************************************)
(* The heart of the proof.  A step keeps the first c activations and may   *)
(* leave one more above them; the operand stack keeps what lies below the  *)
(* height of the c-th.                                                     *)
(***************************************************************************)
LEMMA StackedFrom ==
  ASSUME IInv, NEW c \in 0 .. Len(frames),
         frames' \in Seq(Frame), Len(frames') = c \/ Len(frames') = c + 1,
         \A i \in 1 .. c : frames'[i] = frames[i],
         \/ ignored' = ignored
         \/ c > 0 /\ Len(frames') = c /\ frames[c].at \in Enclosing,
         c > 0 /\ frames[c].at \in Waiting => \A k \in 1 .. Height(c) : operands'[k] = operands[k],
         Len(frames') = c + 1 =>
           /\ frames'[c + 1].at \in Enclosing /\ c > 0 => frames[c].at \in Enclosing
           /\ frames'[c + 1].at \in Waiting => c > 0 /\ frames'[c + 1].base = Height(c)
           /\ frames'[c + 1].at \in Holding =>
                operands'[frames'[c + 1].base + 1] = frames'[c + 1].type,
         Len(operands') = Level' + Len(Above'),
         \A k \in 1 .. Len(Above') : operands'[Level' + k] = Above'[k]
  PROVE  Stacked'
<1>1. /\ BasesAscend /\ OperandsMatchActivations
      /\ frames \in Seq(Frame) /\ Len(frames) \in Nat
  BY DEF IInv, Structure, TypeOK, FramesOK
<1>2. /\ \A i \in 1 .. Len(frames) :
           frames[i].base \in Nat /\ frames[i].at \in Enclosing \cup Waiting
      /\ \A i \in 1 .. Len(frames') :
           frames'[i].base \in Nat /\ frames'[i].at \in Enclosing \cup Waiting
  <2>1. \A f \in Frame : f.base \in Nat /\ f.at \in Enclosing \cup Waiting
    BY DEF Frame
  <2>2. /\ \A i \in 1 .. Len(frames) : frames[i] \in Frame
        /\ \A i \in 1 .. Len(frames') : frames'[i] \in Frame
    BY <1>1
  <2> QED BY <2>1, <2>2
<1>3. ASSUME NEW i \in 1 .. c, frames[i].at \in Waiting
      PROVE  /\ frames[c].at \in Waiting /\ c > 0
             /\ frames[i].base + Held(frames[i]) <= Height(c)
  <2>1. i \in 1 .. Len(frames) /\ c \in 1 .. Len(frames)
    BY <1>1
  <2>2. CASE i = c
    BY <1>2, <1>3, <2>1, <2>2, Kinds, HeldOK DEF Height
  <2>3. CASE i # c
    <3>1. i < c
      BY <2>3
    <3>2. frames[c].at \in Waiting /\ frames[i].base + Held(frames[i]) <= frames[c].base
      BY <1>1, <1>3, <2>1, <3>1 DEF BasesAscend
    <3>3. Height(c) = frames[c].base + Held(frames[c])
      BY <3>2, Kinds DEF Height
    <3>4. /\ frames[i].base \in Nat /\ frames[c].base \in Nat /\ c > 0
          /\ Held(frames[i]) \in {0, 1} /\ Held(frames[c]) \in {0, 1}
      BY <1>2, <2>1, HeldOK
    <3> QED BY <3>2, <3>3, <3>4
  <2> QED BY <2>2, <2>3
<1>4. BasesAscend'
  <2>1. ASSUME NEW i \in 1 .. Len(frames'), NEW j \in 1 .. Len(frames'),
               i < j, frames'[i].at \in Waiting
        PROVE  /\ frames'[j].at \in Waiting
               /\ frames'[i].base + Held(frames'[i]) <= frames'[j].base
    <3>1. i \in 1 .. c /\ frames'[i] = frames[i]
      BY <2>1
    <3>2. CASE j \in 1 .. c
      BY <1>1, <2>1, <3>1, <3>2 DEF BasesAscend
    <3>3. CASE j = c + 1 /\ Len(frames') = c + 1
      <4>1. /\ frames[c].at \in Waiting /\ c > 0
            /\ frames[i].base + Held(frames[i]) <= Height(c)
        BY <1>3, <2>1, <3>1
      <4>2. frames'[j].at \in Waiting
        BY <1>2, <3>3, <4>1, Kinds
      <4> QED BY <3>1, <3>3, <4>1, <4>2
    <3> QED BY <2>1, <3>2, <3>3
  <2> QED BY <2>1 DEF BasesAscend, Held
<1>5. ASSUME NEW i \in 1 .. Len(frames'), frames'[i].at \in Holding
      PROVE  operands'[frames'[i].base + 1] = frames'[i].type
  <2>1. CASE i \in 1 .. c
    <3>1. frames'[i] = frames[i] /\ frames[i].at \in Waiting /\ i \in 1 .. Len(frames)
      BY <1>5, <2>1, Kinds
    <3>2. /\ frames[c].at \in Waiting /\ c > 0
          /\ frames[i].base + 1 <= Height(c)
      BY <1>2, <1>3, <1>5, <2>1, <3>1, HeldOK
    <3>3. Height(c) \in Nat
      <4>1. c \in 1 .. Len(frames)
        BY <1>1, <3>2
      <4>2. frames[c].base \in Nat /\ Held(frames[c]) \in {0, 1}
        BY <1>2, <4>1, HeldOK
      <4> QED BY <3>2, <4>2, Kinds DEF Height
    <3>4. frames[i].base + 1 \in 1 .. Height(c)
      BY <1>2, <3>1, <3>2, <3>3
    <3>5. operands[frames[i].base + 1] = frames[i].type
      BY <1>1, <1>5, <3>1 DEF OperandsMatchActivations
    <3> QED BY <3>1, <3>2, <3>4, <3>5
  <2>2. CASE i = c + 1 /\ Len(frames') = c + 1
    BY <1>5, <2>2
  <2> QED BY <2>1, <2>2
<1>6. ASSUME NEW i \in 1 .. Len(frames'), frames'[i].at \in Waiting, i > 1
      PROVE  frames'[i].base = IF frames'[i - 1].at \in Enclosing THEN ignored'
                               ELSE frames'[i - 1].base + Held(frames'[i - 1])
  <2>1. i - 1 \in 1 .. c /\ frames'[i - 1] = frames[i - 1]
    BY <1>6
  <2>2. CASE i \in 1 .. c
    <3>1. ignored' = ignored
      BY <1>2, <1>3, <1>6, <2>2, Kinds
    <3>2. frames'[i] = frames[i] /\ i \in 1 .. Len(frames)
      BY <2>2
    <3>3. frames[i].base = IF frames[i - 1].at \in Enclosing THEN ignored
                           ELSE frames[i - 1].base + Held(frames[i - 1])
      BY <1>1, <1>6, <3>2 DEF OperandsMatchActivations
    <3> QED BY <2>1, <3>1, <3>2, <3>3
  <2>3. CASE i = c + 1 /\ Len(frames') = c + 1
    BY <1>6, <2>1, <2>3 DEF Height
  <2> QED BY <2>2, <2>3
<1>8. OperandsMatchActivations'
  BY <1>5, <1>6 DEF OperandsMatchActivations, Held
<1> QED BY <1>4, <1>8 DEF Stacked

-----------------------------------------------------------------------------
(***************************************************************************)
(* The things a step does to the activations, and what it must leave on    *)
(* the operand stack for each.                                             *)
(***************************************************************************)

\* Where the activation below the top one goes on.
LEMMA Below ==
  ASSUME IInv, frames # <<>>, NEW c, c = Len(frames) - 1
  PROVE  /\ c \in 0 .. Len(frames) /\ c + 1 = Len(frames)
         /\ c > 0 => frames[c].at \in Parents(Top.at)
         /\ Top.at \in Waiting => c > 0 /\ Height(c) = Top.base
         /\ Top.at \in Enclosing /\ c > 0 => frames[c].at \in Enclosing
<1>1. Nesting /\ FramesOK /\ OperandsMatchActivations
  BY DEF IInv, Structure, TypeOK
<1>2. Len(frames) \in Nat \ {0} /\ Top = frames[Len(frames)]
  BY TopStack
<1>3. c > 0 => frames[c].at \in Parents(Top.at)
  BY <1>1, <1>2 DEF Nesting
<1>4. Top.at \in Waiting => c > 0
  BY <1>2, TopStack
<1>5. Top.at \in Waiting => Height(c) = Top.base
  BY <1>1, <1>2, <1>4 DEF OperandsMatchActivations, Height
<1> QED BY <1>2, <1>3, <1>4, <1>5, Kinds

LEMMA NoneAbove ==
  ASSUME pc' \notin Resulting
  PROVE  Above' = <<>> /\ Len(Above') = 0 /\ \A n \in Nat : n = n + Len(Above')
BY DEF Above, Resulting

LEMMA StackPush ==
  ASSUME IInv, Structure', frames # <<>>, NEW f, Push(f), f.base = Len(operands),
         \/ f.at \in Waiting \ Holding
         \/ f.at \in Enclosing /\ Top.at \in Enclosing,
         pc \notin Resulting, pc' \notin Resulting,
         operands' = operands, ignored' = ignored
  PROVE  Stacked'
<1> DEFINE c == Len(frames)
<1>1. frames \in Seq(Frame) /\ c \in Nat \ {0}
  BY TopStack DEF IInv, Structure, TypeOK, FramesOK
<1>2. /\ frames' \in Seq(Frame) /\ Len(frames') = c + 1
      /\ \A i \in 1 .. c : frames'[i] = frames[i]
      /\ frames'[c + 1] = f
  BY <1>1 DEF Push, Structure, TypeOK, FramesOK
<1>3. Above = <<>> /\ Above' = <<>>
  BY DEF Above, Resulting
<1>4. Len(operands) = Level
  BY <1>3, TopStack
<1>5. Height(c) = Level /\ Top = frames[c]
  BY TopStack DEF Height, Level
<1>6. Level' = Level
  <2>1. frames' # <<>> /\ Top' = f
    BY <1>1, <1>2 DEF Top
  <2>2. CASE f.at \in Waiting \ Holding
    BY <1>4, <2>1, <2>2, Kinds, TopStack DEF Level, Held
  <2>3. CASE f.at \in Enclosing /\ Top.at \in Enclosing
    BY <2>1, <2>3, TopStack DEF Level
  <2> QED BY <2>2, <2>3
<1>7. f.at \in Waiting => frames'[c + 1].base = Height(c)
  BY <1>2, <1>4, <1>5
<1>8. /\ Len(operands') = Level' + Len(Above')
      /\ \A k \in 1 .. Len(Above') : operands'[Level' + k] = Above'[k]
  BY <1>3, <1>4, <1>6, TopStack
<1>9. /\ f.at \notin Holding /\ c \in 0 .. Len(frames)
      /\ f.at \in Enclosing => frames[c].at \in Enclosing
  BY <1>1, <1>5, Kinds
<1> HIDE DEF c
<1> QED BY <1>1, <1>2, <1>7, <1>8, <1>9, StackedFrom

LEMMA StackBecome ==
  ASSUME IInv, Structure', frames # <<>>, NEW f, Become(f),
         Top.at \in Waiting, f.at \in Waiting, f.base = Top.base,
         Leads(f.base + Held(f), Above'),
         f.at \in Holding => operands'[f.base + 1] = f.type,
         ignored' = ignored
  PROVE  Stacked'
<1> DEFINE c == Len(frames) - 1
<1>1. frames \in Seq(Frame) /\ Len(frames) \in Nat \ {0}
  BY TopStack DEF IInv, Structure, TypeOK, FramesOK
<1>2. /\ frames' \in Seq(Frame) /\ Len(frames') = c + 1
      /\ \A i \in 1 .. c : frames'[i] = frames[i]
      /\ frames'[c + 1] = f
  BY <1>1 DEF Become, Structure, TypeOK, FramesOK
<1>3. c \in 0 .. Len(frames) /\ c > 0 /\ Height(c) = Top.base
  BY Below
<1>4. frames' # <<>> /\ Top' = f
  BY <1>1, <1>2 DEF Top
<1>5. Level' = f.base + Held(f)
  BY <1>4, Kinds DEF Level, Held
<1>6. Held(f) \in {0, 1} /\ f.base \in Nat
  BY HeldOK, TopStack
<1>7. \A k \in 1 .. Height(c) : operands'[k] = operands[k]
  BY <1>3, <1>6 DEF Leads
<1> HIDE DEF c
<1> QED BY <1>2, <1>3, <1>5, <1>7, Kinds, StackedFrom DEF Leads

LEMMA StackEnters ==
  ASSUME IInv, Structure', frames # <<>>, NEW f, Become(f),
         Parents(Top.at) \subseteq Enclosing, f.at \in Enclosing,
         Leads(IF Top.at \in Waiting THEN Top.base ELSE ignored, Above'),
         ignored' = ignored
  PROVE  Stacked'
<1> DEFINE c == Len(frames) - 1
<1>1. frames \in Seq(Frame) /\ Len(frames) \in Nat \ {0} /\ ignored \in Nat
      /\ Top.at \in Enclosing \cup Waiting
  BY TopStack DEF IInv, Structure, TypeOK, FramesOK, Frame
<1>2. /\ frames' \in Seq(Frame) /\ Len(frames') = c + 1
      /\ \A i \in 1 .. c : frames'[i] = frames[i]
      /\ frames'[c + 1] = f
  BY <1>1 DEF Become, Structure, TypeOK, FramesOK
<1>3. /\ c \in 0 .. Len(frames)
      /\ c > 0 => frames[c].at \in Enclosing
      /\ Top.at \in Waiting => c > 0 /\ Height(c) = Top.base
  BY Below
<1>4. frames' # <<>> /\ Top' = f
  BY <1>1, <1>2 DEF Top
<1>5. Level' = ignored
  BY <1>4 DEF Level
<1>6. Top.at \in Waiting => Top.base = ignored
  BY <1>3 DEF Height
<1> HIDE DEF c
<1>7. frames'[c + 1].at \notin Waiting /\ frames'[c + 1].at \notin Holding
  BY <1>2, Kinds
<1>8. c > 0 => frames[c].at \notin Waiting
  BY <1>3, Kinds
<1> QED BY <1>2, <1>3, <1>5, <1>6, <1>7, <1>8, StackedFrom DEF Leads

LEMMA StackPop ==
  ASSUME IInv, frames # <<>>, Pop, Top.at \in Waiting,
         Leads(Top.base, Above'), ignored' = ignored
  PROVE  Stacked'
<1> DEFINE c == Len(frames) - 1
<1>1. frames \in Seq(Frame) /\ Len(frames) \in Nat \ {0}
  BY TopStack DEF IInv, Structure, TypeOK, FramesOK
<1>2. c \in 0 .. Len(frames) /\ c > 0 /\ Height(c) = Top.base
  BY Below
<1>3. /\ frames' \in Seq(Frame) /\ Len(frames') = c
      /\ \A i \in 1 .. c : frames'[i] = frames[i]
  BY <1>1, <1>2 DEF Pop
<1>4. frames' # <<>> /\ Top' = frames[c]
  BY <1>2, <1>3 DEF Top
<1>5. Level' = Height(c)
  BY <1>4 DEF Level, Height, Held
<1>6. \A k \in 1 .. Height(c) : operands'[k] = operands[k]
  BY <1>2 DEF Leads
<1> HIDE DEF c
<1> QED BY <1>2, <1>3, <1>5, <1>6, StackedFrom DEF Leads

\* The last activation of a statement, or a block, or the main block, is left;
\* a call made as a statement leaves its result behind.
LEMMA StackLeave ==
  ASSUME IInv, frames # <<>>, Pop,
         Parents(Top.at) \subseteq Enclosing,
         ignored' \in Nat, ignored' = ignored \/ Top.at \in Waiting,
         Len(operands') = ignored', pc' \notin Resulting
  PROVE  Stacked'
<1> DEFINE c == Len(frames) - 1
<1>1. frames \in Seq(Frame) /\ Len(frames) \in Nat \ {0} /\ ignored \in Nat
  BY TopStack DEF IInv, Structure, TypeOK, FramesOK
<1>2. /\ c \in 0 .. Len(frames)
      /\ c > 0 => frames[c].at \in Enclosing
      /\ Top.at \in Waiting => c > 0
  BY Below
<1>3. /\ frames' \in Seq(Frame) /\ Len(frames') = c
      /\ \A i \in 1 .. c : frames'[i] = frames[i]
  <2>1. c \in Nat /\ c <= Len(frames) /\ frames' = SubSeq(frames, 1, c)
    BY <1>1, <1>2 DEF Pop
  <2> HIDE DEF c
  <2> QED BY <1>1, <2>1
<1>4. \/ frames' = <<>>
      \/ frames' # <<>> /\ Top' = frames[c] /\ c > 0
  BY <1>2, <1>3 DEF Top
<1>5. Level' = ignored'
  BY <1>2, <1>4 DEF Level
<1>6. Len(operands') = Level'
  BY <1>5
<1>7. Len(operands') = Level' + Len(Above') /\ Len(Above') = 0
  BY <1>5, <1>6, NoneAbove
<1>8. c > 0 => frames[c].at \notin Waiting
  BY <1>2, Kinds
<1> HIDE DEF c
<1> QED BY <1>2, <1>3, <1>6, <1>7, <1>8, StackedFrom

LEMMA StackSame ==
  ASSUME IInv, frames # <<>>, frames' = frames,
         Leads(Level, Above'), ignored' = ignored
  PROVE  Stacked'
<1> DEFINE c == Len(frames)
<1>1. frames \in Seq(Frame) /\ c \in Nat \ {0}
  BY TopStack DEF IInv, Structure, TypeOK, FramesOK
<1>2. c \in 0 .. Len(frames) /\ Height(c) = Level
  BY <1>1, TopStack DEF Height, Level
<1>3. Level' = Level
  BY DEF Level, Top, Held
<1> HIDE DEF c
<1> QED BY <1>1, <1>2, <1>3, StackedFrom DEF Leads, c

-----------------------------------------------------------------------------
(***************************************************************************)
(* Calls on the operand stack.                                             *)
(***************************************************************************)

\* The operands of the call are what lies above the first h.
Takes(h, op) ==
  /\ Len(operands) = h + Len(Expects(op))
  /\ \A k \in 1 .. Len(Expects(op)) : operands[h + k] = Expects(op)[k]

\* What the abstract stack machine allows the step to do.
Fits == IF status' = "parsing"
          THEN Stack!Applicable(operands, emitted') /\ operands' = After(operands, emitted')
          ELSE operands' = operands

LEMMA SameOps == Stack!Op = Op /\ Stack!NoOp = NoOp
<1>1. Stack!Calls = Calls
  BY DEF Stack!Calls, Stack!Loads, Stack!Binops, Stack!Compares, Stack!Pops, Stack!Silent,
         Calls, Loads, Binops, Compares, Pops, Silent
<1>2. Stack!Type = Type /\ Stack!NoName = NoName /\ Stack!VOID = VOID
  BY DEF Stack!Type, Type, Stack!NoName, NoName, Stack!VOID, VOID
<1> QED BY <1>1, <1>2 DEF Stack!Op, Op, Stack!NoOp, NoOp

LEMMA SameCalls ==
  ASSUME NEW s, NEW op
  PROVE  /\ Stack!After(s, op) = After(s, op)
         /\ Stack!Applicable(s, op) <=>
              /\ Len(Expects(op)) <= Len(s)
              /\ \A i \in 1 .. Len(Expects(op)) :
                   s[Len(s) - Len(Expects(op)) + i] = Expects(op)[i]
<1>1. Stack!Expects(op) = Expects(op)
  BY DEF Stack!Expects, Expects, Stack!Pops, Stack!Binops, Stack!Compares, Pops, Binops, Compares
<1>2. Stack!Leaves(op) = Leaves(op)
  BY DEF Stack!Leaves, Leaves, Stack!Loads, Stack!Binops, Stack!Compares, Loads, Binops, Compares,
         Stack!BOOL, Stack!VOID, BOOL, VOID
<1> QED BY <1>1, <1>2 DEF Stack!After, After, Stack!Applicable

LEMMA Concatenation ==
  ASSUME NEW kept \in Seq(Type), NEW left \in Seq(Type),
         \A k \in 1 .. Len(kept) : kept[k] = operands[k],
         operands' = kept \o left
  PROVE  Leads(Len(kept), left)
<1>1. /\ Len(operands') = Len(kept) + Len(left)
      /\ \A k \in 1 .. Len(kept) : operands'[k] = operands[k]
      /\ \A k \in 1 .. Len(left) : operands'[Len(kept) + k] = left[k]
  OBVIOUS
<1> QED BY <1>1 DEF Leads

LEMMA EmitStack ==
  ASSUME operands \in Seq(Type), NEW op \in Op, NEW h \in Nat, Takes(h, op),
         emitted' = op, operands' = After(operands, op)
  PROVE  Leads(h, Leaves(op)) /\ Stack!Applicable(operands, op)
<1>1. Leaves(op) \in Seq(Type) /\ Len(Leaves(op)) \in Nat
  BY DEF Leaves, Op, Type, BOOL
<1>2. Len(Expects(op)) \in Nat
  BY DEF Expects
<1>3. Stack!Applicable(operands, op)
  BY <1>2, SameCalls DEF Takes
<1>4. operands' = SubSeq(operands, 1, h) \o Leaves(op) /\ h <= Len(operands)
  BY <1>2 DEF After, Takes
<1>5. Leads(h, Leaves(op))
  <2> DEFINE kept == SubSeq(operands, 1, h)
             left == Leaves(op)
  <2>1. kept \in Seq(Type) /\ Len(kept) = h /\ \A k \in 1 .. h : kept[k] = operands[k]
    BY <1>4
  <2>2. operands' = kept \o left /\ left \in Seq(Type)
    BY <1>1, <1>4
  <2> HIDE DEF kept, left
  <2>3. Leads(h, left)
    BY <2>1, <2>2, Concatenation
  <2> QED BY <2>3 DEF left
<1> QED BY <1>3, <1>5

\* A call that takes no operands and leaves none.
LEMMA SilentStack ==
  ASSUME operands \in Seq(Type), NEW op, op.call \in Silent
  PROVE  After(operands, op) = operands /\ Stack!Applicable(operands, op)
<1>1. Expects(op) = <<>> /\ Leaves(op) = <<>>
  BY DEF Expects, Leaves, Silent, Pops, Binops, Compares, Loads
<1>2. After(operands, op) = operands
  BY <1>1 DEF After
<1> QED BY <1>1, <1>2, SameCalls

LEMMA QuietStack ==
  ASSUME IInv, Quiet
  PROVE  operands' = operands /\ ignored' = ignored /\ Fits
<1>1. operands \in Seq(Type) /\ NoOp.call \in Silent
  BY DEF IInv, Structure, TypeOK, OutputOK, NoOp, Silent
<1>2. emitted' = NoOp /\ operands' = operands /\ ignored' = ignored
  BY DEF Quiet
<1> QED BY <1>1, <1>2, SilentStack DEF Fits

\* error() and bug() end it: the operands of a failing call do not matter.
LEMMA StopStack ==
  ASSUME IInv, NEW op, NEW how \in {"accepted", "error", "bug", "uncaught"}, StopsAfter(op, how)
  PROVE  Stacked' /\ Fits
<1>1. UNCHANGED <<frames, operands, ignored, pc, result>> /\ status' = how
  BY DEF StopsAfter
<1>2. Stacked'
  BY <1>1 DEF IInv, Stacked, BasesAscend, OperandsMatchActivations, Level, Above, Top, Held, WalkType
<1>3. Fits
  BY <1>1 DEF Fits
<1> QED BY <1>2, <1>3

LEMMA StopsStack ==
  ASSUME IInv, NEW how \in {"accepted", "error", "bug", "uncaught"}, Stops(how)
  PROVE  Stacked' /\ Fits
BY StopStack DEF Stops

-----------------------------------------------------------------------------
(***************************************************************************)
(* Which operands a call finds at a control point.                         *)
(***************************************************************************)

LEMMA CallMade ==
  ASSUME IInv, Structure', frames # <<>>, status' = "parsing",
         NEW op, emitted' = op, operands' = After(operands, op),
         NEW h \in Nat, Takes(h, op)
  PROVE  Leads(h, Leaves(op)) /\ Fits
<1>1. op \in Op /\ operands \in Seq(Type)
  BY TopStack DEF Structure, TypeOK, OutputOK
<1> QED BY <1>1, EmitStack DEF Fits

LEMMA TakesNone ==
  ASSUME IInv, frames # <<>>, pc \notin Resulting, NEW op, Expects(op) = <<>>
  PROVE  Takes(Level, op) /\ Level \in Nat
<1>1. Len(operands) = Level /\ Level \in Nat
  BY TopStack DEF Above, Resulting
<1> QED BY <1>1 DEF Takes

LEMMA TakesOne ==
  ASSUME IInv, frames # <<>>, pc = "return", NEW op, Expects(op) = <<result.type>>
  PROVE  Takes(Level, op) /\ Level \in Nat
<1>1. Len(operands) = Level + 1 /\ Level \in Nat /\ operands[Level + 1] = result.type
  BY TopStack DEF Above
<1> QED BY <1>1 DEF Takes

LEMMA TakesTwo ==
  ASSUME IInv, frames # <<>>, pc = "return", Top.at \in Holding,
         NEW op, Expects(op) = <<Top.type, result.type>>
  PROVE  Takes(Top.base, op) /\ Top.base \in Nat
<1>1. Len(operands) = Level + 1 /\ operands[Level + 1] = result.type
  BY TopStack DEF Above
<1>2. Level = Top.base + 1 /\ Top.base \in Nat /\ operands[Top.base + 1] = Top.type
  BY TopStack, Kinds, HeldOK
<1>3. Top.base + 1 + 1 = Top.base + 2
  BY <1>2
<1>4. Len(operands) = Top.base + 2 /\ operands[Top.base + 2] = result.type
  BY <1>1, <1>2, <1>3
<1> QED BY <1>2, <1>4 DEF Takes

LEMMA TakesHeld ==
  ASSUME IInv, frames # <<>>, pc \notin Resulting, Top.at \in Holding,
         NEW op, Expects(op) = <<Top.type>>
  PROVE  Takes(Top.base, op) /\ Top.base \in Nat
<1>1. Len(operands) = Level
  BY TopStack DEF Above, Resulting
<1>2. Level = Top.base + 1 /\ Top.base \in Nat /\ operands[Top.base + 1] = Top.type
  BY TopStack, Kinds, HeldOK
<1> QED BY <1>1, <1>2 DEF Takes

\* An activation that waits, with nothing held.
LEMMA NothingHeld ==
  ASSUME IInv, frames # <<>>, Top.at \in Waiting \ Holding
  PROVE  Level = Top.base /\ Held(Top) = 0
BY TopStack, HeldOK

\* What lies where a step makes no call.
LEMMA Keeps ==
  ASSUME IInv, frames # <<>>, operands' = operands
  PROVE  Leads(Level, Above)
BY TopStack DEF Leads

LEMMA KeepsOne ==
  ASSUME IInv, frames # <<>>, operands' = operands, pc = "return"
  PROVE  /\ Leads(Level, <<result.type>>)
         /\ Leads(Level + 1, <<>>)
         /\ operands'[Level + 1] = result.type
<1>1. Len(operands) = Level + 1 /\ operands[Level + 1] = result.type /\ Level \in Nat
  BY TopStack DEF Above
<1> QED BY <1>1 DEF Leads

LEMMA KeepsNone ==
  ASSUME IInv, frames # <<>>, operands' = operands, pc \notin Resulting
  PROVE  Leads(Level, <<>>)
<1>1. Len(operands) = Level /\ Level \in Nat
  BY TopStack DEF Above, Resulting
<1> QED BY <1>1 DEF Leads

-----------------------------------------------------------------------------
(***************************************************************************)
(* Steps that make no call, or one without operands and result.            *)
(***************************************************************************)

\* The call of a step, if any, has no operands and leaves nothing.
Still == operands' = operands /\ ignored' = ignored

LEMMA PushStill ==
  ASSUME IInv, Structure', frames # <<>>, Still,
         NEW f, Push(f), f.base = Len(operands),
         \/ f.at \in Waiting \ Holding
         \/ f.at \in Enclosing /\ Top.at \in Enclosing,
         pc \notin Resulting, pc' \notin Resulting
  PROVE  Stacked'
BY StackPush DEF Still

LEMMA BecomeStill ==
  ASSUME IInv, Structure', frames # <<>>, Still,
         NEW f, Become(f), f.base = Top.base,
         Top.at \in Waiting \ Holding, f.at \in Waiting \ Holding,
         pc \notin Resulting, pc' \notin Resulting
  PROVE  Stacked'
<1>1. Leads(Top.base, <<>>) /\ Held(f) = 0 /\ Top.base \in Nat
  BY KeepsNone, NothingHeld, TopStack DEF Still, Held
<1>2. Leads(f.base + Held(f), Above')
  BY <1>1, NoneAbove
<1> QED BY <1>2, StackBecome DEF Still

\* What was returned is held by the activation below.
LEMMA BecomeHolds ==
  ASSUME IInv, Structure', frames # <<>>, Still,
         NEW f, Become(f), f.base = Top.base, f.type = result.type,
         Top.at \in Waiting \ Holding, f.at \in Holding,
         pc = "return", pc' \notin Resulting
  PROVE  Stacked'
<1>1. Level = Top.base /\ Held(f) = 1 /\ f.at \in Waiting
  BY NothingHeld, Kinds DEF Held
<1>2. Leads(f.base + Held(f), Above') /\ operands'[f.base + 1] = f.type
  BY <1>1, KeepsOne, NoneAbove DEF Still
<1> QED BY <1>1, <1>2, StackBecome DEF Still

LEMMA PopStill ==
  ASSUME IInv, Structure', frames # <<>>, Still, Pop, Top.at \in Waiting \ Holding,
         \/ pc \notin Resulting /\ pc' \notin Resulting
         \/ pc = "return" /\ pc' = "return" /\ result' = result
  PROVE  Stacked'
<1>1. Level = Top.base
  BY NothingHeld
<1>2. CASE pc \notin Resulting /\ pc' \notin Resulting
  BY <1>1, <1>2, KeepsNone, NoneAbove, StackPop DEF Still
<1>3. CASE pc = "return" /\ pc' = "return" /\ result' = result
  <2>1. Above' = <<result.type>>
    BY <1>3 DEF Above
  <2> QED BY <1>1, <1>3, <2>1, KeepsOne, StackPop DEF Still
<1> QED BY <1>2, <1>3

LEMMA SameStill ==
  ASSUME IInv, frames # <<>>, Still, frames' = frames,
         pc \notin Resulting, pc' \notin Resulting
  PROVE  Stacked'
BY KeepsNone, NoneAbove, StackSame DEF Still

\* A block, or the last activation of a statement, is left between two statements.
LEMMA LeaveStill ==
  ASSUME IInv, frames # <<>>, Still, Pop, Top.at \in Enclosing,
         pc \notin Resulting, pc' \notin Resulting
  PROVE  Stacked'
<1>1. Len(operands) = ignored /\ ignored \in Nat /\ ignored' \in Nat
  BY TopStack DEF Above, Resulting, Still
<1> QED BY <1>1, Kinds, StackLeave DEF Still

LEMMA QuietStill ==
  ASSUME IInv, Quiet
  PROVE  Still /\ Fits
BY QuietStack DEF Still

LEMMA SilentStill ==
  ASSUME IInv, status' = "parsing", NEW op, op.call \in Silent, Emit(op)
  PROVE  Still /\ Fits
<1>1. operands \in Seq(Type)
  BY DEF IInv, Structure, TypeOK, OutputOK
<1>2. After(operands, op) = operands /\ Stack!Applicable(operands, op)
  BY <1>1, SilentStack
<1> QED BY <1>2 DEF Emit, Still, Fits

-----------------------------------------------------------------------------
(***************************************************************************)
(* Steps that make a call.                                                 *)
(***************************************************************************)

LEMMA YieldsAbove ==
  ASSUME NEW t, Yields(t)
  PROVE  Above' = <<t>> /\ pc' = "return" /\ status' = status
BY DEF Yields, Returns, Above

\* The function that returns pushed its value.
LEMMA SameCall ==
  ASSUME IInv, Structure', status' = "parsing", frames # <<>>, frames' = frames,
         NEW op, Emit(op), NEW t, Leaves(op) = <<t>>, Yields(t),
         \/ pc \notin Resulting /\ Expects(op) = <<>>
         \/ pc = "return" /\ Expects(op) = <<result.type>>
  PROVE  Stacked' /\ Fits
<1>1. Takes(Level, op) /\ Level \in Nat
  BY TakesNone, TakesOne
<1>2. Leads(Level, Leaves(op)) /\ Fits
  BY <1>1, CallMade DEF Emit
<1> QED BY <1>2, YieldsAbove, StackSame DEF Emit

\* A function returns: the values it took are replaced by its own.
LEMMA PopCall ==
  ASSUME IInv, Structure', status' = "parsing", frames # <<>>, Pop,
         Top.at \in Waiting, NEW op, Emit(op), Leaves(op) = Above',
         \/ pc \notin Resulting /\ Top.at \notin Holding /\ Expects(op) = <<>>
         \/ pc = "return" /\ Top.at \notin Holding /\ Expects(op) = <<result.type>>
         \/ pc = "return" /\ Top.at \in Holding /\ Expects(op) = <<Top.type, result.type>>
         \/ pc \notin Resulting /\ Top.at \in Holding /\ Expects(op) = <<Top.type>>
  PROVE  Stacked' /\ Fits
<1>1. Takes(Top.base, op) /\ Top.base \in Nat
  BY TakesNone, TakesOne, TakesTwo, TakesHeld, NothingHeld
<1>2. Leads(Top.base, Leaves(op)) /\ Fits
  BY <1>1, CallMade DEF Emit
<1> QED BY <1>2, StackPop DEF Emit

LEMMA BecomeCall ==
  ASSUME IInv, Structure', status' = "parsing", frames # <<>>,
         NEW f, Become(f), f.base = Top.base,
         Top.at \in Waiting, f.at \in Waiting \ Holding,
         NEW op, Emit(op), Leaves(op) = Above',
         \/ pc = "return" /\ Top.at \notin Holding /\ Expects(op) = <<result.type>>
         \/ pc = "return" /\ Top.at \in Holding /\ Expects(op) = <<Top.type, result.type>>
  PROVE  Stacked' /\ Fits
<1>1. Takes(Top.base, op) /\ Top.base \in Nat
  BY TakesOne, TakesTwo, NothingHeld
<1>2. Leads(Top.base, Leaves(op)) /\ Fits
  BY <1>1, CallMade DEF Emit
<1>3. Leads(f.base + Held(f), Above')
  BY <1>1, <1>2 DEF Held
<1> QED BY <1>2, <1>3, StackBecome DEF Emit

\* The value of a condition or a bound is consumed, and a body entered.
LEMMA EntersCall ==
  ASSUME IInv, Structure', status' = "parsing", frames # <<>>,
         NEW f, Become(f), f.at \in Enclosing, Parents(Top.at) \subseteq Enclosing,
         Top.at \in Waiting \ Holding, pc = "return", pc' \notin Resulting,
         NEW op, Emit(op), Leaves(op) = <<>>, Expects(op) = <<result.type>>
  PROVE  Stacked' /\ Fits
<1>1. Takes(Top.base, op) /\ Top.base \in Nat
  BY TakesOne, NothingHeld
<1>2. Leads(Top.base, Leaves(op)) /\ Fits
  BY <1>1, CallMade DEF Emit
<1> QED BY <1>2, NoneAbove, StackEnters DEF Emit

\* What the calls of each kind pop and push.
LEMMA CallKinds ==
  ASSUME NEW op
  PROVE  /\ op.call \in Loads => Expects(op) = <<>> /\ Leaves(op) = <<op.type>>
         /\ op.call \in Binops => Expects(op) = <<op.type, op.type>> /\ Leaves(op) = <<op.type>>
         /\ op.call \in Compares => Expects(op) = <<op.type, op.type>> /\ Leaves(op) = <<BOOL>>
         /\ op.call \in Pops => Expects(op) = <<op.type>> /\ Leaves(op) = <<>>
         /\ op.call = "alu_not_bool" => Expects(op) = <<op.type>> /\ Leaves(op) = <<op.type>>
         /\ op.call \in {"convert", "load_value_from_pointer"} =>
              Expects(op) = <<op.type>> /\ Leaves(op) = <<op.dest>>
         /\ op.call = "store_value_to_pointer" =>
              Expects(op) = <<op.type, op.dest>> /\ Leaves(op) = <<>>
         /\ op.call = "function_call_finalize" =>
              Expects(op) = <<>> /\ Leaves(op) = IF op.type # VOID THEN <<op.type>> ELSE <<>>
BY DEF Expects, Leaves, Loads, Binops, Compares, Pops

LEMMA OpParts ==
  ASSUME NEW call, NEW t
  PROVE  /\ OpOf(call, t).call = call /\ OpOf(call, t).type = t
         /\ \A d : /\ OpTo(call, t, d).call = call /\ OpTo(call, t, d).type = t
                   /\ OpTo(call, t, d).dest = d
         /\ \A x : OpNamed(call, t, x).call = call /\ OpNamed(call, t, x).type = t
         /\ \A n : /\ OpTag(call, n).call = call
                   /\ [OpOf(call, t) EXCEPT !.n = n].call = call
                   /\ [OpOf(call, t) EXCEPT !.n = n].type = t
         /\ \A n, x : /\ [OpNamed(call, t, x) EXCEPT !.n = n].call = call
                      /\ [OpNamed(call, t, x) EXCEPT !.n = n].type = t
BY DEF OpOf, OpTo, OpNamed, OpTag, NoOp

\* No value has the type ARITHMETIC: types of values match only if they are equal.
LEMMA ValuesMatch ==
  ASSUME Structure, NEW a, NEW b \in Valid, Matches(a, b)
  PROVE  a = b
<1>1. ARITHMETIC \notin Concrete
  BY DEF ARITHMETIC, Concrete, Arithmetic, Integral, Floating, UNSIGNED_INT, DOUBLE, BOOL, CHAR
<1>2. ARITHMETIC \notin DOMAIN m_user_types
  BY DEF Structure, TableKept, PointerTypesAreUnique, PointerTableOK, ARITHMETIC, FIRST_USER_DEFINED
<1> QED BY <1>1, <1>2 DEF Valid, Matches

LEMMA StackAt ==
  ASSUME IInv, NEW p, NEW at, At(p, at)
  PROVE  /\ frames # <<>> /\ Top.at = at /\ pc = p /\ Top \in Frame /\ Resolved(Top)
         /\ status = "parsing"
BY AtOK DEF IInv, At

LEMMA StackEntersAt ==
  ASSUME IInv, NEW p, Enters(p), p # "end"
  PROVE  frames # <<>> /\ Top.at \in RunsIn(p) /\ pc = p /\ Top \in Frame /\ status = "parsing"
BY EntersOK DEF IInv, Enters

LEMMA NewActivation ==
  ASSUME NEW at
  PROVE  /\ Activation(at).at = at /\ Activation(at).base = Len(operands)
         /\ \A x : /\ [Activation(at) EXCEPT !.name = x].at = at
                   /\ [Activation(at) EXCEPT !.name = x].base = Len(operands)
         /\ \A n : /\ [Activation(at) EXCEPT !.n = n].at = at
                   /\ [Activation(at) EXCEPT !.n = n].base = Len(operands)
BY DEF Activation

-----------------------------------------------------------------------------
(***************************************************************************)
(* Expressions.                                                            *)
(***************************************************************************)

LEMMA DescendStack ==
  ASSUME IInv, Structure',
         NEW from \in ValuePoints \ {"return"}, NEW at \in {"expr", "simple", "term", "factor"},
         NEW to \in ValuePoints \ {"return"},
         Descend(from, at, to)
  PROVE  Stacked' /\ Fits
<1>1. Enters(from) /\ Push(Activation(at)) /\ pc' = to /\ Quiet
  BY DEF Descend, Goto
<1>2. frames # <<>> /\ pc = from
  BY <1>1, StackEntersAt DEF ValuePoints
<1>3. at \in Waiting \ Holding /\ from \notin Resulting /\ to \notin Resulting
  BY DEF Waiting, Holding, Resulting, ValuePoints
<1> QED BY <1>1, <1>2, <1>3, NewActivation, QuietStill, PushStill

LEMMA ParseNestedStack ==
  ASSUME IInv, Structure', ParseNested
  PROVE  Stacked' /\ Fits
<1>1. Enters("dereferencable") /\ Quiet
  BY DEF ParseNested
<1>2. frames # <<>> /\ pc = "dereferencable" /\ Still /\ Fits
  BY <1>1, StackEntersAt, QuietStill
<1>3. pc \notin Resulting /\ pc' \notin Resulting
  BY <1>2 DEF ParseNested, Goto, Resulting
<1>4. CASE UNCHANGED frames
  BY <1>2, <1>3, <1>4, SameStill
<1>5. ASSUME NEW f, NEW at \in {"paren", "not", "cast", "identifier"},
             Push(f), f.at = at, f.base = Len(operands)
      PROVE  Stacked'
  <2>1. f.at \in Waiting \ Holding
    BY <1>5 DEF Waiting, Holding
  <2> QED BY <1>2, <1>3, <1>5, <2>1, PushStill
<1> QED BY <1>2, <1>4, <1>5, NewActivation DEF ParseNested

LEMMA ParseLiteralStack ==
  ASSUME IInv, Structure', ParseLiteral
  PROVE  Stacked' /\ Fits
<1> DEFINE op == OpOf("load_i64", Literal[tok])
<1>1. frames # <<>> /\ pc \notin Resulting /\ status = "parsing"
  BY StackEntersAt DEF ParseLiteral, Resulting
<1>2. Expects(op) = <<>> /\ Leaves(op) = <<Literal[tok]>>
  BY OpParts, CallKinds DEF Loads
<1> HIDE DEF op
<1>3. CASE Emit(op) /\ Yields(Literal[tok]) /\ UNCHANGED frames
  BY <1>1, <1>2, <1>3, YieldsAbove, SameCall
<1> QED BY <1>3, StopsStack DEF ParseLiteral, op

LEMMA CloseParenthesisStack ==
  ASSUME IInv, Structure', CloseParenthesis
  PROVE  Stacked' /\ Fits
<1>1. At("return", "paren")
  BY DEF CloseParenthesis
<1>2. frames # <<>> /\ pc = "return" /\ Top.at \in Waiting \ Holding
  BY <1>1, StackAt DEF Waiting, Holding
<1>3. CASE Pop /\ Returns("return", result) /\ Quiet
  BY <1>2, <1>3, QuietStill, PopStill DEF Returns
<1> QED BY <1>3, StopsStack DEF CloseParenthesis, Checked

LEMMA NotOperandStack ==
  ASSUME IInv, Structure', NotOperand
  PROVE  Stacked' /\ Fits
<1> DEFINE op == OpOf("alu_not_bool", BOOL)
<1>1. At("return", "not")
  BY DEF NotOperand
<1>2. /\ frames # <<>> /\ pc = "return" /\ Top.at \in Waiting \ Holding
      /\ status = "parsing"
  BY <1>1, StackAt DEF Waiting, Holding
<1>3. CASE Matches(result.type, BOOL) /\ Emit(op) /\ Pop /\ Yields(BOOL)
  <2>1. result.type = BOOL
    BY <1>3 DEF Matches, BOOL, ARITHMETIC
  <2>2. Expects(op) = <<result.type>> /\ Leaves(op) = <<BOOL>>
    BY <2>1, OpParts, CallKinds
  <2> HIDE DEF op
  <2> QED BY <1>2, <1>3, <2>2, YieldsAbove, PopCall
<1> QED BY <1>3, StopsStack DEF NotOperand, Checked

LEMMA VariableReferenceStack ==
  ASSUME IInv, Structure', VariableReference
  PROVE  Stacked' /\ Fits
<1> DEFINE pointer == PointerTo(m_user_types, m_first_free_type, VarType[tok])
           op == OpNamed("load_pointer_to_variable", pointer, tok)
<1>1. frames # <<>> /\ pc \notin Resulting /\ status = "parsing"
  BY StackEntersAt DEF VariableReference, Resulting
<1>2. Expects(op) = <<>> /\ Leaves(op) = <<pointer>>
  <2>1. op.call = "load_pointer_to_variable" /\ op.type = pointer
    BY DEF OpNamed, NoOp
  <2> HIDE DEF op
  <2> QED BY <2>1, CallKinds DEF Loads
<1> HIDE DEF op
<1>3. CASE Emit(op) /\ Yields(pointer) /\ UNCHANGED frames
  BY <1>1, <1>2, <1>3, YieldsAbove, SameCall
<1> QED BY <1>3, StopsStack DEF VariableReference, Checked, op

LEMMA VariableUsageStack ==
  ASSUME IInv, Structure', VariableUsage
  PROVE  Stacked' /\ Fits
<1> DEFINE type == VarType[Top.name]
           op == OpNamed("load_variable", type, Top.name)
<1>1. At("factor_identifier", "identifier")
  BY DEF VariableUsage
<1>2. /\ frames # <<>> /\ pc \notin Resulting /\ Top.at \in Waiting \ Holding
      /\ status = "parsing"
  BY <1>1, StackAt DEF Waiting, Holding, Resulting
<1>3. Expects(op) = <<>> /\ Leaves(op) = <<type>>
  <2>1. op.call = "load_variable" /\ op.type = type
    BY DEF OpNamed, NoOp
  <2> HIDE DEF op
  <2> QED BY <2>1, CallKinds DEF Loads
<1> HIDE DEF op
<1>4. CASE Emit(op) /\ Pop /\ Yields(type)
  BY <1>2, <1>3, <1>4, YieldsAbove, PopCall
<1> QED BY <1>4, StopsStack DEF VariableUsage, Checked, op

LEMMA DereferenceStack ==
  ASSUME IInv, Structure', Dereference
  PROVE  Stacked' /\ Fits
<1> DEFINE target == m_user_types[result.type]
           op == OpTo("load_value_from_pointer", result.type, target)
<1>1. At("return", "factor")
  BY DEF Dereference
<1>2. frames # <<>> /\ pc = "return" /\ status = "parsing"
  BY <1>1, StackAt
<1>3. Expects(op) = <<result.type>> /\ Leaves(op) = <<target>>
  <2>1. op.call = "load_value_from_pointer" /\ op.type = result.type /\ op.dest = target
    BY DEF OpTo, NoOp
  <2> HIDE DEF op
  <2> QED BY <2>1, CallKinds
<1> HIDE DEF op
<1>4. CASE Emit(op) /\ Yields(target) /\ UNCHANGED frames
  BY <1>2, <1>3, <1>4, YieldsAbove, SameCall
<1> QED BY <1>4, StopsStack DEF Dereference, Checked, op

LEMMA LoopEndsStack ==
  ASSUME IInv, Structure', NEW at \in {"factor", "term", "simple", "expr"}, NEW operators,
         LoopEnds(at, operators)
  PROVE  Stacked' /\ Fits
<1>1. At("return", at) /\ Pop /\ Returns("return", result) /\ Quiet
  BY DEF LoopEnds
<1>2. frames # <<>> /\ pc = "return" /\ Top.at \in Waiting \ Holding
  BY <1>1, StackAt DEF Waiting, Holding
<1> QED BY <1>1, <1>2, QuietStill, PopStill DEF Returns

LEMMA OperatorStack ==
  ASSUME IInv, Structure', NEW operators,
         NEW at \in {"term", "simple", "expr"}, NEW rhs \in {"term_rhs", "simple_rhs", "expr_rhs"},
         NEW operand \in {"factor", "term", "simple_expression"},
         Operator(at, operators, rhs, operand)
  PROVE  Stacked' /\ Fits
<1> DEFINE f == [Top EXCEPT !.at = rhs, !.type = result.type, !.op = tok]
<1>1. At("return", at) /\ Become(f) /\ Goto(operand) /\ Quiet
  BY DEF Operator
<1>2. frames # <<>> /\ pc = "return" /\ Top.at \in Waiting \ Holding /\ Top \in Frame
  BY <1>1, StackAt DEF Waiting, Holding
<1>3. f.at \in Holding /\ f.base = Top.base /\ f.type = result.type
  BY <1>2 DEF Frame, Holding
<1>4. pc' \notin Resulting
  BY <1>1 DEF Goto, Resulting
<1> HIDE DEF f
<1> QED BY <1>1, <1>2, <1>3, <1>4, QuietStill, BecomeHolds

LEMMA CombineStack ==
  ASSUME IInv, Structure', NEW rhs, NEW at, NEW call,
         \/ rhs = "term_rhs" /\ at = "term" /\ call = MulopCall
         \/ rhs = "simple_rhs" /\ at = "simple" /\ call = AddopCall,
         Combine(rhs, at, call)
  PROVE  Stacked' /\ Fits
<1> DEFINE f == [Top EXCEPT !.at = at, !.type = VOID, !.op = NoOperator]
           op == OpOf(call[Top.op], Top.type)
<1>1. At("return", rhs)
  BY DEF Combine
<1>2. /\ frames # <<>> /\ pc = "return" /\ Top.at = rhs /\ Top \in Frame /\ Resolved(Top)
      /\ status = "parsing"
  BY <1>1, StackAt
<1>3. Top.at \in Holding /\ Top.at \in Waiting /\ result.type \in Valid
  BY <1>2 DEF Holding, Waiting, IInv, Structure, ResultResolved
<1>4. call[Top.op] \in Binops
  BY <1>2 DEF Resolved, MulopCall, AddopCall, Binops
<1>5. op.call \in Binops /\ op.type = Top.type
  BY <1>4, OpParts
<1>6. f.at \in Waiting \ Holding /\ f.base = Top.base
  BY <1>2 DEF Frame, Waiting, Holding
<1>7. CASE OperandsMatch(Top.type, result.type, Top.op) /\ Emit(op) /\ Become(f) /\ Yields(Top.type)
  <2>1. Top.type = result.type
    BY <1>3, <1>7, ValuesMatch DEF OperandsMatch, IInv
  <2> HIDE DEF op, f
  <2>2. Expects(op) = <<Top.type, result.type>> /\ Leaves(op) = <<Top.type>>
    BY <1>5, <2>1, CallKinds
  <2> QED BY <1>2, <1>3, <1>6, <1>7, <2>2, YieldsAbove, BecomeCall
<1> QED BY <1>7, StopsStack DEF Combine, Checked

LEMMA CompareStack ==
  ASSUME IInv, Structure', Compare
  PROVE  Stacked' /\ Fits
<1> DEFINE op == [OpOf(RelopCall[Top.op], Top.type) EXCEPT !.n = m_label_tag']
<1>1. At("return", "expr_rhs")
  BY DEF Compare
<1>2. /\ frames # <<>> /\ pc = "return" /\ Top.at = "expr_rhs" /\ Resolved(Top)
      /\ status = "parsing"
  BY <1>1, StackAt
<1>3. Top.at \in Holding /\ Top.at \in Waiting /\ result.type \in Valid
  BY <1>2 DEF Holding, Waiting, IInv, Structure, ResultResolved
<1>4. RelopCall[Top.op] \in Compares
  BY <1>2 DEF Resolved, RelopCall, Compares
<1>5. op.call \in Compares /\ op.type = Top.type
  BY <1>4, OpParts
<1>6. CASE Matches(Top.type, result.type) /\ Emit(op) /\ Pop /\ Yields(BOOL)
  <2>1. Top.type = result.type
    BY <1>3, <1>6, ValuesMatch DEF IInv
  <2> HIDE DEF op
  <2>2. Expects(op) = <<Top.type, result.type>> /\ Leaves(op) = <<BOOL>>
    BY <1>5, <2>1, CallKinds
  <2> QED BY <1>2, <1>3, <1>6, <2>2, YieldsAbove, PopCall
<1> QED BY <1>6, StopsStack DEF Compare, Checked

LEMMA CastToStack ==
  ASSUME IInv, Structure', CastTo
  PROVE  Stacked' /\ Fits
<1> DEFINE f == [Top EXCEPT !.at = "cast_to", !.type = result.type]
<1>1. At("return", "cast")
  BY DEF CastTo
<1>2. frames # <<>> /\ pc = "return" /\ Top.at \in Waiting \ Holding /\ Top \in Frame
  BY <1>1, StackAt DEF Waiting, Holding
<1>3. f.at \in Holding /\ f.base = Top.base /\ f.type = result.type
  BY <1>2 DEF Frame, Holding
<1>4. CASE Become(f) /\ Goto("type") /\ Quiet
  <2>1. pc' \notin Resulting
    BY <1>4 DEF Goto, Resulting
  <2> HIDE DEF f
  <2> QED BY <1>2, <1>3, <1>4, <2>1, QuietStill, BecomeHolds
<1> QED BY <1>4, StopsStack DEF CastTo, Checked

LEMMA ParseTypeStack ==
  ASSUME IInv, Structure', ParseNamedType \/ ParsePointerType \/ PointerTypeDone
  PROVE  Stacked' /\ Fits
<1>1. CASE ParseNamedType
  <2>1. frames # <<>> /\ pc \notin Resulting
    BY <1>1, StackEntersAt DEF ParseNamedType, Resulting
  <2>2. Quiet /\ frames' = frames /\ pc' \notin Resulting
    BY <1>1 DEF ParseNamedType, Returns, Resulting
  <2> QED BY <2>1, <2>2, QuietStill, SameStill
<1>2. CASE ParsePointerType
  <2>1. frames # <<>> /\ pc \notin Resulting
    BY <1>2, StackEntersAt DEF ParsePointerType, Resulting
  <2>2. Quiet /\ Push(Activation("pointer_type")) /\ pc' \notin Resulting
    BY <1>2 DEF ParsePointerType, Goto, Resulting
  <2>3. "pointer_type" \in Waiting \ Holding
    BY DEF Waiting, Holding
  <2> QED BY <2>1, <2>2, <2>3, NewActivation, QuietStill, PushStill
<1>3. CASE PointerTypeDone
  <2>1. frames # <<>> /\ pc \notin Resulting /\ Top.at \in Waiting \ Holding
    BY <1>3, StackAt DEF PointerTypeDone, Resulting, Waiting, Holding
  <2>2. Quiet /\ Pop /\ pc' \notin Resulting
    BY <1>3 DEF PointerTypeDone, Returns, Resulting
  <2> QED BY <2>1, <2>2, QuietStill, PopStill
<1> QED BY <1>1, <1>2, <1>3

LEMMA ConvertStack ==
  ASSUME IInv, Structure', Convert
  PROVE  Stacked' /\ Fits
<1> DEFINE op == OpTo("convert", Top.type, result.type)
<1>1. At("type_done", "cast_to")
  BY DEF Convert
<1>2. /\ frames # <<>> /\ pc \notin Resulting /\ Top.at \in Holding /\ Top.at \in Waiting
      /\ status = "parsing"
  BY <1>1, StackAt DEF Waiting, Holding, Resulting
<1>3. Expects(op) = <<Top.type>> /\ Leaves(op) = <<result.type>>
  <2>1. op.call = "convert" /\ op.type = Top.type /\ op.dest = result.type
    BY DEF OpTo, NoOp
  <2> HIDE DEF op
  <2> QED BY <2>1, CallKinds
<1> HIDE DEF op
<1>4. CASE Emit(op) /\ Pop /\ Yields(result.type)
  BY <1>2, <1>3, <1>4, YieldsAbove, PopCall
<1> QED BY <1>4, StopsStack DEF Convert, Checked, op

LEMMA ExpressionStack ==
  ASSUME IInv, Structure', ExpressionStep
  PROVE  Stacked' /\ Fits
<1>1. CASE ParseExpression \/ ParseSimpleExpression \/ ParseTerm \/ ParseFactor
  BY <1>1, DescendStack
     DEF ParseExpression, ParseSimpleExpression, ParseTerm, ParseFactor, ValuePoints
<1>2. CASE EndFactor \/ EndTerm \/ EndSimpleExpression \/ EndExpression
  BY <1>2, LoopEndsStack DEF EndFactor, EndTerm, EndSimpleExpression, EndExpression
<1>3. CASE Mulop \/ Addop \/ Relop
  BY <1>3, OperatorStack DEF Mulop, Addop, Relop
<1>4. CASE CombineTerm \/ CombineSimple
  BY <1>4, CombineStack DEF CombineTerm, CombineSimple
<1>5. CASE ExpectedExpression \/ ExpectedType
  BY <1>5, StopsStack DEF ExpectedExpression, ExpectedType
<1> QED
  BY <1>1, <1>2, <1>3, <1>4, <1>5, ParseNestedStack, ParseLiteralStack, CloseParenthesisStack,
     NotOperandStack, VariableReferenceStack, VariableUsageStack, DereferenceStack, CompareStack,
     CastToStack, ParseTypeStack, ConvertStack
  DEF ExpressionStep

-----------------------------------------------------------------------------
(***************************************************************************)
(* Function calls.                                                         *)
(***************************************************************************)

LEMMA BeginCallStack ==
  ASSUME IInv, Structure', NEW p, NEW from, NEW at,
         \/ p = "factor_identifier" /\ from = "identifier" /\ at = "call"
         \/ p = "statement_identifier" /\ from = "statement_name" /\ at = "call_statement",
         BeginCall(p, from, at)
  PROVE  Stacked' /\ Fits
<1> DEFINE f == [Top EXCEPT !.at = at]
<1>1. At(p, from)
  BY DEF BeginCall
<1>2. /\ frames # <<>> /\ pc \notin Resulting /\ Top.at \in Waiting \ Holding /\ Top \in Frame
  BY <1>1, StackAt DEF Waiting, Holding, Resulting
<1>3. f.at \in Waiting \ Holding /\ f.base = Top.base
  BY <1>2 DEF Frame, Waiting, Holding
<1> HIDE DEF f
<1>4. CASE Become(f) /\ Goto("call_args") /\ Quiet
  BY <1>2, <1>3, <1>4, QuietStill, BecomeStill DEF Goto, Resulting
<1> QED BY <1>4, StopsStack DEF BeginCall, Checked, f

LEMMA CallArgsStack ==
  ASSUME IInv, Structure', CallArgs \/ CallArg
  PROVE  Stacked' /\ Fits
<1>1. frames # <<>> /\ pc \notin Resulting
  BY StackEntersAt DEF CallArgs, CallArg, Resulting
<1>2. ASSUME Quiet, frames' = frames, pc' \in {"call_finish", "call_arg", "expression"}
      PROVE  Stacked' /\ Fits
  BY <1>1, <1>2, QuietStill, SameStill DEF Resulting
<1> QED BY <1>2, StopsStack DEF CallArgs, CallArg, Checked, Goto

LEMMA CallParamStack ==
  ASSUME IInv, Structure', CallParam
  PROVE  Stacked' /\ Fits
<1> DEFINE f == [Top EXCEPT !.n = @ + 1,
                   !.regs = IF IsRegular(result.type) THEN @ + 1 ELSE @,
                   !.xmms = IF IsRegular(result.type) THEN @ ELSE @ + 1]
           op == [OpOf("function_call_param", result.type)
                    EXCEPT !.n = ArgumentIndex(Top, result.type)]
<1>1. Enters("return") /\ InCall
  BY DEF CallParam
<1>2. /\ frames # <<>> /\ pc = "return" /\ Top.at \in Waiting \ Holding /\ Top \in Frame
      /\ status = "parsing"
  BY <1>1, StackEntersAt DEF InCall, Waiting, Holding
<1>3. f.at = Top.at /\ f.base = Top.base
  BY <1>2 DEF Frame
<1>4. op.call \in Pops /\ op.type = result.type
  BY OpParts DEF Pops
<1> HIDE DEF f, op
<1>5. Expects(op) = <<result.type>> /\ Leaves(op) = <<>>
  BY <1>4, CallKinds
<1>6. ASSUME Emit(op), Become(f), Goto("call_arg") \/ Goto("call_finish")
      PROVE  Stacked' /\ Fits
  <2>1. pc' \notin Resulting /\ status' = "parsing"
    BY <1>2, <1>6 DEF Goto, Resulting
  <2> QED BY <1>2, <1>3, <1>5, <1>6, <2>1, NoneAbove, BecomeCall
<1> QED BY <1>6, StopsStack DEF CallParam, Checked, f, op

LEMMA CallFinishStack ==
  ASSUME IInv, Structure', CallFinish
  PROVE  Stacked' /\ Fits
<1> DEFINE type == FunReturn[Top.name]
           call == OpNamed("function_call_finalize", type, Top.name)
<1>1. Enters("call_finish") /\ InCall
  BY DEF CallFinish
<1>2. /\ frames # <<>> /\ pc \notin Resulting /\ Top.at \in Waiting \ Holding
      /\ Top.at \in InACall /\ status = "parsing" /\ Resolved(Top)
  BY <1>1, StackEntersAt, EntersOK DEF InCall, InACall, Waiting, Holding, Resulting, IInv
<1>3. Expects(call) = <<>> /\ Leaves(call) = IF type # VOID THEN <<type>> ELSE <<>>
  <2>1. call.call = "function_call_finalize" /\ call.type = type
    BY DEF OpNamed, NoOp
  <2> HIDE DEF call
  <2> QED BY <2>1, CallKinds
<1> HIDE DEF call
<1>4. CASE Top.at = "call" /\ Emit(call) /\ Yields(type) /\ Pop
  <2>1. type # VOID
    BY <1>2, <1>4 DEF Resolved
  <2> QED BY <1>2, <1>3, <1>4, <2>1, YieldsAbove, PopCall
<1>5. CASE /\ Top.at = "call_statement" /\ Pop /\ Done
           /\ emitted' = call /\ operands' = After(operands, call)
           /\ ignored' = ignored + Len(Leaves(call))
  <2>1. status' = "parsing" /\ pc' \notin Resulting
    BY <1>2, <1>5 DEF Done, Goto, Resulting
  <2>2. Takes(Level, call) /\ Level = Top.base /\ Level \in Nat
    BY <1>2, <1>3, TakesNone, NothingHeld
  <2>3. Leads(Level, Leaves(call)) /\ Fits
    BY <1>2, <1>5, <2>1, <2>2, CallMade
  <2>4. Parents(Top.at) \subseteq Enclosing
    BY <1>5, CallTables
  <2>5. Top.base = ignored
    BY <1>2, <2>4, Below DEF Height
  <2>6. Len(operands') = ignored' /\ ignored' \in Nat
    BY <1>3, <1>5, <2>2, <2>3, <2>5 DEF Leads
  <2> QED BY <1>2, <1>5, <2>1, <2>3, <2>4, <2>6, StackLeave
<1>6. Emit(call) <=> emitted' = call /\ operands' = After(operands, call) /\ ignored' = ignored
  BY DEF Emit
<1> QED BY <1>4, <1>5, <1>6, StopStack DEF CallFinish, Checked, call, Stops

LEMMA CallStack ==
  ASSUME IInv, Structure', CallStep
  PROVE  Stacked' /\ Fits
<1>1. CASE CallInExpression \/ CallStatement
  BY <1>1, BeginCallStack DEF CallInExpression, CallStatement
<1> QED BY <1>1, CallArgsStack, CallParamStack, CallFinishStack DEF CallStep

-----------------------------------------------------------------------------
(***************************************************************************)
(* Assignments.                                                            *)
(***************************************************************************)

LEMMA ParseAssignmentStack ==
  ASSUME IInv, Structure', ParseAssignment
  PROVE  Stacked' /\ Fits
<1> DEFINE f == [Activation("target") EXCEPT !.name = tok]
<1>1. frames # <<>> /\ pc \notin Resulting
  BY StackEntersAt DEF ParseAssignment, Resulting
<1>2. f.at \in Waiting \ Holding /\ f.base = Len(operands)
  BY NewActivation DEF Waiting, Holding
<1> HIDE DEF f
<1>3. CASE Push(f) /\ Goto("assign_target") /\ Quiet
  BY <1>1, <1>2, <1>3, QuietStill, PushStill DEF Goto, Resulting
<1> QED BY <1>3, StopsStack DEF ParseAssignment, Checked, f

\* The steps of a target that only turn one activation into another.
LEMMA TargetStack ==
  ASSUME IInv, Structure', NEW p, NEW at \in {"statement_name", "target", "deref"}, At(p, at),
         p \notin Resulting, Quiet,
         NEW q \in {"assign_target", "deref_target", "expression"}, Goto(q),
         NEW f, Become(f), f.base = Top.base,
         f.at \in {"target", "deref", "assign", "assign_ptr"}
  PROVE  Stacked' /\ Fits
<1>1. frames # <<>> /\ pc \notin Resulting /\ Top.at \in Waiting \ Holding
  BY StackAt DEF Waiting, Holding
<1>2. f.at \in Waiting \ Holding /\ pc' \notin Resulting
  BY DEF Waiting, Holding, Goto, Resulting
<1> QED BY <1>1, <1>2, QuietStill, BecomeStill

LEMMA StatementIdentifierStack ==
  ASSUME IInv, Structure', StatementIdentifier
  PROVE  Stacked' /\ Fits
<1> DEFINE f == [Top EXCEPT !.at = "target"]
<1>1. /\ At("statement_identifier", "statement_name") /\ Become(f) /\ Goto("assign_target") /\ Quiet
  BY DEF StatementIdentifier
<1>2. f.base = Top.base /\ f.at = "target"
  BY <1>1, StackAt DEF Frame
<1> HIDE DEF f
<1> QED BY <1>1, <1>2, TargetStack DEF Resulting

LEMMA AssignTargetStack ==
  ASSUME IInv, Structure', AssignTarget
  PROVE  Stacked' /\ Fits
<1> DEFINE f == [Top EXCEPT !.at = "deref", !.type = VarType[Top.name]]
           g == [Top EXCEPT !.at = "assign"]
<1>1. At("assign_target", "target")
  BY DEF AssignTarget
<1>2. f.base = Top.base /\ f.at = "deref" /\ g.base = Top.base /\ g.at = "assign"
  BY <1>1, StackAt DEF Frame
<1> HIDE DEF f, g
<1>3. CASE Become(f) /\ Goto("deref_target") /\ Quiet
  BY <1>1, <1>2, <1>3, TargetStack DEF Resulting
<1>4. CASE Become(g) /\ Goto("expression") /\ Quiet
  BY <1>1, <1>2, <1>4, TargetStack DEF Resulting
<1> QED BY <1>3, <1>4, StopsStack DEF AssignTarget, Checked, f, g

LEMMA DerefTargetStack ==
  ASSUME IInv, Structure', DerefTarget
  PROVE  Stacked' /\ Fits
<1> DEFINE f == [Top EXCEPT !.type = m_user_types[Top.type],
                            !.derefs = Append(@, m_user_types[Top.type])]
<1>1. At("deref_target", "deref")
  BY DEF DerefTarget
<1>2. f.base = Top.base /\ f.at = "deref"
  BY <1>1, StackAt DEF Frame
<1> HIDE DEF f
<1>3. CASE Become(f) /\ Goto("deref_target") /\ Quiet
  BY <1>1, <1>2, <1>3, TargetStack DEF Resulting
<1> QED BY <1>3, StopsStack DEF DerefTarget, Checked, f

LEMMA EndTargetStack ==
  ASSUME IInv, Structure', EndTarget
  PROVE  Stacked' /\ Fits
<1> DEFINE f == [Top EXCEPT !.at = "assign_ptr"]
<1>1. At("deref_target", "deref")
  BY DEF EndTarget
<1>2. f.base = Top.base /\ f.at = "assign_ptr"
  BY <1>1, StackAt DEF Frame
<1> HIDE DEF f
<1>3. CASE Become(f) /\ Goto("expression") /\ Quiet
  BY <1>1, <1>2, <1>3, TargetStack DEF Resulting
<1> QED BY <1>3, StopsStack DEF EndTarget, Checked, f

LEMMA StoreVariableStack ==
  ASSUME IInv, Structure', StoreVariable
  PROVE  Stacked' /\ Fits
<1> DEFINE type == VarType[Top.name]
           op == OpNamed("store_variable", type, Top.name)
<1>1. At("return", "assign")
  BY DEF StoreVariable
<1>2. /\ frames # <<>> /\ pc = "return" /\ Top.at \in Waiting \ Holding
      /\ status = "parsing" /\ type \in Valid
  BY <1>1, StackAt, ValidTypes DEF Resolved, Waiting, Holding, IInv
<1>3. Expects(op) = <<type>> /\ Leaves(op) = <<>>
  <2>1. op.call = "store_variable" /\ op.type = type
    BY DEF OpNamed, NoOp
  <2> HIDE DEF op
  <2> QED BY <2>1, CallKinds DEF Pops
<1> HIDE DEF op
<1>4. CASE /\ Matches(result.type, type) /\ Emit(op) /\ Pop
           /\ Returns("done", [type |-> type, name |-> Top.name])
  <2>1. result.type = type
    BY <1>2, <1>4, ValuesMatch DEF IInv
  <2>2. pc' \notin Resulting /\ status' = "parsing"
    BY <1>2, <1>4 DEF Returns, Resulting
  <2> QED BY <1>2, <1>3, <1>4, <2>1, <2>2, NoneAbove, PopCall
<1> QED BY <1>4, StopStack DEF StoreVariable, CheckedAfter, op

(***************************************************************************)
(* While the target of a pointer assignment is walked, the value lies below *)
(* the pointer.                                                            *)
(***************************************************************************)
LEMMA LeadsBelow ==
  ASSUME NEW h \in Nat, NEW r, operands[h + 1] = r, NEW t, Leads(h + 1, <<t>>)
  PROVE  Leads(h, <<r, t>>)
<1>1. /\ Len(operands') = h + 1 + 1 /\ operands'[h + 1 + 1] = t
      /\ \A k \in 1 .. h + 1 : operands'[k] = operands[k]
  BY DEF Leads
<1>2. h + 1 + 1 = h + 2 /\ h + 1 \in 1 .. h + 1 /\ \A k \in 1 .. h : k \in 1 .. h + 1
  OBVIOUS
<1>3. /\ Len(operands') = h + 2 /\ operands'[h + 2] = t /\ operands'[h + 1] = r
      /\ \A k \in 1 .. h : operands'[k] = operands[k]
  BY <1>1, <1>2
<1> QED BY <1>3 DEF Leads

LEMMA WalkAbove ==
  ASSUME IInv, frames # <<>>, NEW f, Become(f), Returns("walk_target", result)
  PROVE  Above' = <<result.type, WalkType(f)>>
<1>1. Top' = f
  BY BecomeTop DEF IInv, Structure, TypeOK
<1> QED BY <1>1 DEF Above, Returns, WalkType

LEMMA WalkCall ==
  ASSUME IInv, Structure', status = "parsing", frames # <<>>, Top.at \in Waiting \ Holding,
         NEW f, Become(f), f.base = Top.base, f.at = "store_ptr", Returns("walk_target", result),
         NEW op, Emit(op), Leaves(op) = <<WalkType(f)>>,
         \/ pc = "return" /\ Expects(op) = <<>>
         \/ pc = "walk_target" /\ Expects(op) = <<WalkType(Top)>>
  PROVE  Stacked' /\ Fits
<1>1. Level = Top.base /\ Level \in Nat
  BY NothingHeld, TopStack
<1>2. operands[Level + 1] = result.type /\ Takes(Level + 1, op)
  <2>1. CASE pc = "return" /\ Expects(op) = <<>>
    <3>1. Len(operands) = Level + 1 /\ operands[Level + 1] = result.type
      BY <2>1, TopStack DEF Above
    <3> QED BY <1>1, <2>1, <3>1 DEF Takes
  <2>2. CASE pc = "walk_target" /\ Expects(op) = <<WalkType(Top)>>
    <3>1. /\ Len(operands) = Level + 2 /\ operands[Level + 1] = result.type
          /\ operands[Level + 2] = WalkType(Top)
      <4>1. Above = <<result.type, WalkType(Top)>>
        BY <2>2 DEF Above
      <4>2. /\ Len(operands) = Level + Len(Above)
            /\ \A k \in 1 .. Len(Above) : operands[Level + k] = Above[k]
        BY TopStack
      <4>3. Len(Above) = 2 /\ Above[1] = result.type /\ Above[2] = WalkType(Top)
        BY <4>1
      <4> QED BY <4>2, <4>3
    <3>2. Level + 1 + 1 = Level + 2
      BY <1>1
    <3>3. Len(operands) = Level + 1 + 1 /\ operands[Level + 1 + 1] = WalkType(Top)
      BY <3>1, <3>2
    <3> QED BY <1>1, <2>2, <3>1, <3>3 DEF Takes
  <2> QED BY <2>1, <2>2
<1>3. Leads(Level + 1, Leaves(op)) /\ Fits
  BY <1>1, <1>2, CallMade DEF Emit, Returns
<1>4. Leads(Level, <<result.type, WalkType(f)>>)
  BY <1>1, <1>2, <1>3, LeadsBelow
<1>5. Leads(f.base + Held(f), Above') /\ f.at \in Waiting \ Holding
  BY <1>1, <1>4, WalkAbove DEF Held, Holding, Waiting
<1> QED BY <1>3, <1>5, StackBecome DEF Emit

LEMMA LoadTargetStack ==
  ASSUME IInv, Structure', LoadTarget
  PROVE  Stacked' /\ Fits
<1> DEFINE f  == [Top EXCEPT !.at = "store_ptr", !.n = 1]
           op == OpNamed("load_variable", VarType[Top.name], Top.name)
<1>1. At("return", "assign_ptr") /\ Become(f) /\ Emit(op) /\ Returns("walk_target", result)
  BY DEF LoadTarget
<1>2. /\ frames # <<>> /\ pc = "return" /\ Top.at \in Waiting \ Holding /\ Top \in Frame
      /\ status = "parsing"
  BY <1>1, StackAt DEF Waiting, Holding
<1>3. f.base = Top.base /\ f.at = "store_ptr" /\ WalkType(f) = VarType[Top.name]
  BY <1>2 DEF Frame, WalkType
<1>4. Expects(op) = <<>> /\ Leaves(op) = <<VarType[Top.name]>>
  <2>1. op.call = "load_variable" /\ op.type = VarType[Top.name]
    BY DEF OpNamed, NoOp
  <2> HIDE DEF op
  <2> QED BY <2>1, CallKinds DEF Loads
<1> HIDE DEF f, op
<1> QED BY <1>1, <1>2, <1>3, <1>4, WalkCall

LEMMA WalkTargetStack ==
  ASSUME IInv, Structure', WalkTarget
  PROVE  Stacked' /\ Fits
<1> DEFINE f  == [Top EXCEPT !.n = @ + 1]
           op == OpTo("load_value_from_pointer", WalkType(Top), Top.derefs[Top.n])
<1>1. At("walk_target", "store_ptr") /\ Become(f) /\ Emit(op) /\ Returns("walk_target", result)
  BY DEF WalkTarget
<1>2. /\ frames # <<>> /\ pc = "walk_target" /\ Top.at \in Waiting \ Holding /\ Top \in Frame
      /\ Top.at = "store_ptr" /\ Resolved(Top) /\ status = "parsing"
  BY <1>1, StackAt DEF Waiting, Holding
<1>3. Top.n \in Nat \ {0}
  <2>1. Top.n \in 1 .. Len(Top.derefs)
    BY <1>2 DEF Resolved
  <2> QED BY <1>2, <2>1 DEF Frame
<1>4. /\ f.base = Top.base /\ f.at = "store_ptr" /\ f.n = Top.n + 1 /\ f.derefs = Top.derefs
  BY <1>2 DEF Frame
<1>5. WalkType(f) = Top.derefs[Top.n]
  <2>1. f.n # 1 /\ f.n - 1 = Top.n
    BY <1>3, <1>4
  <2> HIDE DEF f
  <2> QED BY <1>4, <2>1 DEF WalkType
<1>6. Expects(op) = <<WalkType(Top)>> /\ Leaves(op) = <<Top.derefs[Top.n]>>
  <2>1. /\ op.call = "load_value_from_pointer" /\ op.type = WalkType(Top)
        /\ op.dest = Top.derefs[Top.n]
    BY DEF OpTo, NoOp
  <2> HIDE DEF op
  <2> QED BY <2>1, CallKinds
<1> HIDE DEF f, op
<1> QED BY <1>1, <1>2, <1>4, <1>5, <1>6, WalkCall

LEMMA StoreToPointerStack ==
  ASSUME IInv, Structure', StoreToPointer
  PROVE  Stacked' /\ Fits
<1> DEFINE op == OpTo("store_value_to_pointer", result.type, WalkType(Top))
<1>1. At("walk_target", "store_ptr")
  BY DEF StoreToPointer
<1>2. /\ frames # <<>> /\ pc = "walk_target" /\ Top.at \in Waiting \ Holding
      /\ status = "parsing"
  BY <1>1, StackAt DEF Waiting, Holding
<1>3. Expects(op) = <<result.type, WalkType(Top)>> /\ Leaves(op) = <<>>
  <2>1. op.call = "store_value_to_pointer" /\ op.type = result.type /\ op.dest = WalkType(Top)
    BY DEF OpTo, NoOp
  <2> HIDE DEF op
  <2> QED BY <2>1, CallKinds
<1> HIDE DEF op
<1>4. CASE Emit(op) /\ Pop /\ Done
  <2>1. pc' \notin Resulting /\ status' = "parsing"
    BY <1>2, <1>4 DEF Done, Goto, Resulting
  <2>2. Above = Expects(op)
    BY <1>2, <1>3 DEF Above
  <2>3. Takes(Level, op) /\ Level = Top.base /\ Level \in Nat
    BY <1>2, <2>2, TopStack, NothingHeld DEF Takes
  <2>4. Leads(Top.base, Leaves(op)) /\ Fits
    BY <1>2, <1>4, <2>1, <2>3, CallMade DEF Emit
  <2> QED BY <1>2, <1>3, <1>4, <2>1, <2>4, NoneAbove, StackPop DEF Emit
<1> QED BY <1>4, StopStack DEF StoreToPointer, CheckedAfter, op

-----------------------------------------------------------------------------
(***************************************************************************)
(* Statements.                                                             *)
(***************************************************************************)

LEMMA ParseStatementStack ==
  ASSUME IInv, Structure', ParseStatement
  PROVE  Stacked' /\ Fits
<1>1. Enters("statement") /\ Quiet
  BY DEF ParseStatement
<1>2. frames # <<>> /\ pc \notin Resulting /\ Still /\ Fits
  BY <1>1, StackEntersAt, QuietStill DEF Resulting
<1>3. pc' \notin Resulting
  BY DEF ParseStatement, Goto, Resulting
<1>4. ASSUME NEW f, NEW at \in {"display", "for_assign", "statement_name"},
             Push(f), f.at = at, f.base = Len(operands)
      PROVE  Stacked'
  <2>1. f.at \in Waiting \ Holding
    BY <1>4 DEF Waiting, Holding
  <2> QED BY <1>2, <1>3, <1>4, <2>1, PushStill
<1> QED BY <1>2, <1>4, NewActivation DEF ParseStatement

LEMMA ParseConditionalStack ==
  ASSUME IInv, Structure', ParseConditional
  PROVE  Stacked' /\ Fits
<1> DEFINE f(at) == [Activation(at) EXCEPT !.n = m_label_tag']
           op == OpTag("statement_while_prepare", m_label_tag')
<1>1. Enters("statement") /\ Goto("expression")
  BY DEF ParseConditional
<1>2. frames # <<>> /\ pc \notin Resulting /\ status' = "parsing" /\ pc' \notin Resulting
  BY <1>1, StackEntersAt DEF Resulting, Goto
<1>3. Quiet \/ Emit(op) => Still /\ Fits
  <2>1. op.call \in Silent
    BY OpParts DEF Silent
  <2> HIDE DEF op
  <2> QED BY <1>2, <2>1, QuietStill, SilentStill
<1>4. \A at \in {"if_cond", "while_cond"} : f(at).at = at /\ f(at).base = Len(operands)
  BY NewActivation
<1>5. {"if_cond", "while_cond"} \subseteq Waiting \ Holding
  BY DEF Waiting, Holding
<1> HIDE DEF f, op
<1>6. CASE Push(f("if_cond")) /\ Quiet
  BY <1>2, <1>3, <1>4, <1>5, <1>6, PushStill
<1>7. CASE Push(f("while_cond")) /\ Emit(op)
  BY <1>2, <1>3, <1>4, <1>5, <1>7, PushStill
<1> QED BY <1>6, <1>7 DEF ParseConditional, f, op

LEMMA ConditionStack ==
  ASSUME IInv, Structure', NEW at, NEW keyword, NEW call, NEW body,
         \/ at = "if_cond" /\ call = "statement_if_post_check" /\ body = "if_then"
         \/ at = "while_cond" /\ call = "statement_while_post_check" /\ body = "while_body",
         Condition(at, keyword, call, body)
  PROVE  Stacked' /\ Fits
<1> DEFINE f  == [Top EXCEPT !.at = body]
           op == [OpOf(call, BOOL) EXCEPT !.n = Top.n]
<1>1. At("return", at)
  BY DEF Condition
<1>2. /\ frames # <<>> /\ pc = "return" /\ Top.at = at /\ Top.at \in Waiting \ Holding
      /\ Top \in Frame /\ status = "parsing"
  BY <1>1, StackAt DEF Waiting, Holding
<1>3. f.at \in Enclosing /\ Parents(Top.at) \subseteq Enclosing
  BY <1>2, StatementParents DEF Frame, Enclosing
<1>4. Expects(op) = <<BOOL>> /\ Leaves(op) = <<>>
  <2>1. op.call \in Pops /\ op.type = BOOL
    BY OpParts DEF Pops
  <2> HIDE DEF op
  <2> QED BY <2>1, CallKinds
<1> HIDE DEF f, op
<1>5. CASE Matches(result.type, BOOL) /\ Emit(op) /\ Become(f) /\ Goto("statement")
  <2>1. result.type = BOOL
    BY <1>5 DEF Matches, BOOL, ARITHMETIC
  <2>2. pc' \notin Resulting /\ status' = "parsing"
    BY <1>2, <1>5 DEF Goto, Resulting
  <2> QED BY <1>2, <1>3, <1>4, <1>5, <2>1, <2>2, EntersCall
<1> QED BY <1>5, StopsStack DEF Condition, Checked, f, op

LEMMA IfElseStack ==
  ASSUME IInv, Structure', IfElse
  PROVE  Stacked' /\ Fits
<1> DEFINE f == [Top EXCEPT !.at = "if_end"]
<1>1. At("done", "if_then") /\ Become(f)
  BY DEF IfElse
<1>2. /\ frames # <<>> /\ pc \notin Resulting /\ Top.at \in Enclosing
      /\ Top \in Frame /\ status = "parsing"
  BY <1>1, StackAt DEF Enclosing, Resulting
<1>3. f.at \in Enclosing
  BY <1>2 DEF Frame, Enclosing
<1>4. pc' \notin Resulting /\ status' = "parsing"
  BY <1>2 DEF IfElse, Goto, Resulting
<1>5. Still /\ Fits
  <2>1. PICK call \in Silent : Emit(OpTag(call, Top.n))
    BY DEF IfElse, Silent
  <2> QED BY <1>4, <2>1, OpParts, SilentStill
<1>6. Leads(ignored, <<>>) /\ Top.at \notin Waiting
  BY <1>2, <1>5, KeepsNone, TopStack, Kinds DEF Still
<1> HIDE DEF f
<1> QED BY <1>1, <1>2, <1>3, <1>4, <1>5, <1>6, NoneAbove, Kinds, StackEnters DEF Still

LEMMA ClosesStack ==
  ASSUME IInv, Structure', NEW at \in {"if_end", "while_body", "for_body"}, NEW call \in Silent,
         Closes(at, call)
  PROVE  Stacked' /\ Fits
<1>1. At("done", at) /\ Emit(OpTag(call, Top.n)) /\ Pop /\ Done
  BY DEF Closes
<1>2. frames # <<>> /\ pc \notin Resulting /\ Top.at \in Enclosing /\ status = "parsing"
  BY <1>1, StackAt DEF Enclosing, Resulting
<1>3. pc' \notin Resulting /\ status' = "parsing"
  BY <1>1, <1>2 DEF Done, Goto, Resulting
<1> QED BY <1>1, <1>2, <1>3, OpParts, SilentStill, LeaveStill

LEMMA ForAssignedStack ==
  ASSUME IInv, Structure', ForAssigned
  PROVE  Stacked' /\ Fits
<1> DEFINE f == [Top EXCEPT !.at = "for_max", !.name = result.name, !.n = m_label_tag']
           op == OpTag("statement_for_post_assignment", m_label_tag + 1)
<1>1. At("done", "for_assign")
  BY DEF ForAssigned
<1>2. /\ frames # <<>> /\ pc \notin Resulting /\ Top.at \in Waiting \ Holding
      /\ Top \in Frame /\ status = "parsing"
  BY <1>1, StackAt DEF Waiting, Holding, Resulting
<1>3. f.at \in Waiting \ Holding /\ f.base = Top.base
  BY <1>2 DEF Frame, Waiting, Holding
<1>4. op.call \in Silent
  BY OpParts DEF Silent
<1> HIDE DEF f, op
<1>5. CASE Emit(op) /\ Become(f) /\ Goto("expression")
  <2>1. pc' \notin Resulting /\ status' = "parsing"
    BY <1>2, <1>5 DEF Goto, Resulting
  <2> QED BY <1>2, <1>3, <1>4, <1>5, <2>1, SilentStill, BecomeStill
<1> QED BY <1>5, StopStack, StopsStack DEF ForAssigned, Checked, CheckedAfter, f, op

LEMMA ForMaxStack ==
  ASSUME IInv, Structure', ForMax
  PROVE  Stacked' /\ Fits
<1> DEFINE f  == [Top EXCEPT !.at = "for_body"]
           op == [OpNamed("statement_for_post_check", UNSIGNED_INT, Top.name) EXCEPT !.n = Top.n]
<1>1. At("return", "for_max")
  BY DEF ForMax
<1>2. /\ frames # <<>> /\ pc = "return" /\ Top.at = "for_max" /\ Top.at \in Waiting \ Holding
      /\ Top \in Frame /\ status = "parsing"
  BY <1>1, StackAt DEF Waiting, Holding
<1>3. f.at \in Enclosing /\ Parents(Top.at) \subseteq Enclosing
  BY <1>2, StatementParents DEF Frame, Enclosing
<1>4. Expects(op) = <<UNSIGNED_INT>> /\ Leaves(op) = <<>>
  <2>1. op.call = "statement_for_post_check" /\ op.type = UNSIGNED_INT
    BY DEF OpNamed, NoOp
  <2> HIDE DEF op
  <2> QED BY <2>1, CallKinds DEF Pops
<1> HIDE DEF f, op
<1>5. CASE Matches(result.type, UNSIGNED_INT) /\ Emit(op) /\ Become(f) /\ Goto("statement")
  <2>1. result.type = UNSIGNED_INT
    BY <1>5 DEF Matches, UNSIGNED_INT, ARITHMETIC
  <2>2. pc' \notin Resulting /\ status' = "parsing"
    BY <1>2, <1>5 DEF Goto, Resulting
  <2> QED BY <1>2, <1>3, <1>4, <1>5, <2>1, <2>2, EntersCall
<1> QED BY <1>5, StopsStack DEF ForMax, Checked, f, op

LEMMA DisplayStack ==
  ASSUME IInv, Structure', Display
  PROVE  Stacked' /\ Fits
<1> DEFINE op == OpOf("debug_display", result.type)
<1>1. At("return", "display")
  BY DEF Display
<1>2. /\ frames # <<>> /\ pc = "return" /\ Top.at \in Waiting \ Holding /\ status = "parsing"
  BY <1>1, StackAt DEF Waiting, Holding
<1>3. Expects(op) = <<result.type>> /\ Leaves(op) = <<>>
  <2>1. op.call \in Pops /\ op.type = result.type
    BY OpParts DEF Pops
  <2> HIDE DEF op
  <2> QED BY <2>1, CallKinds
<1> HIDE DEF op
<1>4. CASE Emit(op) /\ Pop /\ Done
  <2>1. pc' \notin Resulting /\ status' = "parsing"
    BY <1>2, <1>4 DEF Done, Goto, Resulting
  <2> QED BY <1>2, <1>3, <1>4, <2>1, NoneAbove, PopCall
<1> QED BY <1>4, StopsStack DEF Display, Checked, op

LEMMA BeginBlockStack ==
  ASSUME IInv, Structure', BeginBlock
  PROVE  Stacked' /\ Fits
<1>1. frames # <<>> /\ pc \notin Resulting /\ Top.at \in Enclosing
  BY StackEntersAt, StatementTables DEF BeginBlock, Resulting
<1>2. CASE Push(Activation("block")) /\ Goto("block") /\ Quiet
  <2>1. pc' \notin Resulting /\ "block" \in Enclosing
    BY <1>2 DEF Goto, Resulting, Enclosing
  <2> QED BY <1>1, <1>2, <2>1, NewActivation, QuietStill, PushStill
<1> QED BY <1>2, StopsStack DEF BeginBlock, Checked

LEMMA InBlockStack ==
  ASSUME IInv, Structure', BlockItem \/ BlockNext \/ ParseNestedBlock
  PROVE  Stacked' /\ Fits
<1>1. ASSUME NEW p \in {"block", "done"}, At(p, "block"), Pop, Done, Quiet
      PROVE  Stacked' /\ Fits
  <2>1. frames # <<>> /\ pc \notin Resulting /\ Top.at \in Enclosing
    BY <1>1, StackAt DEF Enclosing, Resulting
  <2>2. pc' \notin Resulting
    BY <1>1 DEF Done, Goto, Resulting
  <2> QED BY <1>1, <2>1, <2>2, QuietStill, LeaveStill
<1>2. ASSUME frames # <<>>, pc \notin Resulting, frames' = frames, Quiet,
             pc' \in {"statement", "block", "block_statement"}
      PROVE  Stacked' /\ Fits
  BY <1>2, QuietStill, SameStill DEF Resulting
<1>3. CASE BlockItem
  <2>1. At("block", "block") /\ Quiet /\ frames # <<>> /\ pc \notin Resulting
    BY <1>3, StackAt DEF BlockItem, Resulting
  <2> QED BY <1>1, <1>2, <1>3, <2>1 DEF BlockItem, Goto
<1>4. CASE BlockNext
  <2>1. At("done", "block") /\ frames # <<>> /\ pc \notin Resulting
    BY <1>4, StackAt DEF BlockNext, Resulting
  <2> QED BY <1>1, <1>2, <1>4, <2>1, StopsStack DEF BlockNext, Checked, Goto
<1>5. CASE ParseNestedBlock
  <2>1. frames # <<>> /\ pc \notin Resulting
    BY <1>5, StackEntersAt DEF ParseNestedBlock, Resulting
  <2> QED BY <1>2, <1>5, <2>1 DEF ParseNestedBlock, Goto
<1> QED BY <1>3, <1>4, <1>5

LEMMA EndMainStack ==
  ASSUME IInv, Structure', EndMain
  PROVE  Stacked' /\ Fits
<1> DEFINE op == OpOf("finalize_main_procedure", VOID)
<1>1. At("done", "main")
  BY DEF EndMain
<1>2. frames # <<>> /\ pc \notin Resulting /\ Top.at \in Enclosing /\ status = "parsing"
  BY <1>1, StackAt DEF Enclosing, Resulting
<1>3. op.call \in Silent
  BY OpParts DEF Silent
<1> HIDE DEF op
<1>4. CASE Emit(op) /\ Pop /\ Goto("end")
  <2>1. pc' \notin Resulting /\ status' = "parsing"
    BY <1>2, <1>4 DEF Goto, Resulting
  <2> QED BY <1>2, <1>3, <1>4, <2>1, SilentStill, LeaveStill
<1> QED BY <1>4, StopsStack DEF EndMain, Checked, op

LEMMA StatementStack ==
  ASSUME IInv, Structure', StatementStep
  PROVE  Stacked' /\ Fits
<1>1. CASE IfCondition \/ WhileCondition
  BY <1>1, ConditionStack DEF IfCondition, WhileCondition
<1>2. CASE EndIf \/ EndWhile \/ EndFor
  BY <1>2, ClosesStack DEF EndIf, EndWhile, EndFor, Silent
<1>3. CASE ExpectedStatement \/ EndOfFile
  BY <1>3, StopsStack DEF ExpectedStatement, EndOfFile
<1> QED
  BY <1>1, <1>2, <1>3, ParseAssignmentStack, StatementIdentifierStack, AssignTargetStack,
     DerefTargetStack, EndTargetStack, StoreVariableStack, LoadTargetStack, WalkTargetStack,
     StoreToPointerStack, ParseStatementStack, ParseConditionalStack, IfElseStack,
     ForAssignedStack, ForMaxStack, DisplayStack, BeginBlockStack, InBlockStack, EndMainStack
  DEF StatementStep

-----------------------------------------------------------------------------
LEMMA IInvInit ==
  ASSUME Init
  PROVE  IInv
<1>1. Structure
  BY InitOK
<1>2. /\ frames = <<Activation("main")>> /\ Len(frames) = 1 /\ frames[1].at = "main"
      /\ operands = <<>> /\ ignored = 0 /\ pc = "block_statement"
  BY NewActivation DEF Init
<1>3. "main" \in Enclosing /\ "main" \notin Waiting /\ "main" \notin Holding
  BY DEF Enclosing, Waiting, Holding
<1>4. Level = 0 /\ Above = <<>> /\ Len(operands) = 0
  BY <1>2, <1>3 DEF Level, Above, Top
<1>5. BasesAscend /\ OperandsMatchActivations
  BY <1>2, <1>3, <1>4 DEF BasesAscend, OperandsMatchActivations
<1> QED BY <1>1, <1>5 DEF IInv

LEMMA IInvStep ==
  ASSUME IInv, [Next]_vars
  PROVE  IInv' /\ (Fits \/ UNCHANGED vars)
<1>1. Structure'
  BY StepOK DEF IInv
<1>2. CASE UNCHANGED vars
  <2>1. UNCHANGED <<frames, operands, ignored, pc, result>>
    BY <1>2 DEF vars, output
  <2>2. Stacked'
    BY <2>1
       DEF IInv, Stacked, BasesAscend, OperandsMatchActivations, Level, Above, Top, Held, WalkType
  <2> QED BY <1>1, <1>2, <2>2 DEF IInv, Stacked
<1>3. CASE Stopped
  BY <1>2, <1>3 DEF Stopped
<1>4. CASE ExpressionStep \/ CallStep \/ StatementStep
  BY <1>1, <1>4, ExpressionStack, CallStack, StatementStack DEF IInv, Stacked
<1> QED BY <1>2, <1>3, <1>4 DEF Next

(***************************************************************************)
(* The inductive invariant of the parser: each activation is where the     *)
(* functions of compiler.cpp call each other, knows what it found on the   *)
(* run-time stack when it began, and owns what lies above that up to where *)
(* the next activation began.                                              *)
(***************************************************************************)
THEOREM StackInvariant == Spec => []IInv
<1>1. Init => IInv
  BY IInvInit
<1>2. IInv /\ [Next]_vars => IInv'
  BY IInvStep
<1> QED BY <1>1, <1>2, PTL DEF Spec

(***************************************************************************)
(* However deep statements and expressions nest, and whatever their        *)
(* operands are, every parse_* function finds its operands on the run-time *)
(* stack where it left them, and returns with its value pushed.            *)
(***************************************************************************)
THEOREM OperandsFound == Spec => []OperandsMatchActivations
<1>1. IInv => OperandsMatchActivations
  BY DEF IInv
<1> QED BY <1>1, StackInvariant, PTL

(***************************************************************************)
(* No statement leaves a value on the run-time stack, or takes one that    *)
(* was there before it, but for the results of calls that are ignored.     *)
(***************************************************************************)
THEOREM StatementsBalance == Spec => []StatementsAreBalanced
<1>1. IInv => StatementsAreBalanced
  <2> SUFFICES ASSUME IInv, pc \in {"statement", "block", "done", "end"}
               PROVE  Len(operands) = ignored
    BY DEF StatementsAreBalanced
  <2>1. Len(operands) = Level + Len(Above) /\ Above = <<>> /\ ignored \in Nat
    BY DEF IInv, Structure, TypeOK, OutputOK, OperandsMatchActivations, Above
  <2>2. CASE frames = <<>> \/ Top.at \in Enclosing
    BY <2>1, <2>2 DEF Level
  <2>3. CASE frames # <<>> /\ Top.at = "for_assign"
    <3>1. Top.at \in Waiting \ Holding /\ Parents(Top.at) = Enclosing
      BY <2>3, StatementParents DEF Waiting, Holding
    <3>2. Level = Top.base /\ Level \in Nat /\ Top.base = ignored
      BY <2>3, <3>1, Below, NothingHeld, TopStack DEF Height
    <3> QED BY <2>1, <3>2
  <2>4. frames # <<>> => Top.at \in Enclosing \cup {"for_assign"}
    BY StatementTables DEF IInv, Structure, Nesting, Enclosing
  <2> QED BY <2>2, <2>3, <2>4
<1> QED BY <1>1, StackInvariant, PTL

(***************************************************************************)
(* The calls the parser makes of CodeGen are a well-typed stack program:   *)
(* the parser implements StackCode.                                        *)
(***************************************************************************)
THEOREM ParserImplementsStackCode == Spec => ImplementsStackCode
<1> DEFINE last == IF status = "parsing" THEN emitted ELSE NoOp
<1>1. Init => IInv /\ Stack!Init
  BY IInvInit, SameOps DEF Init, Stack!Init
<1>2. IInv /\ [Next]_vars => IInv' /\ [Stack!Next]_<<operands, last>>
  <2> SUFFICES ASSUME IInv, [Next]_vars
               PROVE  IInv' /\ [Stack!Next]_<<operands, last>>
    OBVIOUS
  <2>1. IInv' /\ (Fits \/ UNCHANGED vars)
    BY IInvStep
  <2>2. CASE UNCHANGED vars
    BY <2>1, <2>2 DEF vars, output
  <2>3. CASE Fits
    <3>1. last' \in Op /\ operands \in Seq(Type)
      BY <2>1, NoOpOK DEF IInv, Structure, TypeOK, OutputOK
    <3>2. Stack!Applicable(operands, last') /\ operands' = After(operands, last')
      BY <2>3, <3>1, SilentStack DEF Fits, NoOp, Silent
    <3>3. Stack!Next
      BY <3>1, <3>2, SameCalls, SameOps DEF Stack!Next, Stack!Call
    <3> QED BY <2>1, <3>3
  <2> QED BY <2>1, <2>2, <2>3
<1> QED BY <1>1, <1>2, PTL DEF Spec, ImplementsStackCode, Stack!Spec

-----------------------------------------------------------------------------
(***************************************************************************)
(* The generated code: every call names the types its operands have, and a *)
(* FOR counts in the INTEGER variable its assignment named; each label is  *)
(* defined once and every jump has a target; every argument goes to the    *)
(* register of the System V ABI.                                           *)
(***************************************************************************)
LEMMA CallOf ==
  ASSUME NEW c, NEW t, NEW d, NEW x, NEW n
  PROVE  /\ OpOf(c, t).call = c /\ [OpOf(c, t) EXCEPT !.n = n].call = c
         /\ OpNamed(c, t, x).call = c /\ [OpNamed(c, t, x) EXCEPT !.n = n].call = c
         /\ OpTag(c, n).call = c
         /\ OpTo(c, t, d).call = c /\ OpTo(c, t, d).type = t /\ OpTo(c, t, d).dest = d
         /\ NoOp.call = "none"
BY DEF OpOf, OpTo, OpNamed, OpTag, NoOp

LEMMA UnnumberedCalls ==
  ASSUME NEW c, NEW t, NEW d, NEW x, NEW n
  PROVE  /\ Unnumbered(OpOf(c, t)) = OpOf(c, t) /\ Unnumbered([OpOf(c, t) EXCEPT !.n = n]) = OpOf(c, t)
         /\ Unnumbered(OpNamed(c, t, x)) = OpNamed(c, t, x) /\ Unnumbered(OpTo(c, t, d)) = OpTo(c, t, d)
<1> DEFINE Only(k, u, e, y, m) == [call : {k}, type : {u}, dest : {e}, name : {y}, n : {m}]
<1>1. \A k, u, e, y, m : \A p, q \in Only(k, u, e, y, m) : p = q
  OBVIOUS
<1>2. \A k, u, e, y, m : \A p \in Only(k, u, e, y, m) : Unnumbered(p) \in Only(k, u, e, y, 0)
  BY DEF Unnumbered
<1>3. OpOf(c, t) \in Only(c, t, VOID, NoName, 0)
  BY DEF OpOf, NoOp
<1>4. [OpOf(c, t) EXCEPT !.n = n] \in Only(c, t, VOID, NoName, n)
  BY DEF OpOf, NoOp
<1>5. OpNamed(c, t, x) \in Only(c, t, VOID, x, 0)
  BY DEF OpNamed, NoOp
<1>6. OpTo(c, t, d) \in Only(c, t, d, NoName, 0)
  BY DEF OpTo, NoOp
<1> HIDE DEF Only
<1>7. Unnumbered(OpOf(c, t)) = OpOf(c, t) /\ Unnumbered([OpOf(c, t) EXCEPT !.n = n]) = OpOf(c, t)
  BY <1>1, <1>2, <1>3, <1>4
<1>8. Unnumbered(OpNamed(c, t, x)) = OpNamed(c, t, x)
  BY <1>1, <1>2, <1>5
<1>9. Unnumbered(OpTo(c, t, d)) = OpTo(c, t, d)
  BY <1>1, <1>2, <1>6
<1> QED BY <1>7, <1>8, <1>9

\* Which calls the language types.
LEMMA TypedMembers ==
  ASSUME NEW varType, NEW pointsTo, NEW returns
  PROVE  /\ \A t \in Arithmetic \cup {CHAR} : OpOf("load_i64", t) \in TypedCalls(varType, pointsTo, returns)
         /\ \A v \in DOMAIN varType : \A c \in {"load_variable", "store_variable"} :
              OpNamed(c, varType[v], v) \in TypedCalls(varType, pointsTo, returns)
         /\ \A v \in DOMAIN varType, t \in DOMAIN pointsTo :
              pointsTo[t] = varType[v] =>
                OpNamed("load_pointer_to_variable", t, v) \in TypedCalls(varType, pointsTo, returns)
         /\ \A t \in DOMAIN pointsTo :
              /\ OpTo("load_value_from_pointer", t, pointsTo[t]) \in TypedCalls(varType, pointsTo, returns)
              /\ OpTo("store_value_to_pointer", pointsTo[t], t) \in TypedCalls(varType, pointsTo, returns)
         /\ \A c \in ArithmeticCalls \cup Compares, t \in Arithmetic :
              OpOf(c, t) \in TypedCalls(varType, pointsTo, returns)
         /\ \A c \in {"alu_and_bool", "alu_or_bool", "alu_not_bool"} :
              OpOf(c, BOOL) \in TypedCalls(varType, pointsTo, returns)
         /\ \A s, t \in Concrete :
              CanConvert(s, t) => OpTo("convert", s, t) \in TypedCalls(varType, pointsTo, returns)
         /\ \A c \in {"debug_display", "function_call_param"}, t \in Concrete :
              OpOf(c, t) \in TypedCalls(varType, pointsTo, returns)
         /\ \A f \in DOMAIN returns :
              CanReturn(returns[f]) =>
                OpNamed("function_call_finalize", returns[f], f) \in TypedCalls(varType, pointsTo, returns)
<1> DEFINE
      all == TypedCalls(varType, pointsTo, returns)
      A == {OpOf("load_i64", t) : t \in Arithmetic \cup {CHAR}}
      B == {OpNamed(c, varType[v], v) : c \in {"load_variable", "store_variable"}, v \in DOMAIN varType}
      ofVariable(v) ==
        {OpNamed("load_pointer_to_variable", t, v) : t \in {u \in DOMAIN pointsTo : pointsTo[u] = varType[v]}}
      C == UNION {ofVariable(v) : v \in DOMAIN varType}
      D == {OpTo("load_value_from_pointer", t, pointsTo[t]) : t \in DOMAIN pointsTo}
      E == {OpTo("store_value_to_pointer", pointsTo[t], t) : t \in DOMAIN pointsTo}
      F == {OpOf(c, t) : c \in ArithmeticCalls \cup Compares, t \in Arithmetic}
      G == {OpOf(c, BOOL) : c \in {"alu_and_bool", "alu_or_bool", "alu_not_bool"}}
      H == {OpTo("convert", s[1], s[2]) : s \in {p \in Concrete \X Concrete : CanConvert(p[1], p[2])}}
      I == {OpOf(c, t) : c \in {"debug_display", "function_call_param"}, t \in Concrete}
      J == {OpNamed("function_call_finalize", returns[f], f) : f \in {g \in DOMAIN returns : CanReturn(returns[g])}}
<1>0. all = A \cup B \cup C \cup D \cup E \cup F \cup G \cup H \cup I \cup J
  BY DEF TypedCalls
<1>1. \A t \in Arithmetic \cup {CHAR} : OpOf("load_i64", t) \in A
  OBVIOUS
<1>2. \A v \in DOMAIN varType : \A c \in {"load_variable", "store_variable"} : OpNamed(c, varType[v], v) \in B
  OBVIOUS
<1>3. \A v \in DOMAIN varType, t \in DOMAIN pointsTo :
        pointsTo[t] = varType[v] => OpNamed("load_pointer_to_variable", t, v) \in C
  <2> TAKE v \in DOMAIN varType, t \in DOMAIN pointsTo
  <2> HAVE pointsTo[t] = varType[v]
  <2>1. OpNamed("load_pointer_to_variable", t, v) \in ofVariable(v)
    OBVIOUS
  <2> HIDE DEF ofVariable
  <2> QED BY <2>1
<1>4. \A t \in DOMAIN pointsTo : /\ OpTo("load_value_from_pointer", t, pointsTo[t]) \in D
                                 /\ OpTo("store_value_to_pointer", pointsTo[t], t) \in E
  OBVIOUS
<1>5. \A c \in ArithmeticCalls \cup Compares, t \in Arithmetic : OpOf(c, t) \in F
  OBVIOUS
<1>6. \A c \in {"alu_and_bool", "alu_or_bool", "alu_not_bool"} : OpOf(c, BOOL) \in G
  OBVIOUS
<1>7. \A s, t \in Concrete : CanConvert(s, t) => OpTo("convert", s, t) \in H
  <2> TAKE s, t \in Concrete
  <2> HAVE CanConvert(s, t)
  <2> DEFINE p == <<s, t>>
  <2>1. p \in {q \in Concrete \X Concrete : CanConvert(q[1], q[2])} /\ p[1] = s /\ p[2] = t
    OBVIOUS
  <2> HIDE DEF p
  <2>2. OpTo("convert", p[1], p[2]) \in H
    BY <2>1, Zenon
  <2> QED BY <2>1, <2>2
<1>8. \A c \in {"debug_display", "function_call_param"}, t \in Concrete : OpOf(c, t) \in I
  OBVIOUS
<1>9. \A f \in DOMAIN returns : CanReturn(returns[f]) => OpNamed("function_call_finalize", returns[f], f) \in J
  OBVIOUS
<1> HIDE DEF all, A, B, C, D, E, F, G, H, I, J
<1>10. /\ A \subseteq all /\ B \subseteq all /\ C \subseteq all /\ D \subseteq all /\ E \subseteq all
       /\ F \subseteq all /\ G \subseteq all /\ H \subseteq all /\ I \subseteq all /\ J \subseteq all
  BY <1>0
<1>11. /\ \A t \in Arithmetic \cup {CHAR} : OpOf("load_i64", t) \in all
       /\ \A v \in DOMAIN varType : \A c \in {"load_variable", "store_variable"} : OpNamed(c, varType[v], v) \in all
       /\ \A v \in DOMAIN varType, t \in DOMAIN pointsTo :
            pointsTo[t] = varType[v] => OpNamed("load_pointer_to_variable", t, v) \in all
       /\ \A t \in DOMAIN pointsTo : /\ OpTo("load_value_from_pointer", t, pointsTo[t]) \in all
                                     /\ OpTo("store_value_to_pointer", pointsTo[t], t) \in all
       /\ \A c \in ArithmeticCalls \cup Compares, t \in Arithmetic : OpOf(c, t) \in all
  BY <1>1, <1>2, <1>3, <1>4, <1>5, <1>10
<1>12. /\ \A c \in {"alu_and_bool", "alu_or_bool", "alu_not_bool"} : OpOf(c, BOOL) \in all
       /\ \A s, t \in Concrete : CanConvert(s, t) => OpTo("convert", s, t) \in all
       /\ \A c \in {"debug_display", "function_call_param"}, t \in Concrete : OpOf(c, t) \in all
       /\ \A f \in DOMAIN returns :
            CanReturn(returns[f]) => OpNamed("function_call_finalize", returns[f], f) \in all
  BY <1>6, <1>7, <1>8, <1>9, <1>10
<1> QED BY <1>11, <1>12 DEF all

Typed(op) == Unnumbered(op) \in TypedCalls(VarType, m_user_types, FunReturn)

\* A step whose call, if it makes one, is none of a value.
LEMMA OtherCall ==
  ASSUME \/ status' # "parsing"
         \/ emitted'.call \in Silent \cup Tests
  PROVE  CallsAreTyped'
BY DEF CallsAreTyped

LEMMA TypedCall ==
  ASSUME Typed(emitted)'
  PROVE  CallsAreTyped'
BY DEF CallsAreTyped, Typed

LEMMA StopsTyped ==
  ASSUME NEW how \in {"accepted", "error", "bug", "uncaught"}, NEW op, StopsAfter(op, how)
  PROVE  CallsAreTyped'
BY OtherCall DEF StopsAfter

LEMMA QuietTyped ==
  ASSUME Quiet
  PROVE  CallsAreTyped'
BY OtherCall, CallOf DEF Quiet, Silent

\* A call with a tag, or the test of a condition.
LEMMA TagTyped ==
  ASSUME NEW c \in Silent \cup Tests, NEW t, NEW x, NEW n,
         \/ Emit(OpOf(c, t))
         \/ Emit([OpOf(c, t) EXCEPT !.n = n])
         \/ Emit([OpNamed(c, t, x) EXCEPT !.n = n])
         \/ Emit(OpTag(c, n))
  PROVE  CallsAreTyped'
<1>1. emitted'.call = c
  BY DEF Emit, OpOf, OpNamed, OpTag, NoOp
<1> QED BY <1>1, OtherCall

LEMMA ConcreteTypes ==
  /\ \A t : CanCompare(t) => t \in Arithmetic
  /\ \A t : CanDisplay(t) \/ IsRegular(t) \/ IsFloat(t) => t \in Concrete
  /\ \A t : t \in Valid /\ TableKept /\ ~IsUserDefined(t) => t \in Concrete
<1>1. TableKept => \A t \in DOMAIN m_user_types : IsUserDefined(t)
  BY DEF TableKept, PointerTypesAreUnique, PointerTableOK, IsUserDefined, FIRST_USER_DEFINED
<1> QED BY <1>1 DEF CanCompare, CanDisplay, IsRegular, IsFloat, Concrete, Arithmetic, Integral, Floating, Valid

LEMMA OperatorsTyped ==
  ASSUME NEW op, NEW call \in {MulopCall, AddopCall}, op \in DOMAIN call, NEW first, NEW nth,
         OperandsMatch(first, nth, op)
  PROVE  \/ call[op] \in ArithmeticCalls /\ first \in Arithmetic
         \/ call[op] \in {"alu_and_bool", "alu_or_bool"} /\ first = BOOL
<1>1. CASE op \in {"MULOP_AND", "ADDOP_OR"}
  <2>1. first = BOOL
    BY <1>1 DEF OperandsMatch, Matches, BOOL, ARITHMETIC
  <2>2. call[op] \in {"alu_and_bool", "alu_or_bool"}
    BY <1>1 DEF MulopCall, AddopCall
  <2> QED BY <2>1, <2>2
<1>2. CASE op \notin {"MULOP_AND", "ADDOP_OR"}
  <2>1. first \in Arithmetic
    BY <1>2 DEF OperandsMatch, Matches
  <2>2. call[op] \in ArithmeticCalls
    BY <1>2 DEF MulopCall, AddopCall, ArithmeticCalls
  <2> QED BY <2>1, <2>2
<1> QED BY <1>1, <1>2

LEMMA CombineTyped ==
  ASSUME Structure, NEW rhs, NEW at, NEW call \in {MulopCall, AddopCall}, Combine(rhs, at, call),
         Top.op \in DOMAIN call
  PROVE  CallsAreTyped'
<1>1. CASE Stops("error")
  BY <1>1, StopsTyped DEF Stops
<1>2. CASE ~Stops("error")
  <2>1. OperandsMatch(Top.type, result.type, Top.op) /\ emitted' = OpOf(call[Top.op], Top.type)
        /\ UNCHANGED m_user_types
    BY <1>2 DEF Combine, Checked, Emit, types
  <2>2. PICK c, t : c = call[Top.op] /\ t = Top.type
    OBVIOUS
  <2>3. \/ c \in ArithmeticCalls /\ t \in Arithmetic
        \/ c \in {"alu_and_bool", "alu_or_bool"} /\ t = BOOL
    BY <2>1, <2>2, OperatorsTyped
  <2>4. OpOf(c, t) \in TypedCalls(VarType, m_user_types, FunReturn)
    BY <2>3, TypedMembers
  <2>5. Typed(emitted)'
    BY <2>1, <2>2, <2>4, UnnumberedCalls DEF Typed
  <2> QED BY <2>5, TypedCall
<1> QED BY <1>1, <1>2

LEMMA VariableReferenceTyped ==
  ASSUME Structure, VariableReference
  PROVE  CallsAreTyped'
<1>1. CASE Stops("error")
  BY <1>1, StopsTyped DEF Stops
<1>2. CASE ~Stops("error")
  <2> DEFINE target  == VarType[tok]
             pointer == PointerTo(m_user_types, m_first_free_type, target)
  <2>1. /\ tok \in DOMAIN VarType
        /\ m_user_types' = TableWith(m_user_types, m_first_free_type, target)
        /\ emitted' = OpNamed("load_pointer_to_variable", pointer, tok)
    BY <1>2 DEF VariableReference, Checked, Emit
  <2>2. PointerTableOK(m_user_types, m_first_free_type) /\ Pointers \subseteq DOMAIN m_user_types
    BY DEF Structure, TableKept, PointerTypesAreUnique
  <2>3. target \in Concrete \cup DOMAIN m_user_types
    BY <2>1, <2>2, DeclarationsAssumption DEF KnownTypes
  <2>4. pointer \in DOMAIN m_user_types' /\ m_user_types'[pointer] = target
    <3>1. PICK new, id, next : /\ new = TableWith(m_user_types, m_first_free_type, target)
                               /\ id = pointer /\ next = FreeAfter(m_user_types, m_first_free_type, target)
      OBVIOUS
    <3>2. id \in DOMAIN new /\ new[id] = target
      BY <2>2, <2>3, <3>1, CreateType
    <3> QED BY <2>1, <3>1, <3>2
  <2>5. PICK p, x : p = pointer /\ x = tok
    OBVIOUS
  <2>6. OpNamed("load_pointer_to_variable", p, x) \in TypedCalls(VarType, m_user_types', FunReturn)
    BY <2>1, <2>4, <2>5, TypedMembers
  <2>7. Typed(emitted)'
    BY <2>1, <2>5, <2>6, UnnumberedCalls DEF Typed
  <2> QED BY <2>7, TypedCall
<1> QED BY <1>1, <1>2

LEMMA ExpressionTyped ==
  ASSUME Structure, ExpressionStep
  PROVE  CallsAreTyped'
<1> USE QuietTyped DEF Stops
<1> DEFINE All(table) == TypedCalls(VarType, table, FunReturn)
<1>0. ASSUME NEW op, emitted' = op, Unnumbered(op) \in All(m_user_types), UNCHANGED m_user_types
      PROVE  CallsAreTyped'
  <2>1. Typed(emitted)'
    BY <1>0 DEF Typed
  <2> QED BY <2>1, TypedCall
<1> HIDE DEF All
<1>1. CASE ParseExpression \/ ParseSimpleExpression \/ ParseTerm \/ ParseFactor
  BY <1>1 DEF ParseExpression, ParseSimpleExpression, ParseTerm, ParseFactor, Descend
<1>2. CASE ParseNested \/ ExpectedExpression \/ CloseParenthesis
  BY <1>2, StopsTyped DEF ParseNested, ExpectedExpression, CloseParenthesis, Checked
<1>3. CASE ParseLiteral
  <2>1. CASE Stops("uncaught")
    BY <2>1, StopsTyped
  <2>2. CASE ~Stops("uncaught")
    <3>1. tok \in DOMAIN Literal /\ emitted' = OpOf("load_i64", Literal[tok]) /\ UNCHANGED m_user_types
      BY <1>3, <2>2 DEF ParseLiteral, Emit, types
    <3>2. Literal[tok] \in Arithmetic \cup {CHAR}
      BY <3>1 DEF Literal, Arithmetic, Integral, Floating
    <3>3. PICK t \in Arithmetic \cup {CHAR} : t = Literal[tok]
      BY <3>2
    <3>4. OpOf("load_i64", t) \in All(m_user_types)
      BY TypedMembers DEF All
    <3> QED BY <1>0, <3>1, <3>3, <3>4, UnnumberedCalls
  <2> QED BY <2>1, <2>2
<1>4. CASE NotOperand
  <2>1. CASE Stops("error")
    BY <2>1, StopsTyped
  <2>2. CASE ~Stops("error")
    <3>1. emitted' = OpOf("alu_not_bool", BOOL) /\ UNCHANGED m_user_types
      BY <1>4, <2>2 DEF NotOperand, Checked, Emit, types
    <3>2. OpOf("alu_not_bool", BOOL) \in All(m_user_types)
      BY TypedMembers DEF All
    <3> QED BY <1>0, <3>1, <3>2, UnnumberedCalls
  <2> QED BY <2>1, <2>2
<1>5. CASE VariableUsage
  <2>1. CASE Stops("error")
    BY <2>1, StopsTyped
  <2>2. CASE ~Stops("error")
    <3>1. /\ Top.name \in DOMAIN VarType /\ UNCHANGED m_user_types
          /\ emitted' = OpNamed("load_variable", VarType[Top.name], Top.name)
      BY <1>5, <2>2 DEF VariableUsage, Checked, Emit, types
    <3>2. PICK v \in DOMAIN VarType : v = Top.name
      BY <3>1
    <3>3. OpNamed("load_variable", VarType[v], v) \in All(m_user_types)
      BY TypedMembers DEF All
    <3> QED BY <1>0, <3>1, <3>2, <3>3, UnnumberedCalls
  <2> QED BY <2>1, <2>2
<1>6. CASE Dereference
  <2>1. CASE Stops("error")
    BY <2>1, StopsTyped
  <2>2. CASE ~Stops("error")
    <3>1. /\ result.type \in DOMAIN m_user_types /\ UNCHANGED m_user_types
          /\ emitted' = OpTo("load_value_from_pointer", result.type, m_user_types[result.type])
      BY <1>6, <2>2 DEF Dereference, Checked, Emit, types
    <3>2. PICK t \in DOMAIN m_user_types : t = result.type
      BY <3>1
    <3>3. OpTo("load_value_from_pointer", t, m_user_types[t]) \in All(m_user_types)
      BY TypedMembers DEF All
    <3> QED BY <1>0, <3>1, <3>2, <3>3, UnnumberedCalls
  <2> QED BY <2>1, <2>2
<1>7. CASE EndFactor \/ EndTerm \/ EndSimpleExpression \/ EndExpression
  BY <1>7 DEF EndFactor, EndTerm, EndSimpleExpression, EndExpression, LoopEnds
<1>8. CASE Mulop \/ Addop \/ Relop
  BY <1>8 DEF Mulop, Addop, Relop, Operator
<1>9. CASE CombineTerm
  <2>1. Top.op \in DOMAIN MulopCall
    BY <1>9, AtOK DEF CombineTerm, Combine, Structure, Resolved
  <2> QED BY <1>9, <2>1, CombineTyped DEF CombineTerm
<1>10. CASE CombineSimple
  <2>1. Top.op \in DOMAIN AddopCall
    BY <1>10, AtOK DEF CombineSimple, Combine, Structure, Resolved
  <2> QED BY <1>10, <2>1, CombineTyped DEF CombineSimple
<1>11. CASE Compare
  <2>1. Top.op \in DOMAIN RelopCall
    BY <1>11, AtOK DEF Compare, Structure, Resolved
  <2>2. CASE status' # "parsing"
    BY <2>2, OtherCall
  <2>3. CASE status' = "parsing"
    <3>1. /\ emitted' = [OpOf(RelopCall[Top.op], Top.type) EXCEPT !.n = m_label_tag'] /\ UNCHANGED m_user_types
          /\ CanCompare(Top.type)
      BY <1>11, <2>3 DEF Compare, Checked, StopsAfter, Emit, types
    <3>2. PICK c, t, n : c = RelopCall[Top.op] /\ t = Top.type /\ n = m_label_tag'
      OBVIOUS
    <3>3. c \in Compares /\ t \in Arithmetic
      BY <2>1, <3>1, <3>2, ConcreteTypes DEF RelopCall, Compares
    <3>4. OpOf(c, t) \in All(m_user_types)
      BY <3>3, TypedMembers DEF All
    <3>5. Unnumbered([OpOf(c, t) EXCEPT !.n = n]) = OpOf(c, t)
      BY UnnumberedCalls
    <3> QED BY <1>0, <3>1, <3>2, <3>4, <3>5
  <2> QED BY <2>2, <2>3
<1>12. CASE CastTo \/ ParseNamedType \/ ParsePointerType \/ ExpectedType \/ PointerTypeDone
  BY <1>12, StopsTyped
     DEF CastTo, ParseNamedType, ParsePointerType, ExpectedType, PointerTypeDone, Checked
<1>13. CASE Convert
  <2>2. CASE status' # "parsing"
    BY <2>2, OtherCall
  <2>3. CASE status' = "parsing"
    <3>1. /\ emitted' = OpTo("convert", Top.type, result.type) /\ UNCHANGED m_user_types
          /\ ~IsUserDefined(Top.type) /\ ~IsUserDefined(result.type) /\ CanConvert(Top.type, result.type)
      BY <1>13, <2>3 DEF Convert, Checked, StopsAfter, Emit, types
    <3>2. Top.type \in Valid /\ result.type \in Valid /\ TableKept
      BY <1>13, AtOK DEF Convert, At, Structure, Resolved, ResultResolved, Holding
    <3>3. PICK s, t \in Concrete : s = Top.type /\ t = result.type
      BY <3>1, <3>2, ConcreteTypes
    <3>4. OpTo("convert", s, t) \in All(m_user_types)
      BY <3>1, <3>3, TypedMembers DEF All
    <3> QED BY <1>0, <3>1, <3>3, <3>4, UnnumberedCalls
  <2> QED BY <2>2, <2>3
<1> QED
  BY <1>1, <1>2, <1>3, <1>4, <1>5, <1>6, <1>7, <1>8, <1>9, <1>10, <1>11, <1>12, <1>13, VariableReferenceTyped
  DEF ExpressionStep

LEMMA CallTyped ==
  ASSUME Structure, CallStep
  PROVE  CallsAreTyped'
<1> USE QuietTyped DEF Stops
<1>1. CASE CallInExpression \/ CallStatement \/ CallArgs \/ CallArg
  BY <1>1, StopsTyped DEF CallInExpression, CallStatement, BeginCall, CallArgs, CallArg, Checked
<1>2. CASE CallParam
  <2>1. CASE status' # "parsing"
    BY <2>1, OtherCall
  <2>2. CASE status' = "parsing"
    <3>1. PICK t, n : t = result.type /\ n = ArgumentIndex(Top, result.type)
      OBVIOUS
    <3>2. /\ emitted' = [OpOf("function_call_param", t) EXCEPT !.n = n] /\ UNCHANGED m_user_types
          /\ CanPass(t, Top.regs, Top.xmms)
      BY <1>2, <2>2, <3>1 DEF CallParam, Checked, StopsAfter, Emit, types
    <3>3. t \in Concrete
      BY <3>2, ConcreteTypes DEF CanPass
    <3>4. OpOf("function_call_param", t) \in TypedCalls(VarType, m_user_types, FunReturn)
      BY <3>3, TypedMembers
    <3>5. Unnumbered([OpOf("function_call_param", t) EXCEPT !.n = n]) = OpOf("function_call_param", t)
      BY UnnumberedCalls
    <3>6. Typed(emitted)'
      BY <3>2, <3>4, <3>5 DEF Typed
    <3> QED BY <3>6, TypedCall
  <2> QED BY <2>1, <2>2
<1>3. CASE CallFinish
  <2>1. CASE status' # "parsing"
    BY <2>1, OtherCall
  <2>2. CASE status' = "parsing"
    <3>0. Enters("call_finish") /\ frames # <<>> /\ Top.at \in InACall
      BY <1>3 DEF CallFinish, InCall, InACall
    <3>1. Top.name \in DOMAIN FunReturn
      BY <3>0, EntersOK DEF Resolved
    <3>2. PICK f \in DOMAIN FunReturn : f = Top.name
      BY <3>1
    <3>3. /\ emitted' = OpNamed("function_call_finalize", FunReturn[f], f) /\ UNCHANGED m_user_types
          /\ CanReturn(FunReturn[f])
      BY <1>3, <2>2, <3>2 DEF CallFinish, Checked, StopsAfter, Emit, types
    <3>4. OpNamed("function_call_finalize", FunReturn[f], f) \in TypedCalls(VarType, m_user_types, FunReturn)
      BY <3>3, TypedMembers
    <3>5. Typed(emitted)'
      BY <3>3, <3>4, UnnumberedCalls DEF Typed
    <3> QED BY <3>5, TypedCall
  <2> QED BY <2>1, <2>2
<1> QED BY <1>1, <1>2, <1>3 DEF CallStep

LEMMA StatementTyped ==
  ASSUME Structure, StatementStep
  PROVE  CallsAreTyped'
<1> USE QuietTyped DEF Stops
<1> DEFINE All(table) == TypedCalls(VarType, table, FunReturn)
<1>0. ASSUME NEW op, emitted' = op, Unnumbered(op) \in All(m_user_types), UNCHANGED m_user_types
      PROVE  CallsAreTyped'
  <2>1. Typed(emitted)'
    BY <1>0 DEF Typed
  <2> QED BY <2>1, TypedCall
<1> HIDE DEF All
<1>1. CASE ParseAssignment \/ StatementIdentifier \/ AssignTarget \/ DerefTarget \/ EndTarget
  BY <1>1, StopsTyped
     DEF ParseAssignment, StatementIdentifier, AssignTarget, DerefTarget, EndTarget, Checked
<1>2. CASE StoreVariable \/ LoadTarget
  <2>1. CASE status' # "parsing"
    BY <2>1, OtherCall
  <2>2. CASE status' = "parsing"
    <3>1. Top.name \in DOMAIN VarType
      BY <1>2, AtOK DEF StoreVariable, LoadTarget, Structure, Resolved, TargetChain
    <3>2. PICK v \in DOMAIN VarType : v = Top.name
      BY <3>1
    <3>3. /\ UNCHANGED m_user_types
          /\ \/ emitted' = OpNamed("store_variable", VarType[v], v)
             \/ emitted' = OpNamed("load_variable", VarType[v], v)
      BY <1>2, <2>2, <3>2 DEF StoreVariable, LoadTarget, CheckedAfter, StopsAfter, Emit, types
    <3>4. \A c \in {"load_variable", "store_variable"} : OpNamed(c, VarType[v], v) \in All(m_user_types)
      BY TypedMembers DEF All
    <3>5. \A c \in {"load_variable", "store_variable"} :
            Unnumbered(OpNamed(c, VarType[v], v)) = OpNamed(c, VarType[v], v)
      BY UnnumberedCalls
    <3> QED BY <1>0, <3>3, <3>4, <3>5
  <2> QED BY <2>1, <2>2
<1>3. CASE WalkTarget
  <2>1. /\ Top.at = "store_ptr" /\ Top \in Frame /\ TargetChain(Top) /\ Top.n \in 1 .. Len(Top.derefs)
        /\ UNCHANGED m_user_types
        /\ emitted' = OpTo("load_value_from_pointer", WalkType(Top), Top.derefs[Top.n])
    BY <1>3, AtOK DEF WalkTarget, Structure, Resolved, Emit, types
  <2>2. WalkType(Top) \in DOMAIN m_user_types /\ m_user_types[WalkType(Top)] = Top.derefs[Top.n]
    BY <2>1 DEF TargetChain, WalkType
  <2>3. PICK t \in DOMAIN m_user_types : t = WalkType(Top)
    BY <2>2
  <2>4. OpTo("load_value_from_pointer", t, m_user_types[t]) \in All(m_user_types)
    BY TypedMembers DEF All
  <2>5. emitted' = OpTo("load_value_from_pointer", t, m_user_types[t])
    BY <2>1, <2>2, <2>3
  <2>6. Unnumbered(OpTo("load_value_from_pointer", t, m_user_types[t])) \in All(m_user_types)
    BY <2>4, UnnumberedCalls
  <2>7. UNCHANGED m_user_types
    BY <2>1
  <2> QED BY <1>0, <2>5, <2>6, <2>7
<1>4. CASE StoreToPointer
  <2>1. CASE status' # "parsing"
    BY <2>1, OtherCall
  <2>2. CASE status' = "parsing"
    <3>1. /\ At("walk_target", "store_ptr") /\ Top.n >= Len(Top.derefs)
          /\ Matches(result.type, Top.type) /\ UNCHANGED m_user_types
          /\ emitted' = OpTo("store_value_to_pointer", result.type, WalkType(Top))
      BY <1>4, <2>2 DEF StoreToPointer, CheckedAfter, StopsAfter, Emit, types
    <3>2. /\ frames # <<>> /\ Top.at = "store_ptr" /\ Top \in Frame /\ Resolved(Top)
      BY <3>1, AtOK
    <3>3. /\ TargetChain(Top) /\ Top.derefs \in Seq(Type) /\ Top.derefs # <<>>
          /\ Top.n \in 1 .. Len(Top.derefs)
      BY <3>2, PointerTarget, WalkTypeOK
    <3>4. Top.n = Len(Top.derefs)
      BY <3>1, <3>3
    <3>5. /\ WalkType(Top) \in DOMAIN m_user_types
          /\ m_user_types[WalkType(Top)] = Top.type
      BY <3>3, <3>4 DEF TargetChain, WalkType
    <3>6. result.type = Top.type
      BY <3>1, <3>5, ValidTypes, ValuesMatch
    <3>7. PICK t \in DOMAIN m_user_types : t = WalkType(Top)
      BY <3>5
    <3>8. OpTo("store_value_to_pointer", m_user_types[t], t) \in All(m_user_types)
      BY TypedMembers DEF All
    <3>9. emitted' = OpTo("store_value_to_pointer", m_user_types[t], t)
      BY <3>1, <3>5, <3>6, <3>7
    <3>10. Unnumbered(OpTo("store_value_to_pointer", m_user_types[t], t)) \in All(m_user_types)
      BY <3>8, UnnumberedCalls
    <3>11. UNCHANGED m_user_types
      BY <3>1
    <3> QED BY <1>0, <3>9, <3>10, <3>11
  <2> QED BY <2>1, <2>2
<1>5. CASE ParseStatement \/ ParseNestedBlock \/ ExpectedStatement \/ BeginBlock \/ BlockItem \/ BlockNext
  BY <1>5, StopsTyped
     DEF ParseStatement, ParseNestedBlock, ExpectedStatement, BeginBlock, BlockItem, BlockNext, Checked
<1>6. CASE ParseConditional
  <2>1. Quiet \/ Emit(OpTag("statement_while_prepare", m_label_tag'))
    BY <1>6 DEF ParseConditional
  <2>2. "statement_while_prepare" \in Silent
    BY DEF Silent
  <2> QED BY <2>1, <2>2, TagTyped
<1>7. CASE IfElse \/ EndIf \/ EndWhile \/ EndFor
  <2>1. PICK c : Emit(OpTag(c, Top.n)) /\ c \in Silent
    BY <1>7 DEF IfElse, EndIf, EndWhile, EndFor, Closes, Silent
  <2> QED BY <2>1, TagTyped
<1>8. CASE IfCondition \/ WhileCondition \/ ForMax
  <2>1. \/ status' # "parsing"
        \/ Emit([OpOf("statement_if_post_check", BOOL) EXCEPT !.n = Top.n])
        \/ Emit([OpOf("statement_while_post_check", BOOL) EXCEPT !.n = Top.n])
        \/ Emit([OpNamed("statement_for_post_check", UNSIGNED_INT, Top.name) EXCEPT !.n = Top.n])
    BY <1>8 DEF IfCondition, WhileCondition, Condition, ForMax, Checked, StopsAfter
  <2> QED BY <2>1, OtherCall, TagTyped DEF Tests
<1>9. CASE Display
  <2>1. CASE status' # "parsing"
    BY <2>1, OtherCall
  <2>2. CASE status' = "parsing"
    <3>1. PICK t : t = result.type
      OBVIOUS
    <3>2. emitted' = OpOf("debug_display", t) /\ UNCHANGED m_user_types /\ CanDisplay(t)
      BY <1>9, <2>2, <3>1 DEF Display, Checked, StopsAfter, Emit, types
    <3>3. t \in Concrete
      BY <3>2, ConcreteTypes
    <3>4. OpOf("debug_display", t) \in All(m_user_types)
      BY <3>3, TypedMembers DEF All
    <3> QED BY <1>0, <3>2, <3>4, UnnumberedCalls
  <2> QED BY <2>1, <2>2
<1>10. CASE ForAssigned
  <2>1. status' # "parsing" \/ Emit(OpTag("statement_for_post_assignment", m_label_tag + 1))
    BY <1>10 DEF ForAssigned, Checked, CheckedAfter, StopsAfter
  <2>2. "statement_for_post_assignment" \in Silent
    BY DEF Silent
  <2> QED BY <2>1, <2>2, OtherCall, TagTyped
<1>11. CASE EndMain \/ EndOfFile
  <2>1. status' # "parsing" \/ Emit(OpOf("finalize_main_procedure", VOID))
    BY <1>11 DEF EndMain, EndOfFile, Checked, StopsAfter
  <2>2. "finalize_main_procedure" \in Silent
    BY DEF Silent
  <2> QED BY <2>1, <2>2, OtherCall, TagTyped
<1> QED BY <1>1, <1>2, <1>3, <1>4, <1>5, <1>6, <1>7, <1>8, <1>9, <1>10, <1>11
  DEF StatementStep

LEMMA StepTyped ==
  ASSUME Structure, CallsAreTyped, [Next]_vars
  PROVE  CallsAreTyped'
<1>1. CASE UNCHANGED vars
  BY <1>1 DEF vars, output, types, CallsAreTyped
<1>2. CASE Stopped
  BY <1>1, <1>2 DEF Stopped
<1> QED BY <1>1, <1>2, ExpressionTyped, CallTyped, StatementTyped DEF Next

(***************************************************************************)
(* Whatever the source text, the calls of the parser are those the theorems*)
(* about code speak of: an operation is called with the type its operands  *)
(* have, an access through a pointer with the type it points to, a         *)
(* conversion between types convert() knows (parse_expression and the      *)
(* functions below it, parse_assignment_statement_after_identifier).       *)
(***************************************************************************)
THEOREM CallsTyped == Spec => []CallsAreTyped
<1>1. Init => CallsAreTyped
  BY CallOf DEF Init, CallsAreTyped, Silent
<1>2. Structure /\ CallsAreTyped /\ [Next]_vars => CallsAreTyped'
  BY StepTyped
<1> QED BY <1>1, <1>2, StructureHolds, PTL DEF Spec

-----------------------------------------------------------------------------
(***************************************************************************)
(* What steps do to the activations, apart from those of IF, WHILE and FOR *)
(* that hold a tag or a variable.                                          *)
(***************************************************************************)
Untagged == {"main", "block", "term_rhs", "simple_rhs", "expr_rhs", "cast_to", "expr", "simple",
             "term", "factor", "paren", "not", "cast", "pointer_type", "identifier", "call",
             "call_statement", "statement_name", "target", "deref", "assign", "assign_ptr",
             "store_ptr", "display", "for_assign"}

Halted == \E op, how : StopsAfter(op, how)

Plain == \/ UNCHANGED frames
         \/ Pop /\ Top.at \in Untagged
         \/ \E f : Push(f) /\ f.at \in Untagged
         \/ \E f : Become(f) /\ f.at \in Untagged /\ Top.at \in Untagged

LEMMA NotTagged == Untagged \cap Tagged = {}
BY DEF Untagged, Tagged

LEMMA PlainPush ==
  ASSUME NEW f, f.at \in Untagged, Push(f)
  PROVE  Plain
BY DEF Plain

LEMMA PlainBecome ==
  ASSUME NEW f, f.at \in Untagged, Top.at \in Untagged, Become(f)
  PROVE  Plain
BY DEF Plain

\* What an assignment returns to its statement; the other statements return nothing.
Assigned == pc = "done" /\ result.type # VOID =>
              result.name \in DOMAIN VarType /\ VarType[result.name] = result.type

LEMMA AssignedMoves ==
  ASSUME \/ \E p : Goto(p)
         \/ \E p, r : p # "done" /\ Returns(p, r)
         \/ \E t : Yields(t)
  PROVE  Assigned'
BY DEF Assigned, Goto, Returns, Yields, Nothing

LEMMA ActivationAt ==
  ASSUME NEW at, NEW x, NEW n
  PROVE  /\ Activation(at).at = at
         /\ [Activation(at) EXCEPT !.name = x].at = at
         /\ [Activation(at) EXCEPT !.n = n].at = at
         /\ [Activation(at) EXCEPT !.n = n].n = n
BY DEF Activation

LEMMA BecomeAt ==
  ASSUME NEW f \in Frame, NEW at, NEW n, NEW t, NEW d, NEW x, NEW o, NEW r
  PROVE  /\ [f EXCEPT !.at = at].at = at
         /\ [f EXCEPT !.at = at].n = f.n
         /\ [f EXCEPT !.at = at].name = f.name
         /\ [f EXCEPT !.at = at, !.n = n].at = at
         /\ [f EXCEPT !.at = at, !.type = t].at = at
         /\ [f EXCEPT !.at = at, !.type = t, !.op = o].at = at
         /\ [f EXCEPT !.at = at, !.name = x, !.n = n].at = at
         /\ [f EXCEPT !.at = at, !.name = x, !.n = n].name = x
         /\ [f EXCEPT !.at = at, !.name = x, !.n = n].n = n
         /\ [f EXCEPT !.n = n].at = f.at
         /\ [f EXCEPT !.type = t, !.derefs = d].at = f.at
         /\ [f EXCEPT !.n = n, !.regs = r, !.xmms = x].at = f.at
BY DEF Frame

LEMMA PlainExpressions ==
  ASSUME Structure, ExpressionStep
  PROVE  Halted \/ (frames # <<>> /\ Plain /\ Assigned')
<1> USE DEF Halted, Stops
<1>1. frames # <<>> => Top \in Frame
  BY TopOK DEF Structure, TypeOK
<1>2. ASSUME NEW from, NEW at \in Untagged, NEW to, Descend(from, at, to), from # "end"
      PROVE  frames # <<>> /\ Plain /\ Assigned'
  BY <1>2, PlainPush, AssignedMoves, ActivationAt, EntersOK DEF Descend
<1>3. CASE ParseExpression \/ ParseSimpleExpression \/ ParseTerm \/ ParseFactor
  BY <1>2, <1>3 DEF ParseExpression, ParseSimpleExpression, ParseTerm, ParseFactor, Untagged
<1>4. CASE ParseNested
  <2>1. frames # <<>> /\ Assigned'
    BY <1>4, AssignedMoves, EntersOK DEF ParseNested
  <2>2. \/ UNCHANGED frames
        \/ \E at \in {"paren", "not", "cast"} : Push(Activation(at))
        \/ Push([Activation("identifier") EXCEPT !.name = tok])
    BY <1>4 DEF ParseNested
  <2>3. \A at \in {"paren", "not", "cast"} : Activation(at).at \in Untagged
    BY ActivationAt DEF Untagged
  <2>4. [Activation("identifier") EXCEPT !.name = tok].at \in Untagged
    BY ActivationAt DEF Untagged
  <2> QED BY <2>1, <2>2, <2>3, <2>4 DEF Plain
<1>5. CASE ParseLiteral \/ ExpectedExpression
  BY <1>5, AssignedMoves, EntersOK DEF ParseLiteral, ExpectedExpression, Plain
<1>6. CASE VariableReference \/ Dereference \/ ParseNamedType \/ ExpectedType
  <2>1. \/ Halted
        \/ UNCHANGED frames /\ \E t : Yields(t)
        \/ UNCHANGED frames /\ \E r : Returns("type_done", r)
    BY <1>6 DEF VariableReference, Dereference, ParseNamedType, ExpectedType, Checked
  <2>2. frames # <<>>
    BY <1>6, EntersOK DEF VariableReference, Dereference, ParseNamedType, ExpectedType, At
  <2> QED BY <2>1, <2>2, AssignedMoves DEF Plain
<1>7. CASE CloseParenthesis \/ NotOperand \/ VariableUsage \/ EndFactor \/ EndTerm
           \/ EndSimpleExpression \/ EndExpression \/ Compare \/ PointerTypeDone \/ Convert
  <2>1. \/ Halted
        \/ frames # <<>> /\ Pop /\ \E t : Yields(t)
        \/ frames # <<>> /\ Pop /\ \E p, r : p # "done" /\ Returns(p, r)
    BY <1>7 DEF CloseParenthesis, NotOperand, VariableUsage, EndFactor, EndTerm,
                EndSimpleExpression, EndExpression, LoopEnds, Compare, PointerTypeDone,
                Convert, Checked, At
  <2>2. Top.at \in Untagged
    BY <1>7 DEF CloseParenthesis, NotOperand, VariableUsage, EndFactor, EndTerm,
                EndSimpleExpression, EndExpression, LoopEnds, Compare, PointerTypeDone,
                Convert, At, Untagged
  <2> QED BY <2>1, <2>2, AssignedMoves DEF Plain
<1>8. CASE Mulop \/ Addop \/ Relop \/ CombineTerm \/ CombineSimple \/ CastTo
  <2>1. Top.at \in Untagged /\ frames # <<>>
    BY <1>8 DEF Mulop, Addop, Relop, Operator, CombineTerm, CombineSimple, Combine, CastTo, At, Untagged
  <2>2. \/ Halted
        \/ /\ Assigned'
           /\ \E at \in {"term_rhs", "simple_rhs", "expr_rhs", "term", "simple", "cast_to"} : \E t, op :
                \/ Become([Top EXCEPT !.at = at, !.type = t, !.op = op])
                \/ Become([Top EXCEPT !.at = at, !.type = t])
    BY <1>8, AssignedMoves
       DEF Mulop, Addop, Relop, Operator, CombineTerm, CombineSimple, Combine, CastTo, Checked
  <2>3. \A at \in {"term_rhs", "simple_rhs", "expr_rhs", "term", "simple", "cast_to"} : \A t, op :
          /\ [Top EXCEPT !.at = at, !.type = t, !.op = op].at \in Untagged
          /\ [Top EXCEPT !.at = at, !.type = t].at \in Untagged
    BY <1>1, <2>1, BecomeAt DEF Untagged
  <2> QED BY <2>1, <2>2, <2>3, PlainBecome
<1>9. CASE ParsePointerType
  <2>1. frames # <<>> /\ Assigned' /\ Push(Activation("pointer_type"))
    BY <1>9, AssignedMoves, EntersOK DEF ParsePointerType
  <2>2. Activation("pointer_type").at \in Untagged
    BY ActivationAt DEF Untagged
  <2> QED BY <2>1, <2>2, PlainPush
<1> QED BY <1>3, <1>4, <1>5, <1>6, <1>7, <1>8, <1>9 DEF ExpressionStep

LEMMA PlainCalls ==
  ASSUME Structure, CallStep
  PROVE  Halted \/ (frames # <<>> /\ Plain /\ Assigned')
<1> USE DEF Halted, Stops
<1>1. frames # <<>> => Top \in Frame /\ (Top.at \in InACall => Top.at \in Untagged)
  BY TopOK DEF Structure, TypeOK, InACall, Untagged
<1>2. CASE CallInExpression \/ CallStatement
  <2>1. \/ Halted
        \/ /\ Assigned' /\ frames # <<>> /\ Top.at \in {"identifier", "statement_name"}
           /\ \E at \in InACall : Become([Top EXCEPT !.at = at])
    BY <1>2, AssignedMoves DEF CallInExpression, CallStatement, BeginCall, Checked, At, InACall
  <2>2. ASSUME frames # <<>>
        PROVE  \A at \in InACall : [Top EXCEPT !.at = at].at \in Untagged
    BY <1>1, <2>2, BecomeAt DEF InACall, Untagged
  <2>3. {"identifier", "statement_name"} \subseteq Untagged
    BY DEF Untagged
  <2> QED BY <2>1, <2>2, <2>3, PlainBecome
<1>3. CASE CallArgs \/ CallArg
  BY <1>3, AssignedMoves DEF CallArgs, CallArg, Checked, Plain, InCall
<1>4. CASE CallParam
  <2>1. frames # <<>> /\ Top.at \in InACall
    BY <1>4 DEF CallParam, InCall, InACall
  <2>2. CASE ~Halted
    <3> DEFINE f == [Top EXCEPT !.n = @ + 1,
                       !.regs = IF IsRegular(result.type) THEN @ + 1 ELSE @,
                       !.xmms = IF IsRegular(result.type) THEN @ ELSE @ + 1]
    <3>1. (Goto("call_arg") \/ Goto("call_finish")) /\ Become(f)
      BY <1>4, <2>2 DEF CallParam, Checked
    <3>2. f.at = Top.at
      BY <1>1, <2>1, BecomeAt
    <3> HIDE DEF f
    <3> QED BY <1>1, <2>1, <3>1, <3>2, PlainBecome, AssignedMoves
  <2> QED BY <2>2
<1>5. CASE CallFinish
  <2>1. \/ Halted
        \/ frames # <<>> /\ Top.at \in InACall /\ Pop /\ ((\E t : Yields(t)) \/ Goto("done"))
    BY <1>5 DEF CallFinish, Checked, InCall, InACall, Done
  <2> QED BY <1>1, <2>1, AssignedMoves DEF Plain
<1> QED BY <1>2, <1>3, <1>4, <1>5 DEF CallStep

LEMMA PlainStatements ==
  ASSUME Structure,
         \/ ParseAssignment \/ StatementIdentifier \/ AssignTarget \/ DerefTarget \/ EndTarget
         \/ StoreVariable \/ LoadTarget \/ WalkTarget \/ StoreToPointer \/ ParseStatement
         \/ ParseNestedBlock \/ ExpectedStatement \/ Display \/ BeginBlock \/ BlockItem \/ BlockNext
         \/ EndMain \/ EndOfFile
  PROVE  Halted \/ (frames # <<>> /\ Plain /\ Assigned')
<1> USE DEF Halted, Stops
<1>1. frames # <<>> => Top \in Frame
  BY TopOK DEF Structure, TypeOK
<1>2. CASE ParseAssignment
  <2>1. Halted \/ (Push([Activation("target") EXCEPT !.name = tok]) /\ Goto("assign_target"))
    BY <1>2 DEF ParseAssignment, Checked
  <2>2. [Activation("target") EXCEPT !.name = tok].at \in Untagged
    BY ActivationAt DEF Untagged
  <2>3. frames # <<>>
    BY <1>2, EntersOK DEF ParseAssignment
  <2> QED BY <2>1, <2>2, <2>3, PlainPush, AssignedMoves
<1>3. CASE StatementIdentifier \/ AssignTarget \/ EndTarget
  <2>1. frames # <<>> /\ Top.at \in Untagged
    BY <1>3 DEF StatementIdentifier, AssignTarget, EndTarget, At, Untagged
  <2>2. \/ Halted
        \/ /\ Goto("assign_target") \/ Goto("deref_target") \/ Goto("expression")
           /\ \/ \E at \in {"target", "assign", "assign_ptr"} : Become([Top EXCEPT !.at = at])
              \/ Become([Top EXCEPT !.at = "deref", !.type = VarType[Top.name]])
    BY <1>3 DEF StatementIdentifier, AssignTarget, EndTarget, Checked
  <2>3. /\ \A at \in {"target", "assign", "assign_ptr"} : [Top EXCEPT !.at = at].at \in Untagged
        /\ [Top EXCEPT !.at = "deref", !.type = VarType[Top.name]].at \in Untagged
    BY <1>1, <2>1, BecomeAt DEF Untagged
  <2> QED BY <2>1, <2>2, <2>3, PlainBecome, AssignedMoves
<1>4. CASE DerefTarget
  <2>1. frames # <<>> /\ Top.at = "deref" /\ Top.at \in Untagged
    BY <1>4 DEF DerefTarget, At, Untagged
  <2>2. \/ Halted
        \/ Goto("deref_target") /\ \E t, d : Become([Top EXCEPT !.type = t, !.derefs = d])
    BY <1>4 DEF DerefTarget, Checked
  <2>3. \A t, d : [Top EXCEPT !.type = t, !.derefs = d].at \in Untagged
    BY <1>1, <2>1, BecomeAt
  <2> QED BY <2>1, <2>2, <2>3, PlainBecome, AssignedMoves
<1>5. CASE LoadTarget \/ WalkTarget
  <2>1. frames # <<>> /\ Top.at \in {"assign_ptr", "store_ptr"} /\ Top.at \in Untagged
    BY <1>5 DEF LoadTarget, WalkTarget, At, Untagged
  <2>2. Returns("walk_target", result)
        /\ \/ Become([Top EXCEPT !.at = "store_ptr", !.n = 1])
           \/ Become([Top EXCEPT !.n = @ + 1])
    BY <1>5 DEF LoadTarget, WalkTarget
  <2>3. /\ [Top EXCEPT !.at = "store_ptr", !.n = 1].at \in Untagged
        /\ [Top EXCEPT !.n = @ + 1].at \in Untagged
    BY <1>1, <2>1, BecomeAt DEF Untagged
  <2> QED BY <2>1, <2>2, <2>3, PlainBecome, AssignedMoves
<1>6. CASE StoreVariable
  <2>1. /\ At("return", "assign")
        /\ \/ Halted
           \/ Pop /\ Returns("done", [type |-> VarType[Top.name], name |-> Top.name])
    BY <1>6 DEF StoreVariable, CheckedAfter
  <2>2. frames # <<>> /\ Top.at \in Untagged /\ Top.name \in DOMAIN VarType
    BY <2>1, AtOK DEF Resolved, Untagged
  <2>3. Returns("done", [type |-> VarType[Top.name], name |-> Top.name]) => Assigned'
    BY <2>2 DEF Assigned, Returns
  <2> QED BY <2>1, <2>2, <2>3 DEF Plain
<1>7. CASE StoreToPointer \/ Display \/ EndMain
  BY <1>7, AssignedMoves
     DEF StoreToPointer, Display, EndMain, Plain, At, Checked, CheckedAfter, Done, Untagged
<1>8. CASE ParseStatement \/ BeginBlock
  <2>1. frames # <<>>
    BY <1>8, EntersOK DEF ParseStatement, BeginBlock
  <2>2. \/ Halted
        \/ /\ Assigned'
           /\ \/ \E at \in {"display", "for_assign", "block"} : Push(Activation(at))
              \/ Push([Activation("statement_name") EXCEPT !.name = tok])
    BY <1>8, AssignedMoves DEF ParseStatement, BeginBlock, Checked
  <2>3. /\ \A at \in {"display", "for_assign", "block"} : Activation(at).at \in Untagged
        /\ [Activation("statement_name") EXCEPT !.name = tok].at \in Untagged
    BY ActivationAt DEF Untagged
  <2> QED BY <2>1, <2>2, <2>3, PlainPush
<1>9. CASE ParseNestedBlock \/ ExpectedStatement \/ EndOfFile
  BY <1>9, EntersOK, AssignedMoves DEF ParseNestedBlock, ExpectedStatement, EndOfFile, Plain
<1>10. CASE BlockItem \/ BlockNext
  BY <1>10, AssignedMoves DEF BlockItem, BlockNext, Plain, At, Checked, Done, Untagged
<1> QED BY <1>2, <1>3, <1>4, <1>5, <1>6, <1>7, <1>8, <1>9, <1>10

\* The steps that begin, continue or end an IF or a WHILE.
LEMMA Conditionals ==
  ASSUME Structure,
         ParseConditional \/ IfCondition \/ WhileCondition \/ IfElse \/ EndIf \/ EndWhile \/ EndFor
  PROVE  Halted \/ (/\ frames # <<>> /\ Assigned'
                    /\ \/ Pop
                       \/ \E f : (Push(f) \/ Become(f)) /\ f.at \in Tagged \ {"for_max", "for_body"})
<1> USE DEF Halted, Stops
<1>1. CASE ParseConditional
  <2>1. frames # <<>> /\ Assigned'
        /\ \E at \in {"if_cond", "while_cond"} : Push([Activation(at) EXCEPT !.n = m_label_tag'])
    BY <1>1, EntersOK, AssignedMoves DEF ParseConditional
  <2>2. \A at \in {"if_cond", "while_cond"} :
          [Activation(at) EXCEPT !.n = m_label_tag'].at \in Tagged \ {"for_max", "for_body"}
    BY ActivationAt DEF Tagged
  <2> QED BY <2>1, <2>2
<1>2. CASE IfCondition \/ WhileCondition \/ IfElse
  <2>1. \/ Halted
        \/ /\ frames # <<>> /\ (Goto("statement") \/ Goto("done"))
           /\ \E at \in {"if_then", "while_body", "if_end"} : Become([Top EXCEPT !.at = at])
    BY <1>2 DEF IfCondition, WhileCondition, Condition, IfElse, Checked, At
  <2>2. frames # <<>> => \A at \in {"if_then", "while_body", "if_end"} :
                           [Top EXCEPT !.at = at].at \in Tagged \ {"for_max", "for_body"}
    BY TopOK, BecomeAt DEF Structure, TypeOK, Tagged
  <2> QED BY <2>1, <2>2, AssignedMoves
<1>3. CASE EndIf \/ EndWhile \/ EndFor
  BY <1>3, AssignedMoves DEF EndIf, EndWhile, EndFor, Closes, At, Done
<1> QED BY <1>1, <1>2, <1>3

-----------------------------------------------------------------------------
(***************************************************************************)
(* FOR: the result of the assignment names the variable of the loop.       *)
(***************************************************************************)
Looping == {"for_max", "for_body"}

CountsIn(f) == f.at \in Looping => f.name \in DOMAIN VarType /\ VarType[f.name] = UNSIGNED_INT

LoopsResolved == Assigned /\ \A i \in 1 .. Len(frames) : CountsIn(frames[i])

LEMMA LoopsPush ==
  ASSUME FramesOK, LoopsResolved, NEW f, Push(f), f.at \notin Looping, Assigned'
  PROVE  LoopsResolved'
<1>1. /\ frames' = Append(frames, f) /\ Len(frames) \in Nat
  BY DEF FramesOK, Push
<1>2. /\ Len(frames') = Len(frames) + 1 /\ frames'[Len(frames) + 1] = f
      /\ \A i \in 1 .. Len(frames) : frames'[i] = frames[i]
  BY DEF FramesOK, Push
<1>3. \A i \in 1 .. Len(frames') : i \in 1 .. Len(frames) \/ i = Len(frames) + 1
  BY <1>1, <1>2
<1> QED BY <1>2, <1>3 DEF LoopsResolved, CountsIn

LEMMA LoopsBecome ==
  ASSUME FramesOK, frames # <<>>, LoopsResolved, NEW f, Become(f), CountsIn(f), Assigned'
  PROVE  LoopsResolved'
<1>1. /\ Len(frames') = Len(frames)
      /\ \A i \in 1 .. Len(frames) : frames'[i] = frames[i] \/ frames'[i] = f
  BY DEF FramesOK, Become
<1> QED BY <1>1 DEF LoopsResolved, CountsIn

LEMMA LoopsPop ==
  ASSUME FramesOK, frames # <<>>, LoopsResolved, Pop, Assigned'
  PROVE  LoopsResolved'
<1>1. /\ Len(frames') <= Len(frames) /\ Len(frames') \in Nat
      /\ \A i \in 1 .. Len(frames') : frames'[i] = frames[i]
  BY DEF FramesOK, Pop
<1> QED BY <1>1 DEF LoopsResolved, CountsIn

LEMMA LoopsSame ==
  ASSUME LoopsResolved, UNCHANGED frames, Assigned'
  PROVE  LoopsResolved'
BY DEF LoopsResolved, CountsIn

LEMMA LoopsStop ==
  ASSUME LoopsResolved, Halted
  PROVE  LoopsResolved'
BY DEF Halted, StopsAfter, LoopsResolved, Assigned, CountsIn

LEMMA TopCounts ==
  ASSUME Structure, LoopsResolved, frames # <<>>
  PROVE  CountsIn(Top) /\ FramesOK /\ Top \in Frame /\ Len(frames) \in Nat
BY TopOK DEF Structure, TypeOK, LoopsResolved

LEMMA LoopsPlain ==
  ASSUME Structure, LoopsResolved,
         \/ Halted
         \/ frames # <<>> /\ Plain /\ Assigned'
  PROVE  LoopsResolved'
<1>1. \A at \in Untagged : at \notin Looping
  BY NotTagged DEF Looping, Tagged
<1> QED BY <1>1, LoopsPush, LoopsBecome, LoopsPop, LoopsSame, LoopsStop, TopCounts DEF Plain, CountsIn

LEMMA LoopsConditional ==
  ASSUME Structure, LoopsResolved,
         ParseConditional \/ IfCondition \/ WhileCondition \/ IfElse \/ EndIf \/ EndWhile \/ EndFor
  PROVE  LoopsResolved'
<1>1. \A at \in Tagged \ {"for_max", "for_body"} : at \notin Looping
  BY DEF Looping
<1> QED BY <1>1, Conditionals, LoopsPush, LoopsBecome, LoopsPop, LoopsStop, TopCounts DEF CountsIn

\* The activation of a FOR while its assignment is parsed: the variable is still to come.
LEMMA ForAssignedLoops ==
  ASSUME Structure, LoopsResolved, ForAssigned
  PROVE  LoopsResolved'
<1>1. At("done", "for_assign")
  BY DEF ForAssigned
<1>2. frames # <<>> /\ Top \in Frame /\ pc = "done" /\ FramesOK
  BY <1>1, AtOK DEF Structure, TypeOK
<1>3. CASE Halted
  BY <1>3, LoopsStop
<1>4. CASE ~Halted
  <2> DEFINE f == [Top EXCEPT !.at = "for_max", !.name = result.name, !.n = m_label_tag']
  <2>1. Matches(result.type, UNSIGNED_INT) /\ Become(f) /\ Goto("expression")
    BY <1>4 DEF ForAssigned, Checked, CheckedAfter, Stops, Halted
  <2>2. result.type = UNSIGNED_INT /\ result.type # VOID
    BY <2>1 DEF Matches, UNSIGNED_INT, ARITHMETIC, VOID
  <2>3. f.at = "for_max" /\ f.name = result.name
    BY <1>2 DEF Frame
  <2>4. CountsIn(f)
    BY <1>2, <2>2, <2>3 DEF LoopsResolved, Assigned, CountsIn
  <2> HIDE DEF f
  <2> QED BY <1>2, <2>1, <2>4, LoopsBecome, AssignedMoves
<1> QED BY <1>3, <1>4

LEMMA ForMaxLoops ==
  ASSUME Structure, LoopsResolved, ForMax
  PROVE  LoopsResolved'
<1>1. frames # <<>> /\ Top.at = "for_max" /\ CountsIn(Top) /\ Top \in Frame /\ FramesOK
  BY TopCounts DEF ForMax, At
<1>2. Stops("error") \/ (Become([Top EXCEPT !.at = "for_body"]) /\ Goto("statement"))
  BY DEF ForMax, Checked
<1>3. CountsIn([Top EXCEPT !.at = "for_body"])
  BY <1>1 DEF CountsIn, Looping, Frame
<1> QED BY <1>1, <1>2, <1>3, LoopsBecome, LoopsStop, AssignedMoves DEF Stops, Halted

LEMMA StepLoops ==
  ASSUME Structure, LoopsResolved, [Next]_vars
  PROVE  LoopsResolved'
<1>1. CASE UNCHANGED vars
  BY <1>1 DEF vars, LoopsResolved, Assigned, CountsIn
<1>2. CASE Stopped
  BY <1>1, <1>2 DEF Stopped
<1>3. CASE StatementStep
  BY <1>3, PlainStatements, LoopsPlain, LoopsConditional, ForAssignedLoops, ForMaxLoops
  DEF StatementStep
<1> QED BY <1>1, <1>2, <1>3, PlainExpressions, PlainCalls, LoopsPlain DEF Next

(***************************************************************************)
(* Whatever the assignment of a FOR is, and whatever its bound and its     *)
(* body contain, the loop tests and increments an INTEGER variable of the  *)
(* program (parse_for_statement): an assignment through a pointer returns  *)
(* no variable and is refused.                                             *)
(***************************************************************************)
THEOREM LoopsCountIntegers == Spec => []LoopVariablesAreIntegers
<1>1. Init => LoopsResolved
  <2> SUFFICES ASSUME Init
               PROVE  LoopsResolved
    OBVIOUS
  <2>1. Len(frames) = 1 /\ frames[1] = Activation("main") /\ pc = "block_statement"
    BY DEF Init
  <2>2. "main" \notin Looping
    BY DEF Looping
  <2> QED BY <2>1, <2>2, ActivationAt DEF LoopsResolved, CountsIn, Assigned
<1>2. Structure /\ LoopsResolved /\ [Next]_vars => LoopsResolved'
  BY StepLoops
<1>3. LoopsResolved => LoopVariablesAreIntegers
  BY DEF LoopsResolved, CountsIn, Looping, LoopVariablesAreIntegers
<1> QED BY <1>1, <1>2, <1>3, StructureHolds, PTL DEF Spec

-----------------------------------------------------------------------------

(***************************************************************************)
(* Labels.                                                                 *)
(***************************************************************************)

TagsOK == TagsTaken /\ TagsKept /\ TagsDiffer

LEMMA LabelTags ==
  ASSUME NEW f
  PROVE  /\ \A l \in Unwritten(f) \cup Written(f) : l[2] = f.n
         /\ Owes(f) \subseteq Unwritten(f)
         /\ f.at \notin Tagged => Unwritten(f) = {} /\ Written(f) = {}
BY DEF Unwritten, Written, Owes, Tagged, Label

-----------------------------------------------------------------------------
(***************************************************************************)
(* What a step does to the labels: `k` activations stay, at most one goes  *)
(* (`gone`) and at most one comes (`new`).  The step defines labels of a   *)
(* tag it takes, or labels that `gone` had still to define.                *)
(***************************************************************************)
Took(t) == m_label_tag' = m_label_tag + 1 /\ t = m_label_tag'

\* What the step has to say of the activation that comes, of the one that goes and of
\* the labels the step defines, D, and jumps to, J.
NewOK(new, gone, D) ==
  new.at \in Tagged =>
    /\ \/ Took(new.n)
       \/ gone.at \in Tagged /\ new.n = gone.n /\ Unwritten(new) \subseteq Unwritten(gone)
    /\ Unwritten(new) \cap D = {}
    /\ \A l \in Written(new) : l \in D \/ l \in Written(gone)

Resolving(owed, gone, D, J) ==
  /\ \A l \in Owes(gone) : l \in D \cup owed
  /\ \A l \in J : l \in D \cup Written(gone) \cup owed

Defining(gone, D) == \A l \in D : Took(l[2]) \/ l \in Unwritten(gone)

LEMMA TagsStep ==
  ASSUME FramesOK, FramesOK', m_label_tag \in Nat,
         m_label_tag' \in {m_label_tag, m_label_tag + 1},
         TagsOK,
         NEW k \in Nat, NEW gone, NEW D,
         k <= Len(frames), k <= Len(frames'), Len(frames) <= k + 1, Len(frames') <= k + 1,
         \A i \in 1 .. k : frames'[i] = frames[i],
         gone.at \in Tagged => Len(frames) = k + 1 /\ gone = frames[k + 1],
         Len(frames') = k + 1 => NewOK(frames'[k + 1], gone, D),
         Defining(gone, D), defined' = defined \cup D
  PROVE  TagsOK' /\ D \cap defined = {}
<1>1. /\ Len(frames) \in Nat /\ Len(frames') \in Nat
      /\ \A i \in 1 .. Len(frames') : i \in 1 .. k \/ (i = k + 1 /\ Len(frames') = k + 1)
      /\ \A i \in 1 .. k : i \in 1 .. Len(frames) /\ i # k + 1
  <2>1. Len(frames) \in Nat /\ Len(frames') \in Nat
    BY DEF FramesOK
  <2> QED BY <2>1
<1>2. \A i \in 1 .. Len(frames) : frames[i].at \in Tagged =>
        /\ frames[i].n \in 1 .. m_label_tag
        /\ Unwritten(frames[i]) \cap defined = {}
        /\ Written(frames[i]) \subseteq defined
  BY DEF TagsOK, TagsKept
<1>3. gone.at \in Tagged =>
        /\ gone.n \in 1 .. m_label_tag
        /\ Unwritten(gone) \cap defined = {} /\ Written(gone) \subseteq defined
        /\ \A i \in 1 .. k : frames[i].at \in Tagged => frames[i].n # gone.n
  BY <1>1, <1>2 DEF TagsOK, TagsDiffer
<1>4. ASSUME NEW l \in D
      PROVE  \/ l[2] = m_label_tag + 1 /\ m_label_tag' = m_label_tag + 1
             \/ l \in Unwritten(gone) /\ l[2] = gone.n /\ gone.at \in Tagged
  BY LabelTags DEF Defining, Took
<1>5. D \cap defined = {}
  BY <1>3, <1>4 DEF TagsOK, TagsTaken
<1>6. TagsTaken'
  <2> SUFFICES ASSUME NEW l \in defined'
               PROVE  l[2] \in 1 .. m_label_tag'
    BY DEF TagsTaken
  <2>1. CASE l \in defined
    BY <2>1 DEF TagsOK, TagsTaken
  <2>2. CASE l \in D
    BY <1>3, <1>4, <2>2
  <2> QED BY <2>1, <2>2
<1>7. ASSUME NEW i \in 1 .. k, frames[i].at \in Tagged
      PROVE  /\ frames[i].n \in 1 .. m_label_tag'
             /\ Unwritten(frames[i]) \cap defined' = {}
             /\ Written(frames[i]) \subseteq defined'
  <2>1. /\ frames[i].n \in 1 .. m_label_tag
        /\ Unwritten(frames[i]) \cap defined = {}
        /\ Written(frames[i]) \subseteq defined
    BY <1>1, <1>2, <1>7
  <2>2. ASSUME NEW l \in Unwritten(frames[i]), l \in D
        PROVE  FALSE
    <3>1. l[2] = frames[i].n
      BY LabelTags
    <3> QED BY <1>3, <1>4, <1>7, <2>1, <2>2, <3>1
  <2> QED BY <2>1, <2>2
<1>8. ASSUME Len(frames') = k + 1, frames'[k + 1].at \in Tagged
      PROVE  /\ frames'[k + 1].n \in 1 .. m_label_tag'
             /\ Unwritten(frames'[k + 1]) \cap defined' = {}
             /\ Written(frames'[k + 1]) \subseteq defined'
             /\ \A i \in 1 .. k : frames[i].at \in Tagged => frames[i].n # frames'[k + 1].n
  <2> DEFINE new == frames'[k + 1]
  <2>1. /\ \/ Took(new.n)
           \/ gone.at \in Tagged /\ new.n = gone.n /\ Unwritten(new) \subseteq Unwritten(gone)
        /\ Unwritten(new) \cap D = {}
        /\ \A l \in Written(new) : l \in D \/ l \in Written(gone)
    BY <1>8 DEF NewOK
  <2> HIDE DEF new
  <2>2. new.n \in 1 .. m_label_tag'
    BY <1>3, <2>1 DEF Took
  <2>3. \A i \in 1 .. k : frames[i].at \in Tagged => frames[i].n # new.n
    BY <1>1, <1>2, <1>3, <2>1 DEF Took
  <2>4. Unwritten(new) \cap defined = {}
    <3>1. CASE Took(new.n)
      BY <3>1, LabelTags DEF TagsOK, TagsTaken, Took
    <3>2. CASE ~Took(new.n)
      BY <1>3, <2>1, <3>2
    <3> QED BY <3>1, <3>2
  <2>5. Written(new) \subseteq defined'
    <3>1. gone.at \notin Tagged => Written(gone) = {}
      BY LabelTags
    <3> QED BY <1>3, <2>1, <3>1
  <2> QED BY <2>1, <2>2, <2>3, <2>4, <2>5 DEF new
<1>9. TagsKept'
  BY <1>1, <1>7, <1>8 DEF TagsKept
<1>10. TagsDiffer'
  <2> SUFFICES ASSUME NEW i \in 1 .. Len(frames'), NEW j \in 1 .. Len(frames'),
                      frames'[i].at \in Tagged, frames'[j].at \in Tagged,
                      frames'[i].n = frames'[j].n
               PROVE  i = j
    BY DEF TagsDiffer
  <2>1. CASE i \in 1 .. k /\ j \in 1 .. k
    BY <1>1, <2>1 DEF TagsOK, TagsDiffer
  <2> QED BY <1>1, <1>8, <2>1
<1> QED BY <1>5, <1>6, <1>9, <1>10 DEF TagsOK

LEMMA JumpsStep ==
  ASSUME FramesOK, FramesOK', JumpsResolve, TagsKept,
         NEW k \in Nat, NEW gone, NEW owed, NEW D, NEW J,
         k <= Len(frames), k <= Len(frames'), Len(frames) <= k + 1,
         \A i \in 1 .. k : frames'[i] = frames[i],
         Len(frames) = k + 1 => gone = frames[k + 1],
         Written(gone) \subseteq defined,
         \/ owed = {}
         \/ Len(frames') = k + 1 /\ owed = Owes(frames'[k + 1]),
         Resolving(owed, gone, D, J), defined' = defined \cup D, targets' = targets \cup J
  PROVE  JumpsResolve'
<1>1. Len(frames) \in Nat /\ Len(frames') \in Nat
  BY DEF FramesOK
<1>2. ASSUME NEW l \in targets', l \notin defined'
      PROVE  \E i \in 1 .. Len(frames') : l \in Owes(frames'[i])
  <2>1. CASE l \in owed
    BY <1>1, <2>1
  <2>2. CASE l \in targets /\ l \notin owed
    <3>1. PICK i \in 1 .. Len(frames) : l \in Owes(frames[i])
      BY <1>2, <2>2 DEF JumpsResolve
    <3>2. CASE i \in 1 .. k
      BY <1>1, <3>1, <3>2
    <3>3. CASE i = k + 1
      BY <1>1, <1>2, <2>2, <3>1, <3>3 DEF Resolving
    <3> QED BY <1>1, <3>1, <3>2, <3>3
  <2>3. CASE l \in J /\ l \notin owed
    BY <1>2, <2>3 DEF Resolving
  <2> QED BY <1>2, <2>1, <2>2, <2>3
<1> QED BY <1>2 DEF JumpsResolve

-----------------------------------------------------------------------------
(***************************************************************************)
(* The same for each of the things a step does to the activations.         *)
(***************************************************************************)
Defined == Defines(emitted')
Jumped  == JumpsTo(emitted')

NoneGone == [at |-> "main"]

LEMMA NoneGoneOK ==
  /\ NoneGone.at \notin Tagged
  /\ Unwritten(NoneGone) = {} /\ Written(NoneGone) = {} /\ Owes(NoneGone) = {}
BY DEF NoneGone, Tagged, Unwritten, Written, Owes

\* A step of the parser and what it writes.
Writing == /\ Structure /\ Structure' /\ LabelInv /\ Labelled
           /\ status = "parsing" /\ m_label_tag' \in {m_label_tag, m_label_tag + 1}

LEMMA WritingOK ==
  ASSUME Writing
  PROVE  /\ FramesOK /\ FramesOK' /\ m_label_tag \in Nat /\ TagsOK /\ JumpsResolve /\ TagsKept
         /\ Len(frames) \in Nat /\ defined' = defined \cup Defined /\ targets' = targets \cup Jumped
BY DEF Writing, Structure, TypeOK, FramesOK, OutputOK, LabelInv, TagsOK, Labelled, Defined, Jumped

LEMMA LabelsPush ==
  ASSUME Writing, NEW f, Push(f), NewOK(f, NoneGone, Defined), Defining(NoneGone, Defined),
         Resolving(Owes(f), NoneGone, Defined, Jumped)
  PROVE  LabelInv' /\ Defined \cap defined = {}
<1> DEFINE k == Len(frames)
<1>1. /\ k \in Nat /\ Len(frames') = k + 1 /\ frames'[k + 1] = f
      /\ \A i \in 1 .. k : frames'[i] = frames[i]
  BY WritingOK DEF FramesOK, Push
<1>2. k <= Len(frames') /\ Len(frames) <= k + 1 /\ Len(frames) # k + 1
  BY <1>1
<1>3. TagsOK' /\ Defined \cap defined = {}
  BY <1>1, <1>2, WritingOK, NoneGoneOK, TagsStep DEF Writing
<1>4. JumpsResolve'
  BY <1>1, <1>2, WritingOK, NoneGoneOK, JumpsStep
<1> QED BY <1>3, <1>4 DEF LabelInv, TagsOK

LEMMA TopWritten ==
  ASSUME Writing, frames # <<>>
  PROVE  /\ Len(frames) \in Nat \ {0} /\ Top = frames[Len(frames)] /\ Top \in Frame
         /\ Written(Top) \subseteq defined
<1>1. Len(frames) \in Nat \ {0} /\ Top = frames[Len(frames)] /\ Top \in Frame
  BY WritingOK, TopOK
<1>2. Top.at \notin Tagged => Written(Top) = {}
  BY LabelTags
<1> QED BY <1>1, <1>2, WritingOK DEF TagsKept

LEMMA LabelsBecome ==
  ASSUME Writing, frames # <<>>, NEW f, Become(f), NewOK(f, Top, Defined), Defining(Top, Defined),
         Resolving(Owes(f), Top, Defined, Jumped)
  PROVE  LabelInv' /\ Defined \cap defined = {}
<1> DEFINE k == Len(frames) - 1
<1>1. /\ k \in Nat /\ Len(frames) = k + 1 /\ Len(frames') = k + 1 /\ frames'[k + 1] = f
      /\ \A i \in 1 .. k : frames'[i] = frames[i]
  BY WritingOK, TopWritten DEF FramesOK, Become
<1>2. Top = frames[k + 1] /\ Written(Top) \subseteq defined
  BY <1>1, TopWritten
<1>3. k <= Len(frames) /\ k <= Len(frames') /\ Len(frames) <= k + 1 /\ Len(frames') <= k + 1
  BY <1>1
<1> HIDE DEF k
<1>4. TagsOK' /\ Defined \cap defined = {}
  BY <1>1, <1>2, <1>3, WritingOK, TagsStep DEF Writing
<1>5. JumpsResolve'
  BY <1>1, <1>2, <1>3, WritingOK, JumpsStep
<1> QED BY <1>4, <1>5 DEF LabelInv, TagsOK

LEMMA LabelsPop ==
  ASSUME Writing, frames # <<>>, Pop, Defining(Top, Defined),
         Resolving({}, Top, Defined, Jumped)
  PROVE  LabelInv' /\ Defined \cap defined = {}
<1> DEFINE k == Len(frames) - 1
<1>1. k \in Nat /\ Len(frames) = k + 1 /\ frames \in Seq(Frame)
  BY TopWritten, WritingOK DEF FramesOK
<1>2. Top = frames[k + 1] /\ Written(Top) \subseteq defined
  BY <1>1, TopWritten
<1>3. k <= Len(frames') /\ Len(frames') <= k /\ \A i \in 1 .. k : frames'[i] = frames[i]
  <2>1. frames' = SubSeq(frames, 1, k)
    BY DEF Pop
  <2>2. 1 .. k \subseteq 1 .. Len(frames) /\ Len(frames) >= k
    BY <1>1
  <2> HIDE DEF k
  <2> QED BY <1>1, <2>1, <2>2
<1>4. k <= Len(frames) /\ Len(frames) <= k + 1 /\ Len(frames') <= k + 1 /\ Len(frames') # k + 1
  BY <1>1, <1>3, WritingOK DEF FramesOK
<1> HIDE DEF k
<1>5. TagsOK' /\ Defined \cap defined = {}
  BY <1>1, <1>2, <1>3, <1>4, WritingOK, TagsStep DEF Writing
<1>6. JumpsResolve'
  BY <1>1, <1>2, <1>3, <1>4, WritingOK, JumpsStep
<1> QED BY <1>5, <1>6 DEF LabelInv, TagsOK

LEMMA LabelsSame ==
  ASSUME Writing, UNCHANGED <<frames, m_label_tag>>, Defined = {}, Jumped = {}
  PROVE  LabelInv' /\ Defined \cap defined = {}
BY WritingOK DEF LabelInv, TagsOK, TagsTaken, TagsKept, TagsDiffer, JumpsResolve, Writing

\* A step that writes no label and no jump.
LEMMA LabelsPlain ==
  ASSUME Writing, frames # <<>>, Plain, UNCHANGED m_label_tag, Defined = {}, Jumped = {}
  PROVE  LabelInv' /\ Defined \cap defined = {}
<1>1. ASSUME NEW f, f.at \in Untagged
      PROVE  Owes(f) = {} /\ f.at \notin Tagged /\ Written(f) = {}
  BY <1>1, NotTagged, LabelTags
<1>2. /\ \A gone : Defining(gone, Defined)
      /\ \A f, gone : f.at \in Untagged => NewOK(f, gone, Defined)
      /\ \A owed, gone : Owes(gone) = {} => Resolving(owed, gone, Defined, Jumped)
  BY <1>1 DEF Defining, NewOK, Resolving
<1> QED BY <1>1, <1>2, NoneGoneOK, LabelsPush, LabelsBecome, LabelsPop, LabelsSame DEF Plain

-----------------------------------------------------------------------------
(***************************************************************************)
(* The steps that write no label.                                          *)
(***************************************************************************)
Labelling ==
  Compares \cup
  {"statement_if_post_check", "statement_if_with_else", "statement_if_without_else",
   "statement_if_finalize", "statement_while_prepare", "statement_while_post_check",
   "statement_while_finalize", "statement_for_post_assignment", "statement_for_post_check",
   "statement_for_finalize"}

LEMMA NoLabels ==
  ASSUME emitted'.call \notin Labelling
  PROVE  Defined = {} /\ Jumped = {}
BY DEF Labelling, Defined, Jumped, Defines, JumpsTo

\* The call of a step, none of them a labelling one, and its tag.
Unlabelled == emitted'.call \notin Labelling /\ UNCHANGED m_label_tag

LEMMA StopsUnlabelled ==
  ASSUME NEW how, Stops(how)
  PROVE  Unlabelled
BY DEF Stops, StopsAfter, Unlabelled, NoOp, Labelling, Compares

LEMMA QuietUnlabelled ==
  ASSUME Quiet, UNCHANGED m_label_tag
  PROVE  Unlabelled
BY DEF Quiet, Unlabelled, NoOp, Labelling, Compares

LEMMA EmitUnlabelled ==
  ASSUME UNCHANGED m_label_tag,
         NEW c \in Loads \cup Binops \cup
                   {"alu_not_bool", "convert", "load_value_from_pointer", "store_value_to_pointer",
                    "store_variable", "debug_display", "function_call_param",
                    "function_call_finalize", "finalize_main_procedure"},
         NEW t, NEW d, NEW x, NEW n,
         \/ Emit(OpOf(c, t)) \/ Emit(OpNamed(c, t, x)) \/ Emit(OpTo(c, t, d))
         \/ Emit([OpOf(c, t) EXCEPT !.n = n])
         \/ \E how : StopsAfter(OpNamed(c, t, x), how) \/ StopsAfter(OpTo(c, t, d), how)
  PROVE  Unlabelled
<1>1. emitted'.call = c
  BY DEF Emit, StopsAfter, OpOf, OpNamed, OpTo, NoOp
<1>2. c \notin Labelling
  BY DEF Labelling, Compares, Loads, Binops
<1> QED BY <1>1, <1>2 DEF Unlabelled

LEMMA ExpressionUnlabelled ==
  ASSUME Structure, ExpressionStep
  PROVE  Compare \/ Unlabelled
<1> USE StopsUnlabelled, QuietUnlabelled
<1>1. CASE ParseExpression \/ ParseSimpleExpression \/ ParseTerm \/ ParseFactor
  BY <1>1 DEF ParseExpression, ParseSimpleExpression, ParseTerm, ParseFactor, Descend
<1>2. CASE ParseNested \/ ExpectedExpression \/ CloseParenthesis
  BY <1>2 DEF ParseNested, ExpectedExpression, CloseParenthesis, Checked
<1>3. CASE ParseLiteral
  BY <1>3, EmitUnlabelled DEF ParseLiteral, Loads
<1>4. CASE NotOperand \/ VariableReference \/ VariableUsage
  BY <1>4, EmitUnlabelled DEF NotOperand, VariableReference, VariableUsage, Checked, Loads
<1>5. CASE Dereference \/ Convert
  BY <1>5, EmitUnlabelled DEF Dereference, Convert, Checked
<1>6. CASE EndFactor \/ EndTerm \/ EndSimpleExpression \/ EndExpression
  BY <1>6 DEF EndFactor, EndTerm, EndSimpleExpression, EndExpression, LoopEnds
<1>7. CASE Mulop \/ Addop \/ Relop
  BY <1>7 DEF Mulop, Addop, Relop, Operator
<1>8. CASE CombineTerm
  <2>1. Top.op \in DOMAIN MulopCall
    BY <1>8, AtOK DEF CombineTerm, Combine, Structure, Resolved
  <2>2. MulopCall[Top.op] \in Binops
    BY <2>1 DEF MulopCall, Binops
  <2> QED BY <1>8, <2>2, EmitUnlabelled DEF CombineTerm, Combine, Checked
<1>9. CASE CombineSimple
  <2>1. Top.op \in DOMAIN AddopCall
    BY <1>9, AtOK DEF CombineSimple, Combine, Structure, Resolved
  <2>2. AddopCall[Top.op] \in Binops
    BY <2>1 DEF AddopCall, Binops
  <2> QED BY <1>9, <2>2, EmitUnlabelled DEF CombineSimple, Combine, Checked
<1>10. CASE CastTo \/ ParseNamedType \/ ParsePointerType \/ ExpectedType \/ PointerTypeDone
  BY <1>10 DEF CastTo, ParseNamedType, ParsePointerType, ExpectedType, PointerTypeDone, Checked
<1> QED
  BY <1>1, <1>2, <1>3, <1>4, <1>5, <1>6, <1>7, <1>8, <1>9, <1>10 DEF ExpressionStep

LEMMA CallUnlabelled ==
  ASSUME CallStep
  PROVE  Unlabelled
<1> USE StopsUnlabelled, QuietUnlabelled
<1>1. CASE CallInExpression \/ CallStatement \/ CallArgs \/ CallArg
  BY <1>1 DEF CallInExpression, CallStatement, BeginCall, CallArgs, CallArg, Checked
<1>2. CASE CallParam
  <2>1. \/ \E how : Stops(how)
        \/ /\ UNCHANGED m_label_tag
           /\ Emit([OpOf("function_call_param", result.type) EXCEPT !.n = ArgumentIndex(Top, result.type)])
    BY <1>2 DEF CallParam, Checked
  <2> QED BY <2>1, EmitUnlabelled
<1>3. CASE CallFinish
  <2> DEFINE call == OpNamed("function_call_finalize", FunReturn[Top.name], Top.name)
  <2>1. (\E how : Stops(how)) \/ (UNCHANGED m_label_tag /\ emitted' = call)
    BY <1>3 DEF CallFinish, Checked, StopsAfter
  <2>2. call.call \notin Labelling
    BY DEF OpNamed, NoOp, Labelling, Compares
  <2> QED BY <2>1, <2>2 DEF Unlabelled
<1> QED BY <1>1, <1>2, <1>3 DEF CallStep

LEMMA StatementUnlabelled ==
  ASSUME Structure,
         \/ ParseAssignment \/ StatementIdentifier \/ AssignTarget \/ DerefTarget \/ EndTarget
         \/ StoreVariable \/ LoadTarget \/ WalkTarget \/ StoreToPointer \/ ParseStatement
         \/ ParseNestedBlock \/ ExpectedStatement \/ Display \/ BeginBlock \/ BlockItem \/ BlockNext
         \/ EndMain \/ EndOfFile
  PROVE  Unlabelled
<1> USE StopsUnlabelled, QuietUnlabelled
<1>1. CASE ParseAssignment \/ StatementIdentifier \/ AssignTarget \/ DerefTarget \/ EndTarget
  BY <1>1 DEF ParseAssignment, StatementIdentifier, AssignTarget, DerefTarget, EndTarget, Checked
<1>2. CASE StoreVariable
  <2>1. \/ \E how : StopsAfter(OpNamed("store_variable", VarType[Top.name], Top.name), how)
        \/ Emit(OpNamed("store_variable", VarType[Top.name], Top.name))
    BY <1>2 DEF StoreVariable, CheckedAfter
  <2>2. UNCHANGED m_label_tag
    BY <1>2 DEF StoreVariable, CheckedAfter, StopsAfter
  <2> QED BY <2>1, <2>2, EmitUnlabelled
<1>3. CASE StoreToPointer
  <2>1. \/ \E how : StopsAfter(OpTo("store_value_to_pointer", result.type, WalkType(Top)), how)
        \/ Emit(OpTo("store_value_to_pointer", result.type, WalkType(Top)))
    BY <1>3 DEF StoreToPointer, CheckedAfter
  <2>2. UNCHANGED m_label_tag
    BY <1>3 DEF StoreToPointer, CheckedAfter, StopsAfter
  <2> QED BY <2>1, <2>2, EmitUnlabelled
<1>4. CASE LoadTarget \/ WalkTarget
  BY <1>4, EmitUnlabelled DEF LoadTarget, WalkTarget, Loads
<1>5. CASE ParseStatement \/ ParseNestedBlock \/ ExpectedStatement \/ BeginBlock \/ BlockItem \/ BlockNext
  BY <1>5
     DEF ParseStatement, ParseNestedBlock, ExpectedStatement, BeginBlock, BlockItem, BlockNext, Checked
<1>6. CASE Display \/ EndMain \/ EndOfFile
  BY <1>6, EmitUnlabelled DEF Display, EndMain, EndOfFile, Checked
<1> QED BY <1>1, <1>2, <1>3, <1>4, <1>5, <1>6

LEMMA UnlabelledOK ==
  ASSUME Writing, Unlabelled, Halted \/ (frames # <<>> /\ Plain)
  PROVE  LabelInv' /\ Defined \cap defined = {}
BY NoLabels, LabelsPlain, LabelsSame DEF Unlabelled, Halted, StopsAfter

-----------------------------------------------------------------------------
(***************************************************************************)
(* The steps that write labels.                                            *)
(***************************************************************************)
LEMMA WrittenBy ==
  /\ emitted'.call \in Compares =>
       /\ Defined = {Label("__true", emitted'.n), Label("__next", emitted'.n)}
       /\ Jumped = {Label("__true", emitted'.n), Label("__next", emitted'.n)}
  /\ emitted'.call = "statement_if_post_check" =>
       Defined = {Label("__true", emitted'.n)} /\ Jumped = {Label("__false", emitted'.n)}
  /\ emitted'.call = "statement_if_with_else" =>
       Defined = {Label("__false", emitted'.n)} /\ Jumped = {Label("__next", emitted'.n)}
  /\ emitted'.call = "statement_if_without_else" =>
       Defined = {Label("__false", emitted'.n)} /\ Jumped = {}
  /\ emitted'.call = "statement_while_prepare" =>
       Defined = {Label("__while", emitted'.n)} /\ Jumped = {}
  /\ emitted'.call = "statement_for_post_assignment" =>
       Defined = {Label("__for", emitted'.n)} /\ Jumped = {}
  /\ emitted'.call \in {"statement_while_post_check", "statement_for_post_check"} =>
       Defined = {} /\ Jumped = {Label("__next", emitted'.n)}
  /\ emitted'.call = "statement_if_finalize" =>
       Defined = {Label("__next", emitted'.n)} /\ Jumped = {}
  /\ emitted'.call = "statement_while_finalize" =>
       Defined = {Label("__next", emitted'.n)} /\ Jumped = {Label("__while", emitted'.n)}
  /\ emitted'.call = "statement_for_finalize" =>
       Defined = {Label("__next", emitted'.n)} /\ Jumped = {Label("__for", emitted'.n)}
BY DEF Defined, Jumped, Defines, JumpsTo, Compares

LEMMA LabelParts ==
  ASSUME NEW p, NEW t, NEW q, NEW u
  PROVE  Label(p, t)[2] = t /\ (Label(p, t) = Label(q, u) <=> p = q /\ t = u)
BY DEF Label

LEMMA TagOf ==
  ASSUME NEW c, NEW t, NEW x, NEW n,
         \/ Emit([OpOf(c, t) EXCEPT !.n = n])
         \/ Emit([OpNamed(c, t, x) EXCEPT !.n = n])
         \/ Emit(OpTag(c, n))
         \/ \E how : StopsAfter(OpTag(c, n), how)
  PROVE  emitted'.call = c /\ emitted'.n = n
BY DEF Emit, StopsAfter, OpOf, OpNamed, OpTag, NoOp

\* A step of the parser, whatever it does to the tags.
Step == Structure /\ Structure' /\ LabelInv /\ Labelled /\ status = "parsing"

LEMMA CompareLabels ==
  ASSUME Step, Compare
  PROVE  LabelInv' /\ Defined \cap defined = {}
<1>1. At("return", "expr_rhs")
  BY DEF Compare
<1>2. frames # <<>> /\ Top.at = "expr_rhs" /\ Top.op \in DOMAIN RelopCall
  BY <1>1, AtOK DEF Step, Resolved
<1>3. CASE \E how : Stops(how)
  <2>1. Unlabelled /\ Halted
    BY <1>3, StopsUnlabelled DEF Stops, Halted
  <2> QED BY <2>1, UnlabelledOK DEF Step, Writing, Unlabelled
<1>4. CASE ~ \E how : Stops(how)
  <2>1. /\ m_label_tag' = m_label_tag + 1 /\ Pop
        /\ Emit([OpOf(RelopCall[Top.op], Top.type) EXCEPT !.n = m_label_tag'])
    BY <1>4 DEF Compare, Checked
  <2>2. RelopCall[Top.op] \in Compares
    BY <1>2 DEF RelopCall, Compares
  <2>3. emitted'.call \in Compares /\ emitted'.n = m_label_tag'
    BY <2>1, <2>2, TagOf
  <2>4. /\ Defined = {Label("__true", m_label_tag'), Label("__next", m_label_tag')}
        /\ Jumped = Defined
    BY <2>3, WrittenBy
  <2>5. Defining(Top, Defined)
    BY <2>1, <2>4, LabelParts DEF Defining, Took
  <2>6. Resolving({}, Top, Defined, Jumped)
    BY <1>2, <2>4 DEF Resolving, Owes
  <2>7. Writing
    BY <2>1 DEF Writing, Step
  <2> QED BY <1>2, <2>1, <2>5, <2>6, <2>7, LabelsPop
<1> QED BY <1>3, <1>4

LEMMA ConditionalLabels ==
  ASSUME Step, ParseConditional
  PROVE  LabelInv' /\ Defined \cap defined = {}
<1>1. m_label_tag' = m_label_tag + 1 /\ Writing
  BY DEF ParseConditional, Step, Writing
<1> DEFINE f(at) == [Activation(at) EXCEPT !.n = m_label_tag']
<1>2. \A at : f(at).at = at /\ f(at).n = m_label_tag'
  BY ActivationAt
<1>3. CASE tok = "KEYWORD_IF" /\ Push(f("if_cond")) /\ Quiet
  <2>1. Defined = {} /\ Jumped = {}
    BY <1>1, <1>3, QuietUnlabelled, NoLabels DEF Unlabelled, Quiet, NoOp, Labelling, Compares
  <2> HIDE DEF f
  <2>2. NewOK(f("if_cond"), NoneGone, Defined)
    BY <1>1, <1>2, <2>1 DEF NewOK, Took, Written
  <2>3. Defining(NoneGone, Defined) /\ Resolving(Owes(f("if_cond")), NoneGone, Defined, Jumped)
    BY <2>1, NoneGoneOK DEF Defining, Resolving
  <2> QED BY <1>1, <1>3, <2>2, <2>3, LabelsPush
<1>4. CASE /\ tok = "KEYWORD_WHILE" /\ Push(f("while_cond"))
           /\ Emit(OpTag("statement_while_prepare", m_label_tag'))
  <2>1. Defined = {Label("__while", m_label_tag')} /\ Jumped = {}
    BY <1>4, TagOf, WrittenBy
  <2> HIDE DEF f
  <2>2. /\ Unwritten(f("while_cond")) = {Label("__next", m_label_tag')}
        /\ Written(f("while_cond")) = {Label("__while", m_label_tag')}
    BY <1>2 DEF Unwritten, Written, Tagged
  <2>3. NewOK(f("while_cond"), NoneGone, Defined)
    BY <1>1, <1>2, <2>1, <2>2, LabelParts DEF NewOK, Took
  <2>4. Defining(NoneGone, Defined) /\ Resolving(Owes(f("while_cond")), NoneGone, Defined, Jumped)
    BY <1>1, <2>1, NoneGoneOK, LabelParts DEF Defining, Resolving, Took
  <2> QED BY <1>1, <1>4, <2>3, <2>4, LabelsPush
<1> QED BY <1>3, <1>4 DEF ParseConditional

LEMMA ConditionLabels ==
  ASSUME Step, IfCondition \/ WhileCondition
  PROVE  LabelInv' /\ Defined \cap defined = {}
<1>1. CASE Stops("error")
  <2>1. Unlabelled /\ Halted
    BY <1>1, StopsUnlabelled DEF Stops, Halted
  <2> QED BY <2>1, UnlabelledOK DEF Step, Writing, Unlabelled
<1>2. CASE IfCondition /\ ~Stops("error")
  <2> DEFINE f == [Top EXCEPT !.at = "if_then"]
  <2>1. /\ At("return", "if_cond") /\ Become(f) /\ UNCHANGED m_label_tag
        /\ Emit([OpOf("statement_if_post_check", BOOL) EXCEPT !.n = Top.n])
    BY <1>2 DEF IfCondition, Condition, Checked
  <2>2. frames # <<>> /\ Top.at = "if_cond" /\ f.at = "if_then" /\ f.n = Top.n
    BY <2>1, AtOK, BecomeAt DEF Step
  <2> HIDE DEF f
  <2>3. Defined = {Label("__true", Top.n)} /\ Jumped = {Label("__false", Top.n)}
    BY <2>1, TagOf, WrittenBy
  <2>4. /\ Unwritten(Top) = {Label("__true", Top.n), Label("__false", Top.n), Label("__next", Top.n)}
        /\ Unwritten(f) = {Label("__false", Top.n), Label("__next", Top.n)}
        /\ Written(f) = {} /\ Owes(Top) = {} /\ Owes(f) = {Label("__false", Top.n)}
    BY <2>2 DEF Unwritten, Written, Owes
  <2>5. NewOK(f, Top, Defined)
    BY <2>2, <2>3, <2>4, LabelParts DEF NewOK, Tagged
  <2>6. Defining(Top, Defined) /\ Resolving(Owes(f), Top, Defined, Jumped)
    BY <2>3, <2>4 DEF Defining, Resolving
  <2> QED BY <2>1, <2>2, <2>5, <2>6, LabelsBecome DEF Step, Writing
<1>3. CASE WhileCondition /\ ~Stops("error")
  <2> DEFINE f == [Top EXCEPT !.at = "while_body"]
  <2>1. /\ At("return", "while_cond") /\ Become(f) /\ UNCHANGED m_label_tag
        /\ Emit([OpOf("statement_while_post_check", BOOL) EXCEPT !.n = Top.n])
    BY <1>3 DEF WhileCondition, Condition, Checked
  <2>2. frames # <<>> /\ Top.at = "while_cond" /\ f.at = "while_body" /\ f.n = Top.n
    BY <2>1, AtOK, BecomeAt DEF Step
  <2> HIDE DEF f
  <2>3. Defined = {} /\ Jumped = {Label("__next", Top.n)}
    BY <2>1, TagOf, WrittenBy
  <2>4. /\ Unwritten(Top) = Unwritten(f) /\ Written(f) = Written(Top)
        /\ Owes(Top) = {} /\ Owes(f) = {Label("__next", Top.n)}
    BY <2>2 DEF Unwritten, Written, Owes, Tagged
  <2>5. NewOK(f, Top, Defined)
    BY <2>2, <2>3, <2>4 DEF NewOK, Tagged
  <2>6. Defining(Top, Defined) /\ Resolving(Owes(f), Top, Defined, Jumped)
    BY <2>3, <2>4 DEF Defining, Resolving
  <2> QED BY <2>1, <2>2, <2>5, <2>6, LabelsBecome DEF Step, Writing
<1> QED BY <1>1, <1>2, <1>3

LEMMA IfElseLabels ==
  ASSUME Step, IfElse
  PROVE  LabelInv' /\ Defined \cap defined = {}
<1> DEFINE f == [Top EXCEPT !.at = "if_end"]
<1>1. /\ At("done", "if_then") /\ Become(f) /\ UNCHANGED m_label_tag
      /\ \/ Emit(OpTag("statement_if_with_else", Top.n))
         \/ Emit(OpTag("statement_if_without_else", Top.n))
  BY DEF IfElse
<1>2. frames # <<>> /\ Top.at = "if_then" /\ f.at = "if_end" /\ f.n = Top.n
  BY <1>1, AtOK, BecomeAt DEF Step
<1> HIDE DEF f
<1>3. /\ Defined = {Label("__false", Top.n)}
      /\ Jumped = {Label("__next", Top.n)} \/ Jumped = {}
  BY <1>1, TagOf, WrittenBy
<1>4. /\ Unwritten(Top) = {Label("__false", Top.n), Label("__next", Top.n)}
      /\ Unwritten(f) = {Label("__next", Top.n)} /\ Owes(f) = {Label("__next", Top.n)}
      /\ Written(f) = {} /\ Owes(Top) = {Label("__false", Top.n)}
  BY <1>2 DEF Unwritten, Written, Owes, Tagged
<1>5. NewOK(f, Top, Defined)
  BY <1>2, <1>3, <1>4, LabelParts DEF NewOK, Tagged
<1>6. Defining(Top, Defined) /\ Resolving(Owes(f), Top, Defined, Jumped)
  BY <1>3, <1>4 DEF Defining, Resolving
<1> QED BY <1>1, <1>2, <1>5, <1>6, LabelsBecome DEF Step, Writing

LEMMA ClosesLabels ==
  ASSUME Step, EndIf \/ EndWhile \/ EndFor
  PROVE  LabelInv' /\ Defined \cap defined = {}
<1>1. /\ frames # <<>> /\ Pop /\ UNCHANGED m_label_tag
      /\ \/ Top.at = "if_end" /\ Emit(OpTag("statement_if_finalize", Top.n))
         \/ Top.at = "while_body" /\ Emit(OpTag("statement_while_finalize", Top.n))
         \/ Top.at = "for_body" /\ Emit(OpTag("statement_for_finalize", Top.n))
  BY DEF EndIf, EndWhile, EndFor, Closes, At
<1>2. Defined = {Label("__next", Top.n)} /\ Jumped \subseteq Written(Top)
  BY <1>1, TagOf, WrittenBy DEF Written
<1>3. Unwritten(Top) = {Label("__next", Top.n)} /\ Owes(Top) = {Label("__next", Top.n)}
  BY <1>1 DEF Unwritten, Owes, Tagged
<1>4. Defining(Top, Defined) /\ Resolving({}, Top, Defined, Jumped)
  BY <1>2, <1>3 DEF Defining, Resolving
<1> QED BY <1>1, <1>4, LabelsPop DEF Step, Writing

LEMMA ForLabels ==
  ASSUME Step, ForAssigned
  PROVE  LabelInv' /\ Defined \cap defined = {}
<1> DEFINE op == OpTag("statement_for_post_assignment", m_label_tag + 1)
<1>1. \/ Stops("error")
      \/ StopsAfter(op, "error")
      \/ /\ Emit(op) /\ m_label_tag' = m_label_tag + 1
         /\ Become([Top EXCEPT !.at = "for_max", !.name = result.name, !.n = m_label_tag'])
  BY DEF ForAssigned, Checked, CheckedAfter
<1>2. frames # <<>> /\ Top.at = "for_assign" /\ Top \in Frame /\ m_label_tag \in Nat
  <2>1. At("done", "for_assign")
    BY DEF ForAssigned
  <2> QED BY <2>1, AtOK DEF Step, Structure, TypeOK, OutputOK
<1>3. CASE Stops("error")
  <2>1. Unlabelled /\ Halted
    BY <1>3, StopsUnlabelled DEF Stops, Halted
  <2> QED BY <2>1, UnlabelledOK DEF Step, Writing, Unlabelled
<1>4. CASE StopsAfter(op, "error")
  <2>1. Defined = {Label("__for", m_label_tag + 1)} /\ Jumped = {}
    BY <1>4, TagOf, WrittenBy
  <2>2. Defined \cap defined = {}
    BY <1>2, <2>1, LabelParts DEF Step, LabelInv, TagsTaken
  <2>3. JumpsResolve'
    BY <1>4, <2>1 DEF StopsAfter, Step, LabelInv, JumpsResolve, Labelled, Jumped
  <2> QED BY <1>4, <2>2, <2>3 DEF LabelInv, StopsAfter
<1>5. CASE /\ Emit(op) /\ m_label_tag' = m_label_tag + 1
           /\ Become([Top EXCEPT !.at = "for_max", !.name = result.name, !.n = m_label_tag'])
  <2> DEFINE f == [Top EXCEPT !.at = "for_max", !.name = result.name, !.n = m_label_tag']
  <2>1. f.at = "for_max" /\ f.n = m_label_tag'
    BY <1>2, BecomeAt
  <2>2. Become(f)
    BY <1>5
  <2>3. Defined = {Label("__for", m_label_tag')} /\ Jumped = {}
    BY <1>5, TagOf, WrittenBy
  <2> HIDE DEF f, op
  <2>4. /\ Unwritten(f) = {Label("__next", m_label_tag')}
        /\ Written(f) = {Label("__for", m_label_tag')} /\ Owes(Top) = {}
    BY <1>2, <2>1 DEF Unwritten, Written, Owes, Tagged
  <2>5. NewOK(f, Top, Defined)
    BY <1>5, <2>1, <2>3, <2>4, LabelParts DEF NewOK, Took
  <2>6. Defining(Top, Defined) /\ Resolving(Owes(f), Top, Defined, Jumped)
    BY <1>5, <2>3, <2>4, LabelParts DEF Defining, Resolving, Took
  <2> QED BY <1>2, <1>5, <2>2, <2>5, <2>6, LabelsBecome DEF Step, Writing
<1> QED BY <1>1, <1>3, <1>4, <1>5

LEMMA ForMaxLabels ==
  ASSUME Step, ForMax
  PROVE  LabelInv' /\ Defined \cap defined = {}
<1> DEFINE f == [Top EXCEPT !.at = "for_body"]
<1>1. CASE Stops("error")
  <2>1. Unlabelled /\ Halted
    BY <1>1, StopsUnlabelled DEF Stops, Halted
  <2> QED BY <2>1, UnlabelledOK DEF Step, Writing, Unlabelled
<1>2. CASE ~Stops("error")
  <2>1. /\ At("return", "for_max") /\ Become(f) /\ UNCHANGED m_label_tag
        /\ Emit([OpNamed("statement_for_post_check", UNSIGNED_INT, Top.name) EXCEPT !.n = Top.n])
    BY <1>2 DEF ForMax, Checked
  <2>2. frames # <<>> /\ Top.at = "for_max" /\ f.at = "for_body" /\ f.n = Top.n
    BY <2>1, AtOK, BecomeAt DEF Step
  <2> HIDE DEF f
  <2>3. Defined = {} /\ Jumped = {Label("__next", Top.n)}
    BY <2>1, TagOf, WrittenBy
  <2>4. /\ Unwritten(Top) = Unwritten(f) /\ Written(f) = Written(Top)
        /\ Owes(Top) = {} /\ Owes(f) = {Label("__next", Top.n)}
    BY <2>2 DEF Unwritten, Written, Owes, Tagged
  <2>5. NewOK(f, Top, Defined)
    BY <2>2, <2>3, <2>4 DEF NewOK, Tagged
  <2>6. Defining(Top, Defined) /\ Resolving(Owes(f), Top, Defined, Jumped)
    BY <2>3, <2>4 DEF Defining, Resolving
  <2> QED BY <2>1, <2>2, <2>5, <2>6, LabelsBecome DEF Step, Writing
<1> QED BY <1>1, <1>2

-----------------------------------------------------------------------------
LEMMA Running ==
  ASSUME ExpressionStep \/ CallStep \/ StatementStep
  PROVE  status = "parsing"
BY DEF ExpressionStep, ParseExpression, ParseSimpleExpression, ParseTerm, ParseFactor, Descend,
       ParseNested, ParseLiteral, ExpectedExpression, CloseParenthesis, NotOperand,
       VariableReference, VariableUsage, Dereference, EndFactor, EndTerm, EndSimpleExpression,
       EndExpression, LoopEnds, Mulop, Addop, Relop, Operator, CombineTerm, CombineSimple,
       Combine, Compare, CastTo, ParseNamedType, ParsePointerType, ExpectedType, PointerTypeDone,
       Convert, CallStep, CallInExpression, CallStatement, BeginCall, CallArgs, CallArg, CallParam,
       CallFinish, StatementStep, ParseAssignment, StatementIdentifier, AssignTarget, DerefTarget,
       EndTarget, StoreVariable, LoadTarget, WalkTarget, StoreToPointer, ParseStatement,
       ParseConditional, ParseNestedBlock, ExpectedStatement, IfCondition, WhileCondition,
       Condition, IfElse, EndIf, EndWhile, EndFor, Closes, ForAssigned, ForMax, Display,
       BeginBlock, BlockItem, BlockNext, EndMain, EndOfFile, At, Enters

LEMMA StepLabels ==
  ASSUME Structure, Structure', LabelInv, LNext
  PROVE  LabelInv' /\ (Defined \cap defined = {} \/ UNCHANGED lvars)
<1>1. CASE Stopped /\ UNCHANGED <<defined, targets>>
  <2>1. UNCHANGED lvars /\ UNCHANGED <<frames, status, m_label_tag>>
    BY <1>1 DEF Stopped, lvars, vars
  <2>2. LabelInv'
    BY <2>1 DEF lvars, LabelInv, JumpsResolve, TagsTaken, TagsKept, TagsDiffer
  <2> QED BY <2>1, <2>2
<1>2. ASSUME Step, Unlabelled, Halted \/ (frames # <<>> /\ Plain)
      PROVE  LabelInv' /\ Defined \cap defined = {}
  BY <1>2, UnlabelledOK DEF Step, Writing, Unlabelled
<1>3. CASE ExpressionStep /\ Labelled
  <2>1. Step
    BY <1>3, Running DEF Step
  <2> QED BY <1>2, <1>3, <2>1, CompareLabels, ExpressionUnlabelled, PlainExpressions
<1>4. CASE CallStep /\ Labelled
  <2>1. Step
    BY <1>4, Running DEF Step
  <2> QED BY <1>2, <1>4, <2>1, CallUnlabelled, PlainCalls
<1>5. CASE StatementStep /\ Labelled
  <2>1. Step
    BY <1>5, Running DEF Step
  <2> QED BY <1>2, <1>5, <2>1, StatementUnlabelled, PlainStatements, ConditionalLabels,
             ConditionLabels, IfElseLabels, ClosesLabels, ForLabels, ForMaxLabels
          DEF StatementStep
<1> QED BY <1>1, <1>3, <1>4, <1>5 DEF LNext

LEMMA LabelledSteps ==
  ASSUME [LNext]_lvars
  PROVE  [Next]_vars
BY DEF LNext, Next, Stopped, lvars

LEMMA LabelStep ==
  ASSUME Structure, LabelInv, [LNext]_lvars
  PROVE  Structure' /\ LabelInv' /\ [Defines(emitted') \cap defined = {}]_lvars
<1>1. Structure'
  BY LabelledSteps, StepOK
<1>2. CASE LNext
  BY <1>1, <1>2, StepLabels DEF Defined
<1>3. CASE UNCHANGED lvars
  <2>1. LabelInv'
    BY <1>3 DEF lvars, vars, LabelInv, JumpsResolve, TagsTaken, TagsKept, TagsDiffer
  <2> QED BY <1>1, <1>3, <2>1
<1> QED BY <1>2, <1>3

LEMMA LabelInit ==
  ASSUME LInit
  PROVE  Structure /\ LabelInv
<1>1. Len(frames) = 1 /\ frames[1] = Activation("main") /\ "main" \notin Tagged
  BY DEF LInit, Init, Tagged
<1>2. TagsTaken /\ TagsKept /\ TagsDiffer /\ JumpsResolve
  BY <1>1, ActivationAt DEF LInit, TagsTaken, TagsKept, TagsDiffer, JumpsResolve
<1> QED BY <1>2, InitOK DEF LInit, LabelInv

(***************************************************************************)
(* However IF, WHILE, FOR and comparisons are nested, the code defines no  *)
(* label twice: a tag of ++m_label_tag belongs to one construct, which     *)
(* writes each of its labels once (codegen.cpp).                           *)
(***************************************************************************)
THEOREM LabelsUnique == LSpec => LabelsDefinedOnce
<1>1. LInit => Structure /\ LabelInv
  BY LabelInit
<1>2. Structure /\ LabelInv /\ [LNext]_lvars =>
        Structure' /\ LabelInv' /\ [Defines(emitted') \cap defined = {}]_lvars
  BY LabelStep
<1> QED BY <1>1, <1>2, PTL DEF LSpec, LabelsDefinedOnce

(***************************************************************************)
(* Every label the code jumps to is defined, or will be when the statement *)
(* that is still being parsed ends (statement_*_finalize).                 *)
(***************************************************************************)
THEOREM JumpsFound == LSpec => []JumpsResolve
<1>1. LInit => Structure /\ LabelInv
  BY LabelInit
<1>2. Structure /\ LabelInv /\ [LNext]_lvars => Structure' /\ LabelInv'
  BY LabelStep
<1>3. LabelInv => JumpsResolve
  BY DEF LabelInv
<1> QED BY <1>1, <1>2, <1>3, PTL DEF LSpec

-----------------------------------------------------------------------------
(***************************************************************************)
(* Arguments.  The activation of a call counts its arguments by class, and *)
(* nothing that its arguments make the parser do changes those counters.   *)
(***************************************************************************)

\* Where the innermost activation is a call that does not wait for an argument.
CallPoints == {"call_args", "call_arg", "call_finish"}

\* Activations that may become calls.
Naming == {"identifier", "statement_name"}

\* Which of the arguments a call f has passed so far are of each class.
RegularsOf(f) == {j \in 1 .. f.n : IsRegular(FunParams[f.name][j])}
FloatsOf(f)   == {j \in 1 .. f.n : IsFloat(FunParams[f.name][j])}

CountsArguments(f) ==
  /\ f.n <= Len(FunParams[f.name])
  /\ f.regs = Cardinality(RegularsOf(f))
  /\ f.xmms = Cardinality(FloatsOf(f))

Counted(f) == /\ f.at \in InACall => CountsArguments(f)
              /\ f.at \in Naming => f.n = 0 /\ f.regs = 0 /\ f.xmms = 0

\* The argument being parsed is one the function has.
Expecting(f) == f.at \in InACall => f.n < Len(FunParams[f.name])

ArgumentInv ==
  \A i \in 1 .. Len(frames) :
    /\ Counted(frames[i])
    /\ i < Len(frames) \/ pc \notin CallPoints => Expecting(frames[i])

-----------------------------------------------------------------------------
(***************************************************************************)
(* Steps beside calls.                                                     *)
(***************************************************************************)
Beside ==
  /\ pc \notin CallPoints
  /\ \/ UNCHANGED frames
     \/ frames # <<>> /\ Pop
     \/ \E f : Push(f) /\ f.at \notin InACall /\ Counted(f)
     \/ \E f : frames # <<>> /\ Become(f) /\ f.at \notin InACall /\ Counted(f)

LEMMA BesidePush ==
  ASSUME pc \notin CallPoints, NEW f, Push(f), f.at \notin InACall \cup Naming
  PROVE  Beside
BY DEF Beside, Counted

LEMMA BesideBecome ==
  ASSUME pc \notin CallPoints, frames # <<>>, NEW f, Become(f), f.at \notin InACall \cup Naming
  PROVE  Beside
BY DEF Beside, Counted

LEMMA BesideName ==
  ASSUME pc \notin CallPoints, NEW at \in Naming, NEW x, Push([Activation(at) EXCEPT !.name = x])
  PROVE  Beside
<1> DEFINE f == [Activation(at) EXCEPT !.name = x]
<1>1. f.at = at /\ f.n = 0 /\ f.regs = 0 /\ f.xmms = 0
  BY DEF Activation
<1>2. f.at \notin InACall /\ Counted(f)
  BY <1>1 DEF InACall, Naming, Counted
<1>3. Push(f)
  OBVIOUS
<1> HIDE DEF f
<1> QED BY <1>2, <1>3 DEF Beside

LEMMA ExpressionsBeside ==
  ASSUME Structure, ExpressionStep
  PROVE  Beside
<1> USE DEF Stops, StopsAfter
<1>1. frames # <<>> => Top \in Frame
  BY TopOK DEF Structure, TypeOK
<1>2. ASSUME NEW from, from \notin CallPoints, NEW at, at \notin InACall \cup Naming, NEW to,
             Descend(from, at, to)
      PROVE  Beside
  BY <1>2, BesidePush, ActivationAt DEF Descend, Enters
<1>3. CASE ParseExpression \/ ParseSimpleExpression \/ ParseTerm \/ ParseFactor
  BY <1>2, <1>3
     DEF ParseExpression, ParseSimpleExpression, ParseTerm, ParseFactor, InACall, Naming, CallPoints
<1>4. CASE ParseNested \/ ParsePointerType
  <2>1. pc \notin CallPoints
    BY <1>4 DEF ParseNested, ParsePointerType, Enters, CallPoints
  <2>2. \/ UNCHANGED frames
        \/ \E at \in {"paren", "not", "cast", "pointer_type"} : Push(Activation(at))
        \/ Push([Activation("identifier") EXCEPT !.name = tok])
    BY <1>4 DEF ParseNested, ParsePointerType
  <2>3. \A at \in {"paren", "not", "cast", "pointer_type"} : Activation(at).at \notin InACall \cup Naming
    BY ActivationAt DEF InACall, Naming
  <2>4. "identifier" \in Naming
    BY DEF Naming
  <2> QED BY <2>1, <2>2, <2>3, <2>4, BesidePush, BesideName DEF Beside
<1>5. CASE ParseLiteral \/ ExpectedExpression \/ VariableReference \/ Dereference \/ ParseNamedType
           \/ ExpectedType
  BY <1>5 DEF ParseLiteral, ExpectedExpression, VariableReference, Dereference, ParseNamedType,
              ExpectedType, Checked, Enters, At, Beside, CallPoints
<1>6. CASE CloseParenthesis \/ NotOperand \/ VariableUsage \/ EndFactor \/ EndTerm
           \/ EndSimpleExpression \/ EndExpression \/ Compare \/ PointerTypeDone \/ Convert
  BY <1>6 DEF CloseParenthesis, NotOperand, VariableUsage, EndFactor, EndTerm,
              EndSimpleExpression, EndExpression, LoopEnds, Compare, PointerTypeDone,
              Convert, Checked, At, Beside, CallPoints
<1>7. CASE Mulop \/ Addop \/ Relop \/ CombineTerm \/ CombineSimple \/ CastTo
  <2>1. frames # <<>> /\ pc \notin CallPoints
    BY <1>7 DEF Mulop, Addop, Relop, Operator, CombineTerm, CombineSimple, Combine, CastTo, At, CallPoints
  <2>2. \/ UNCHANGED frames
        \/ \E at \in {"term_rhs", "simple_rhs", "expr_rhs", "term", "simple", "cast_to"} : \E t, op :
             \/ Become([Top EXCEPT !.at = at, !.type = t, !.op = op])
             \/ Become([Top EXCEPT !.at = at, !.type = t])
    BY <1>7 DEF Mulop, Addop, Relop, Operator, CombineTerm, CombineSimple, Combine, CastTo, Checked
  <2>3. \A at \in {"term_rhs", "simple_rhs", "expr_rhs", "term", "simple", "cast_to"} : \A t, op :
          /\ [Top EXCEPT !.at = at, !.type = t, !.op = op].at \notin InACall \cup Naming
          /\ [Top EXCEPT !.at = at, !.type = t].at \notin InACall \cup Naming
    BY <1>1, <2>1, BecomeAt DEF InACall, Naming
  <2> QED BY <2>1, <2>2, <2>3, BesideBecome DEF Beside
<1> QED BY <1>3, <1>4, <1>5, <1>6, <1>7 DEF ExpressionStep

LEMMA StatementsBeside ==
  ASSUME Structure, StatementStep
  PROVE  Beside
<1> USE DEF Stops, StopsAfter
<1>1. frames # <<>> => Top \in Frame
  BY TopOK DEF Structure, TypeOK
<1>2. CASE ParseAssignment \/ ParseStatement \/ ParseConditional \/ BeginBlock
  <2>1. pc \notin CallPoints
    BY <1>2 DEF ParseAssignment, ParseStatement, ParseConditional, BeginBlock, Enters, CallPoints
  <2>2. \/ UNCHANGED frames
        \/ \E at \in {"display", "for_assign", "block"} : Push(Activation(at))
        \/ \E at \in {"if_cond", "while_cond"} : Push([Activation(at) EXCEPT !.n = m_label_tag'])
        \/ Push([Activation("target") EXCEPT !.name = tok])
        \/ Push([Activation("statement_name") EXCEPT !.name = tok])
    BY <1>2 DEF ParseAssignment, ParseStatement, ParseConditional, BeginBlock, Checked
  <2>3. \A at \in {"display", "for_assign", "block", "if_cond", "while_cond", "target"} :
          /\ Activation(at).at \notin InACall \cup Naming
          /\ [Activation(at) EXCEPT !.n = m_label_tag'].at \notin InACall \cup Naming
          /\ [Activation(at) EXCEPT !.name = tok].at \notin InACall \cup Naming
    BY ActivationAt DEF InACall, Naming
  <2>4. "statement_name" \in Naming
    BY DEF Naming
  <2>5. CASE \E at \in {"if_cond", "while_cond"} : Push([Activation(at) EXCEPT !.n = m_label_tag'])
    BY <2>1, <2>3, <2>5, BesidePush
  <2>6. CASE Push([Activation("target") EXCEPT !.name = tok])
    BY <2>1, <2>3, <2>6, BesidePush
  <2> QED BY <2>1, <2>2, <2>3, <2>4, <2>5, <2>6, BesidePush, BesideName DEF Beside
<1>3. CASE StatementIdentifier \/ AssignTarget \/ EndTarget \/ DerefTarget \/ LoadTarget \/ WalkTarget
           \/ IfCondition \/ WhileCondition \/ IfElse \/ ForAssigned \/ ForMax
  <2> DEFINE Later == {"target", "assign", "assign_ptr", "deref", "store_ptr", "if_then",
                      "while_body", "if_end", "for_max", "for_body"}
  <2>1. frames # <<>> /\ pc \notin CallPoints /\ (DerefTarget \/ WalkTarget => Top.at \in Later)
    BY <1>3 DEF StatementIdentifier, AssignTarget, EndTarget, DerefTarget, LoadTarget, WalkTarget,
                IfCondition, WhileCondition, Condition, IfElse, ForAssigned, ForMax, At, CallPoints
  <2>2. \/ UNCHANGED frames
        \/ \E at \in Later :
             \/ Become([Top EXCEPT !.at = at])
             \/ \E t : Become([Top EXCEPT !.at = at, !.type = t])
             \/ \E n : Become([Top EXCEPT !.at = at, !.n = n])
             \/ \E x, n : Become([Top EXCEPT !.at = at, !.name = x, !.n = n])
        \/ (DerefTarget \/ WalkTarget)
             /\ \/ \E t, d : Become([Top EXCEPT !.type = t, !.derefs = d])
                \/ \E n : Become([Top EXCEPT !.n = n])
    <3>1. CASE StatementIdentifier \/ AssignTarget \/ EndTarget
      BY <3>1 DEF StatementIdentifier, AssignTarget, EndTarget, Checked
    <3>2. CASE DerefTarget
      BY <3>2 DEF DerefTarget, Checked
    <3>3. CASE LoadTarget \/ WalkTarget
      BY <3>3 DEF LoadTarget, WalkTarget
    <3>4. CASE IfCondition \/ WhileCondition \/ IfElse
      BY <3>4 DEF IfCondition, WhileCondition, Condition, IfElse, Checked
    <3>5. CASE ForAssigned
      BY <3>5 DEF ForAssigned, Checked, CheckedAfter
    <3>6. CASE ForMax
      BY <3>6 DEF ForMax, Checked
    <3> QED BY <1>3, <3>1, <3>2, <3>3, <3>4, <3>5, <3>6
  <2>3. \A at \in Later : at \notin InACall \cup Naming
    BY DEF InACall, Naming
  <2>4. \A at \in Later : \A t, n, x :
          /\ [Top EXCEPT !.at = at].at \in Later
          /\ [Top EXCEPT !.at = at, !.type = t].at \in Later
          /\ [Top EXCEPT !.at = at, !.n = n].at \in Later
          /\ [Top EXCEPT !.at = at, !.name = x, !.n = n].at \in Later
    BY <1>1, <2>1, BecomeAt
  <2>5. \A t, d, n : /\ [Top EXCEPT !.type = t, !.derefs = d].at = Top.at
                     /\ [Top EXCEPT !.n = n].at = Top.at
    BY <1>1, <2>1, BecomeAt
  <2> HIDE DEF Later
  <2> QED BY <2>1, <2>2, <2>3, <2>4, <2>5, BesideBecome DEF Beside
<1>4. CASE StoreVariable \/ StoreToPointer \/ EndIf \/ EndWhile \/ EndFor \/ Display \/ EndMain
  BY <1>4 DEF StoreVariable, StoreToPointer, EndIf, EndWhile, EndFor, Closes, Display, EndMain,
              Checked, CheckedAfter, At, Beside, CallPoints
<1>5. CASE ParseNestedBlock \/ ExpectedStatement \/ BlockItem \/ BlockNext \/ EndOfFile
  BY <1>5 DEF ParseNestedBlock, ExpectedStatement, BlockItem, BlockNext, EndOfFile,
              Checked, Enters, At, Beside, CallPoints
<1> QED BY <1>2, <1>3, <1>4, <1>5 DEF StatementStep

LEMMA BesideKeeps ==
  ASSUME Structure, ArgumentInv, Beside
  PROVE  ArgumentInv'
<1>1. FramesOK /\ Len(frames) \in Nat
  BY DEF Structure, TypeOK, FramesOK
<1>2. \A i \in 1 .. Len(frames) : Counted(frames[i]) /\ Expecting(frames[i])
  BY DEF ArgumentInv, Beside
<1>3. \A f : f.at \notin InACall => Expecting(f)
  BY DEF Expecting
<1>4. ASSUME \A i \in 1 .. Len(frames') : Counted(frames'[i]) /\ Expecting(frames'[i])
      PROVE  ArgumentInv'
  BY <1>4 DEF ArgumentInv, Counted, Expecting, CountsArguments, RegularsOf, FloatsOf
<1>5. CASE UNCHANGED frames
  BY <1>2, <1>4, <1>5
<1>6. CASE frames # <<>> /\ Pop
  <2>1. /\ Len(frames') <= Len(frames) /\ Len(frames') \in Nat
        /\ \A i \in 1 .. Len(frames') : frames'[i] = frames[i]
    BY <1>1, <1>6 DEF FramesOK, Pop
  <2> QED BY <1>1, <1>2, <1>4, <2>1
<1>7. ASSUME NEW f, Push(f), f.at \notin InACall, Counted(f)
      PROVE  ArgumentInv'
  <2>1. /\ Len(frames') = Len(frames) + 1 /\ frames'[Len(frames) + 1] = f
        /\ \A i \in 1 .. Len(frames) : frames'[i] = frames[i]
    BY <1>1, <1>7 DEF FramesOK, Push
  <2>2. \A i \in 1 .. Len(frames') : i \in 1 .. Len(frames) \/ i = Len(frames) + 1
    BY <1>1, <2>1
  <2> QED BY <1>2, <1>3, <1>4, <1>7, <2>1, <2>2
<1>8. ASSUME NEW f, frames # <<>>, Become(f), f.at \notin InACall, Counted(f)
      PROVE  ArgumentInv'
  <2>1. /\ Len(frames') = Len(frames)
        /\ \A i \in 1 .. Len(frames) : frames'[i] = frames[i] \/ frames'[i] = f
    BY <1>1, <1>8 DEF FramesOK, Become
  <2> QED BY <1>2, <1>3, <1>4, <1>8, <2>1
<1> QED BY <1>5, <1>6, <1>7, <1>8 DEF Beside

-----------------------------------------------------------------------------
(***************************************************************************)
(* Steps of calls.                                                         *)
(***************************************************************************)
LEMMA CountNext ==
  ASSUME NEW n \in Nat, NEW A,
         NEW S, S = {j \in 1 .. n : j \in A},
         NEW T, T = {j \in 1 .. n + 1 : j \in A}
  PROVE  Cardinality(T) = Cardinality(S) + (IF n + 1 \in A THEN 1 ELSE 0)
<1>1. IsFiniteSet(1 .. n)
  BY FS_Interval
<1>2. IsFiniteSet(S)
  BY <1>1, FS_Subset
<1>3. Cardinality(S) \in Nat
  BY <1>2, FS_CardinalityType
<1>4. CASE n + 1 \in A
  <2>1. T = S \cup {n + 1} /\ n + 1 \notin S
    BY <1>4
  <2> QED BY <1>2, <1>3, <1>4, <2>1, FS_AddElement
<1>5. CASE n + 1 \notin A
  <2>1. T = S
    BY <1>5
  <2> QED BY <1>3, <1>5, <2>1
<1> QED BY <1>4, <1>5

\* One more argument is passed: g is f after it, t the type of the argument.
LEMMA CountArgument ==
  ASSUME NEW f \in Frame, f.name \in DOMAIN FunReturn, CountsArguments(f), Expecting(f), f.at \in InACall,
         NEW t, t = FunParams[f.name][f.n + 1], IsRegular(t) \/ IsFloat(t),
         NEW g, g = [f EXCEPT !.n = @ + 1,
                              !.regs = IF IsRegular(t) THEN @ + 1 ELSE @,
                              !.xmms = IF IsRegular(t) THEN @ ELSE @ + 1]
  PROVE  g.at = f.at /\ CountsArguments(g)
<1> DEFINE params == FunParams[f.name]
           R == {j \in Nat : IsRegular(params[j])}
           F == {j \in Nat : IsFloat(params[j])}
<1>1. /\ g.at = f.at /\ g.name = f.name /\ g.n = f.n + 1
      /\ g.regs = IF IsRegular(t) THEN f.regs + 1 ELSE f.regs
      /\ g.xmms = IF IsRegular(t) THEN f.xmms ELSE f.xmms + 1
  BY DEF Frame
<1>2. f.n \in Nat /\ f.regs \in Nat /\ f.xmms \in Nat
  BY DEF Frame
<1>3. params \in Seq(Concrete) /\ f.n < Len(params) /\ Len(params) \in Nat
  BY DeclarationsAssumption DEF Expecting
<1>4. IsRegular(t) <=> ~IsFloat(t)
  BY DEF IsRegular, IsFloat, Integral, Floating, UNSIGNED_INT, DOUBLE, CHAR, BOOL
<1>5. (f.n + 1 \in R <=> IsRegular(t)) /\ (f.n + 1 \in F <=> IsFloat(t))
  BY <1>2
<1>6. /\ RegularsOf(f) = {j \in 1 .. f.n : j \in R}
      /\ FloatsOf(f) = {j \in 1 .. f.n : j \in F}
  BY <1>2 DEF RegularsOf, FloatsOf
<1>7. /\ RegularsOf(g) = {j \in 1 .. f.n + 1 : j \in R}
      /\ FloatsOf(g) = {j \in 1 .. f.n + 1 : j \in F}
  BY <1>1, <1>2 DEF RegularsOf, FloatsOf
<1> HIDE DEF R, F, params
<1>8. /\ Cardinality(RegularsOf(g)) = f.regs + (IF f.n + 1 \in R THEN 1 ELSE 0)
      /\ Cardinality(FloatsOf(g)) = f.xmms + (IF f.n + 1 \in F THEN 1 ELSE 0)
  <2>1. Cardinality(RegularsOf(g)) = Cardinality(RegularsOf(f)) + (IF f.n + 1 \in R THEN 1 ELSE 0)
    BY <1>2, <1>6, <1>7, CountNext
  <2>2. Cardinality(FloatsOf(g)) = Cardinality(FloatsOf(f)) + (IF f.n + 1 \in F THEN 1 ELSE 0)
    BY <1>2, <1>6, <1>7, CountNext
  <2> QED BY <2>1, <2>2 DEF CountsArguments
<1>9. g.n <= Len(FunParams[g.name])
  BY <1>1, <1>2, <1>3 DEF params
<1>10. g.regs = Cardinality(RegularsOf(g)) /\ g.xmms = Cardinality(FloatsOf(g))
  BY <1>1, <1>2, <1>4, <1>5, <1>8
<1> QED BY <1>1, <1>9, <1>10 DEF CountsArguments

LEMMA TopArguments ==
  ASSUME Structure, ArgumentInv, frames # <<>>
  PROVE  /\ FramesOK /\ Top \in Frame /\ Counted(Top) /\ Resolved(Top)
         /\ pc \notin CallPoints => Expecting(Top)
BY TopOK, TopResolved DEF Structure, TypeOK, ArgumentInv

LEMMA PopShortens ==
  ASSUME FramesOK, frames # <<>>, Pop
  PROVE  /\ Len(frames') \in Nat /\ Len(frames') < Len(frames)
         /\ \A i \in 1 .. Len(frames') : frames'[i] = frames[i]
<1>1. /\ Len(frames') <= Len(frames) /\ Len(frames') \in Nat
      /\ \A i \in 1 .. Len(frames') : frames'[i] = frames[i]
  BY DEF FramesOK, Pop
<1>2. Len(frames') # Len(frames)
  BY TopOK DEF FramesOK, Pop
<1> QED BY <1>1, <1>2, TopOK

\* The innermost activation is replaced by a call that may wait at a CallPoint.
LEMMA ArgumentBecome ==
  ASSUME ArgumentInv, FramesOK, frames # <<>>, NEW f, Become(f), Counted(f),
         pc' \in CallPoints \/ Expecting(f)
  PROVE  ArgumentInv'
<1>1. /\ Len(frames') = Len(frames) /\ Len(frames) \in Nat \ {0}
      /\ frames'[Len(frames)] = f
      /\ \A i \in 1 .. Len(frames) - 1 : frames'[i] = frames[i]
  BY DEF FramesOK, Become
<1>2. \A i \in 1 .. Len(frames') : i = Len(frames) \/ (i \in 1 .. Len(frames) - 1 /\ i < Len(frames))
  BY <1>1
<1>3. \A i \in 1 .. Len(frames) - 1 : i \in 1 .. Len(frames)
  BY <1>1
<1>4. ASSUME NEW i \in 1 .. Len(frames')
      PROVE  /\ Counted(frames'[i])
             /\ i < Len(frames') \/ pc' \notin CallPoints => Expecting(frames'[i])
  BY <1>1, <1>2, <1>3 DEF ArgumentInv
<1> QED BY <1>4 DEF ArgumentInv, Counted, Expecting, CountsArguments, RegularsOf, FloatsOf

\* An argument that passes the check has the type of its parameter.
LEMMA PassedType ==
  ASSUME Structure, frames # <<>>, Top.at \in InACall, Expecting(Top),
         Matches(result.type, FunParams[Top.name][Top.n + 1])
  PROVE  result.type = FunParams[Top.name][Top.n + 1]
<1>1. Top \in Frame /\ Top.name \in DOMAIN FunReturn
  BY TopOK, TopResolved DEF Structure, TypeOK, Resolved
<1>2. Top.n \in Nat /\ Top.n < Len(FunParams[Top.name])
  BY <1>1 DEF Frame, Expecting
<1>3. FunParams[Top.name] \in Seq(Concrete)
  BY <1>1, DeclarationsAssumption
<1>4. FunParams[Top.name][Top.n + 1] \in Concrete
  BY <1>2, <1>3
<1> QED BY <1>4, ValidTypes, ValuesMatch

LEMMA CallArguments ==
  ASSUME Structure, ArgumentInv, CallStep
  PROVE  ArgumentInv'
<1> USE DEF Stops, StopsAfter
<1>1. ASSUME UNCHANGED frames, pc' \in CallPoints \/ UNCHANGED pc
      PROVE  ArgumentInv'
  BY <1>1 DEF ArgumentInv, Counted, Expecting, CountsArguments, RegularsOf, FloatsOf
<1>2. CASE CallInExpression \/ CallStatement
  <2>1. frames # <<>> /\ Top.at \in Naming
    BY <1>2 DEF CallInExpression, CallStatement, BeginCall, At, Naming
  <2>2. \/ UNCHANGED <<frames, pc>>
        \/ /\ Top.name \in DOMAIN FunReturn /\ pc' = "call_args"
           /\ \E at \in InACall : Become([Top EXCEPT !.at = at])
    BY <1>2 DEF CallInExpression, CallStatement, BeginCall, Checked, Goto, InACall
  <2>3. ASSUME NEW at \in InACall, Become([Top EXCEPT !.at = at]), Top.name \in DOMAIN FunReturn,
               pc' = "call_args"
        PROVE  ArgumentInv'
    <3> DEFINE f == [Top EXCEPT !.at = at]
    <3>1. Top \in Frame /\ FramesOK /\ Top.n = 0 /\ Top.regs = 0 /\ Top.xmms = 0
      BY <2>1, TopArguments DEF Counted
    <3>2. f.at = at /\ f.name = Top.name /\ f.n = 0 /\ f.regs = 0 /\ f.xmms = 0
      BY <3>1 DEF Frame
    <3>3. Len(FunParams[f.name]) \in Nat
      BY <2>3, <3>2, DeclarationsAssumption
    <3>4. RegularsOf(f) = {} /\ FloatsOf(f) = {}
      BY <3>2 DEF RegularsOf, FloatsOf
    <3>5. at \notin Naming
      BY DEF InACall, Naming
    <3>6. pc' \in CallPoints /\ Become(f)
      BY <2>3 DEF CallPoints
    <3> HIDE DEF f
    <3>7. Cardinality(RegularsOf(f)) = 0 /\ Cardinality(FloatsOf(f)) = 0
      BY <3>4, FS_EmptySet
    <3>8. Counted(f)
      BY <3>2, <3>3, <3>5, <3>7 DEF Counted, CountsArguments
    <3> QED BY <2>1, <3>1, <3>6, <3>8, ArgumentBecome
  <2> QED BY <1>1, <2>2, <2>3
<1>3. CASE CallArgs
  BY <1>1, <1>3 DEF CallArgs, Goto, CallPoints
<1>4. CASE CallArg
  <2>1. CASE UNCHANGED pc
    BY <1>1, <1>4, <2>1 DEF CallArg, Checked
  <2>2. CASE Top.n < Len(FunParams[Top.name]) /\ UNCHANGED frames
    <3>1. frames # <<>> /\ Len(frames) \in Nat
      BY <1>4, TopOK DEF CallArg, InCall, Structure, TypeOK
    <3>2. Expecting(Top)
      BY <2>2 DEF Expecting
    <3>3. \A i \in 1 .. Len(frames) : Counted(frames[i]) /\ Expecting(frames[i])
      BY <3>1, <3>2 DEF ArgumentInv, Top
    <3> QED BY <2>2, <3>3 DEF ArgumentInv, Counted, Expecting, CountsArguments, RegularsOf, FloatsOf
  <2> QED BY <1>4, <2>1, <2>2 DEF CallArg, Checked
<1>5. CASE CallParam
  <2>1. CASE UNCHANGED <<frames, pc>>
    BY <1>1, <2>1
  <2>2. CASE ~UNCHANGED <<frames, pc>>
    <3> DEFINE g == [Top EXCEPT !.n = @ + 1,
                       !.regs = IF IsRegular(result.type) THEN @ + 1 ELSE @,
                       !.xmms = IF IsRegular(result.type) THEN @ ELSE @ + 1]
    <3>1. /\ pc = "return" /\ InCall
          /\ Matches(result.type, FunParams[Top.name][Top.n + 1])
          /\ CanPass(result.type, Top.regs, Top.xmms)
          /\ Become(g) /\ pc' \in CallPoints
      BY <1>5, <2>2 DEF CallParam, Checked, Enters, Goto, CallPoints
    <3>2. frames # <<>> /\ Top.at \in InACall
      BY <3>1 DEF InCall, InACall
    <3>3. pc \notin CallPoints
      BY <3>1 DEF CallPoints
    <3>4. /\ FramesOK /\ Top \in Frame /\ Top.name \in DOMAIN FunReturn
          /\ CountsArguments(Top) /\ Expecting(Top)
      BY <3>2, <3>3, TopArguments DEF Counted, Resolved
    <3>5. result.type = FunParams[Top.name][Top.n + 1]
      BY <3>1, <3>2, <3>4, PassedType
    <3>6. IsRegular(result.type) \/ IsFloat(result.type)
      BY <3>1 DEF CanPass
    <3>7. g.at = Top.at /\ CountsArguments(g)
      BY <3>2, <3>4, <3>5, <3>6, CountArgument
    <3>8. Counted(g)
      BY <3>2, <3>7 DEF Counted, InACall, Naming
    <3> HIDE DEF g
    <3> QED BY <3>1, <3>2, <3>4, <3>8, ArgumentBecome
  <2> QED BY <2>1, <2>2
<1>6. CASE CallFinish
  <2>1. \/ UNCHANGED <<frames, pc>>
        \/ frames # <<>> /\ Pop /\ pc' \notin CallPoints
    BY <1>6 DEF CallFinish, Checked, InCall, Done, Goto, Yields, Returns, CallPoints
  <2>2. ASSUME frames # <<>>, Pop, pc' \notin CallPoints
        PROVE  ArgumentInv'
    <3>1. FramesOK /\ Len(frames) \in Nat /\ Len(frames) > 0
      BY <2>2, TopOK DEF Structure, TypeOK
    <3>2. /\ Len(frames') \in Nat /\ Len(frames') < Len(frames)
          /\ \A i \in 1 .. Len(frames') : frames'[i] = frames[i]
      BY <2>2, <3>1, PopShortens
    <3>3. \A i \in 1 .. Len(frames') : i \in 1 .. Len(frames) /\ i < Len(frames)
      BY <3>1, <3>2
    <3>4. \A i \in 1 .. Len(frames') : Counted(frames'[i]) /\ Expecting(frames'[i])
      BY <3>2, <3>3 DEF ArgumentInv
    <3> QED BY <3>4 DEF ArgumentInv, Counted, Expecting, CountsArguments, RegularsOf, FloatsOf
  <2> QED BY <1>1, <2>1, <2>2
<1> QED BY <1>2, <1>3, <1>4, <1>5, <1>6 DEF CallStep

-----------------------------------------------------------------------------
(***************************************************************************)
(* Only CallParam moves an argument to a register.                         *)
(***************************************************************************)
NoParameter == emitted'.call # "function_call_param"

LEMMA OtherNames ==
  /\ \A at \in DOMAIN MulopCall : MulopCall[at] # "function_call_param"
  /\ \A at \in DOMAIN AddopCall : AddopCall[at] # "function_call_param"
  /\ \A at \in DOMAIN RelopCall : RelopCall[at] # "function_call_param"
BY DEF MulopCall, AddopCall, RelopCall

LEMMA OtherTagged ==
  ASSUME NEW c, c # "function_call_param", NEW t, NEW x, NEW n,
         \/ Emit(OpOf(c, t)) \/ Emit(OpNamed(c, t, x)) \/ Emit(OpTo(c, t, x))
         \/ Emit([OpOf(c, t) EXCEPT !.n = n]) \/ Emit([OpNamed(c, t, x) EXCEPT !.n = n])
  PROVE  NoParameter
<1>1. emitted'.call = c
  BY DEF Emit, OpOf, OpNamed, OpTo, NoOp
<1> QED BY <1>1 DEF NoParameter

LEMMA OtherQuiet ==
  ASSUME Quiet \/ \E how : Stops(how)
  PROVE  NoParameter
BY CallOf DEF Quiet, Stops, StopsAfter, NoParameter

LEMMA ExpressionParameters ==
  ASSUME Structure, ExpressionStep, pc = "return"
  PROVE  NoParameter
<1>1. CASE CloseParenthesis \/ EndFactor \/ EndTerm \/ EndSimpleExpression \/ EndExpression
           \/ Mulop \/ Addop \/ Relop \/ CastTo
  BY <1>1, OtherQuiet
     DEF CloseParenthesis, EndFactor, EndTerm, EndSimpleExpression, EndExpression, LoopEnds,
         Mulop, Addop, Relop, Operator, CastTo, Checked
<1>2. CASE NotOperand \/ Dereference
  <2>1. \/ \E how : Stops(how)
        \/ Emit(OpOf("alu_not_bool", BOOL))
        \/ Emit(OpTo("load_value_from_pointer", result.type, m_user_types[result.type]))
    BY <1>2 DEF NotOperand, Dereference, Checked
  <2> QED BY <2>1, OtherQuiet, OtherTagged
<1>3. CASE CombineTerm \/ CombineSimple
  <2>1. \/ Top.op \in DOMAIN MulopCall /\ (\/ \E how : Stops(how)
                                           \/ Emit(OpOf(MulopCall[Top.op], Top.type)))
        \/ Top.op \in DOMAIN AddopCall /\ (\/ \E how : Stops(how)
                                           \/ Emit(OpOf(AddopCall[Top.op], Top.type)))
    BY <1>3, AtOK DEF CombineTerm, CombineSimple, Combine, Checked, Resolved
  <2> QED BY <2>1, OtherNames, OtherQuiet, OtherTagged
<1>4. CASE Compare
  <2>1. /\ Top.op \in DOMAIN RelopCall
        /\ \/ \E how : Stops(how)
           \/ Emit([OpOf(RelopCall[Top.op], Top.type) EXCEPT !.n = m_label_tag'])
    BY <1>4, AtOK DEF Compare, Checked, Resolved
  <2> QED BY <2>1, OtherNames, OtherQuiet, OtherTagged
<1>5. ~(\/ ParseExpression \/ ParseSimpleExpression \/ ParseTerm \/ ParseFactor \/ ParseNested
        \/ ParseLiteral \/ ExpectedExpression \/ VariableReference \/ VariableUsage
        \/ ParseNamedType \/ ParsePointerType \/ ExpectedType \/ PointerTypeDone \/ Convert)
  BY DEF ParseExpression, ParseSimpleExpression, ParseTerm, ParseFactor, Descend, ParseNested,
         ParseLiteral, ExpectedExpression, VariableReference, VariableUsage, ParseNamedType,
         ParsePointerType, ExpectedType, PointerTypeDone, Convert, Enters, At
<1> QED BY <1>1, <1>2, <1>3, <1>4, <1>5 DEF ExpressionStep

LEMMA StatementParameters ==
  ASSUME Structure, StatementStep, pc = "return"
  PROVE  NoParameter
<1>1. CASE StoreVariable \/ LoadTarget \/ Display
  <2>1. \/ emitted' = NoOp
        \/ emitted' = OpNamed("store_variable", VarType[Top.name], Top.name)
        \/ emitted' = OpNamed("load_variable", VarType[Top.name], Top.name)
        \/ emitted' = OpOf("debug_display", result.type)
    BY <1>1 DEF StoreVariable, LoadTarget, Display, Checked, CheckedAfter, Emit, Stops, StopsAfter
  <2> QED BY <2>1, CallOf DEF NoParameter
<1>2. CASE IfCondition \/ WhileCondition \/ ForMax
  <2>1. \/ \E how : Stops(how)
        \/ Emit([OpOf("statement_if_post_check", BOOL) EXCEPT !.n = Top.n])
        \/ Emit([OpOf("statement_while_post_check", BOOL) EXCEPT !.n = Top.n])
        \/ Emit([OpNamed("statement_for_post_check", UNSIGNED_INT, Top.name) EXCEPT !.n = Top.n])
    BY <1>2 DEF IfCondition, WhileCondition, Condition, ForMax, Checked
  <2> QED BY <2>1, OtherQuiet, OtherTagged
<1>3. ~(\/ ParseAssignment \/ StatementIdentifier \/ AssignTarget \/ DerefTarget \/ EndTarget
        \/ WalkTarget \/ StoreToPointer \/ ParseStatement \/ ParseConditional \/ ParseNestedBlock
        \/ ExpectedStatement \/ IfElse \/ EndIf \/ EndWhile \/ EndFor \/ ForAssigned \/ BeginBlock
        \/ BlockItem \/ BlockNext \/ EndMain \/ EndOfFile)
  BY DEF ParseAssignment, StatementIdentifier, AssignTarget, DerefTarget, EndTarget, WalkTarget,
         StoreToPointer, ParseStatement, ParseConditional, ParseNestedBlock, ExpectedStatement,
         IfElse, EndIf, EndWhile, EndFor, Closes, ForAssigned, BeginBlock, BlockItem, BlockNext,
         EndMain, EndOfFile, Enters, At
<1> QED BY <1>1, <1>2, <1>3 DEF StatementStep

\* The register an argument goes to is the one its counters name.
Passed == pc = "return" /\ emitted'.call = "function_call_param" =>
            Writes(emitted') = {AbiRegister(FunParams[Top.name], Top.n + 1)}

LEMMA CallParameters ==
  ASSUME Structure, ArgumentInv, CallStep
  PROVE  Passed
<1> SUFFICES ASSUME pc = "return", emitted'.call = "function_call_param"
             PROVE  Writes(emitted') = {AbiRegister(FunParams[Top.name], Top.n + 1)}
  BY DEF Passed
<1>1. CallParam
  BY DEF CallStep, CallInExpression, CallStatement, BeginCall, CallArgs, CallArg, CallFinish,
         Enters, At
<1>2. /\ frames # <<>> /\ Top.at \in InACall
      /\ Matches(result.type, FunParams[Top.name][Top.n + 1])
      /\ CanPass(result.type, Top.regs, Top.xmms)
      /\ emitted' = [OpOf("function_call_param", result.type)
                       EXCEPT !.n = ArgumentIndex(Top, result.type)]
  <2>1. ~\E how : Stops(how)
    BY OtherQuiet DEF NoParameter
  <2> QED BY <1>1, <2>1 DEF CallParam, Checked, InCall, InACall, Emit
<1>3. pc \notin CallPoints
  BY DEF CallPoints
<1>4. Top \in Frame /\ CountsArguments(Top) /\ Expecting(Top)
  BY <1>2, <1>3, TopArguments DEF Counted
<1>5. result.type = FunParams[Top.name][Top.n + 1]
  BY <1>2, <1>4, PassedType
<1>6. emitted'.type = result.type /\ emitted'.n = ArgumentIndex(Top, result.type)
  BY <1>2 DEF OpOf, NoOp
<1>7. Writes(emitted') = {IF IsRegular(result.type) THEN Regular(Top.regs) ELSE Xmm(Top.xmms)}
  BY <1>6 DEF Writes, ArgumentIndex
<1>8. (Top.n + 1) - 1 = Top.n
  BY <1>4 DEF Frame
<1>9. AbiRegister(FunParams[Top.name], Top.n + 1)
        = IF IsRegular(result.type) THEN Regular(Top.regs) ELSE Xmm(Top.xmms)
  BY <1>4, <1>5, <1>8 DEF AbiRegister, CountsArguments, RegularsOf, FloatsOf
<1> QED BY <1>7, <1>9

LEMMA StepArguments ==
  ASSUME Structure, ArgumentInv, [Next]_vars
  PROVE  ArgumentInv' /\ (UNCHANGED vars \/ Passed)
<1>1. CASE UNCHANGED vars
  BY <1>1 DEF vars, ArgumentInv, Counted, Expecting, CountsArguments, RegularsOf, FloatsOf
<1>2. CASE Stopped
  BY <1>1, <1>2 DEF Stopped
<1>3. CASE ExpressionStep \/ StatementStep
  BY <1>3, ExpressionsBeside, StatementsBeside, BesideKeeps, ExpressionParameters,
     StatementParameters DEF NoParameter, Passed
<1>4. CASE CallStep
  BY <1>4, CallArguments, CallParameters
<1> QED BY <1>1, <1>2, <1>3, <1>4 DEF Next

(***************************************************************************)
(* Whatever calls its arguments make, function_call_param gets the         *)
(* register that the System V ABI assigns to the argument: the counters of *)
(* the FunctionCall are the numbers of arguments of each class before it   *)
(* (parse_function_call_after_identifier, function_call_register).         *)
(***************************************************************************)
THEOREM ArgumentsPassed == Spec => ArgumentsFollowABI
<1>1. Init => ArgumentInv
  <2> SUFFICES ASSUME Init
               PROVE  ArgumentInv
    OBVIOUS
  <2>1. Len(frames) = 1 /\ frames[1] = Activation("main")
    BY DEF Init
  <2>2. "main" \notin InACall \cup Naming
    BY DEF InACall, Naming
  <2> QED BY <2>1, <2>2, ActivationAt DEF ArgumentInv, Counted, Expecting
<1>2. Structure /\ ArgumentInv /\ [Next]_vars => ArgumentInv'
  BY StepArguments
<1>3. Structure /\ ArgumentInv /\ [Next]_vars =>
        [pc = "return" /\ emitted'.call = "function_call_param" =>
           Writes(emitted') = {AbiRegister(FunParams[Top.name], Top.n + 1)}]_vars
  BY StepArguments DEF Passed
<1> QED BY <1>1, <1>2, <1>3, StructureHolds, PTL DEF Spec, ArgumentsFollowABI
=============================================================================
