---------------------------- MODULE ParserProps ----------------------------
(***************************************************************************)
(* What the parser must keep true while it compiles a main block.          *)
(***************************************************************************)
EXTENDS Parser

ControlPoints ==
  {"expression", "simple_expression", "term", "factor", "dereferencable",
   "reference", "factor_identifier", "return", "type", "type_done",
   "call_args", "call_arg", "call_finish", "statement", "statement_identifier",
   "assignment", "assign_target", "deref_target", "walk_target", "done",
   "block_statement", "block", "end"}

\* Activations that wait between statements ...
Enclosing == {"main", "block", "if_then", "if_end", "while_body", "for_body"}

\* ... with their left operand on the stack (a conversion: with its operand) ...
Holding == {"term_rhs", "simple_rhs", "expr_rhs", "cast_to"}

\* ... and for something else.
Waiting == Holding \cup
  {"expr", "simple", "term", "factor", "paren", "not", "cast", "pointer_type",
   "identifier", "call", "call_statement", "statement_name", "target", "deref",
   "assign", "assign_ptr", "store_ptr", "display", "if_cond", "while_cond",
   "for_assign", "for_max"}

\* The statements that keep a label tag.
Tagged == {"if_cond", "if_then", "if_end", "while_cond", "while_body", "for_max", "for_body"}

Frame == [at : Enclosing \cup Waiting, type : Type, n : Nat,
          op : DOMAIN MulopCall \cup DOMAIN AddopCall \cup DOMAIN RelopCall \cup {NoOperator},
          name : Names \cup {NoName},
          regs : Nat, xmms : Nat, derefs : Seq(Type), base : Nat]

\* The variables hold values of their types.
LexerOK   == tok \in Tokens \cup {FEOF} /\ remaining \in Nat
ControlOK == /\ pc \in ControlPoints
             /\ result \in [type : Type, name : Names \cup {NoName}]
             /\ status \in {"parsing", "accepted", "error", "bug", "uncaught"}
FramesOK  == frames \in Seq(Frame)
TypesOK   == /\ m_user_types \in [DOMAIN m_user_types -> Type]
             /\ m_first_free_type \in Nat
OutputOK  == /\ m_label_tag \in Nat
             /\ operands \in Seq(Type)
             /\ ignored \in Nat
             /\ emitted \in Op

TypeOK == LexerOK /\ ControlOK /\ FramesOK /\ TypesOK /\ OutputOK

Held(f) == IF f.at \in Holding THEN 1 ELSE 0

\* The height of the operand stack where the code of the top activation goes on.
Level == IF frames = <<>> \/ Top.at \in Enclosing THEN ignored
         ELSE Top.base + Held(Top)

\* Values above that level: what a function returned, or the value of an
\* assignment through a pointer below the pointer.
Above == CASE pc = "return"      -> <<result.type>>
           [] pc = "walk_target" -> <<result.type, WalkType(Top)>>
           [] OTHER              -> <<>>

(***************************************************************************)
(* The operand stack and the recursion agree: every activation finds what  *)
(* it left on the run-time stack where it left it, whatever was compiled   *)
(* in between, and returns with exactly its value pushed.                  *)
(***************************************************************************)
OperandsMatchActivations ==
  /\ Len(operands) = Level + Len(Above)
  /\ \A k \in 1 .. Len(Above) : operands[Level + k] = Above[k]
  /\ \A i \in 1 .. Len(frames) :
       /\ frames[i].at \in Holding => operands[frames[i].base + 1] = frames[i].type
       /\ frames[i].at \in Waiting /\ i > 1 =>
            frames[i].base = IF frames[i - 1].at \in Enclosing THEN ignored
                             ELSE frames[i - 1].base + Held(frames[i - 1])

(***************************************************************************)
(* Whatever the source text, the calls made so far are a well-typed stack  *)
(* program: see StackCode.                                                 *)
(***************************************************************************)
Stack == INSTANCE StackCode WITH
           stack <- operands,
           last  <- IF status = "parsing" THEN emitted ELSE NoOp
ImplementsStackCode == Stack!Spec

(***************************************************************************)
(* Between two statements the run-time stack holds the results of calls    *)
(* that were ignored, and nothing else: no statement leaves a value behind *)
(* or takes one that was there before it.  This counts each statement      *)
(* once, in the order of the code: a call ignored in the body of a loop    *)
(* leaves its result in every iteration.                                   *)
(***************************************************************************)
StatementsAreBalanced ==
  pc \in {"statement", "block", "done", "end"} => Len(operands) = ignored

(***************************************************************************)
(* Type ids stand for types: create_type gives equal types one id, and the *)
(* id of a pointer type leads in finitely many steps to a concrete type.   *)
(***************************************************************************)
PointerTypesAreUnique == PointerTableOK(m_user_types, m_first_free_type)

(***************************************************************************)
(* Whatever the source text, every call that computes, assigns or passes a *)
(* value is one of TypedCalls, among which OperandMachine chooses: it names *)
(* the type its operands have, accesses memory as the type that the        *)
(* pointer points to, and adds no Booleans and converts no pointers.       *)
(***************************************************************************)
Tests == {"statement_if_post_check", "statement_while_post_check", "statement_for_post_check"}

CallsAreTyped ==
  status = "parsing" /\ emitted.call \notin Silent \cup Tests =>
    Unnumbered(emitted) \in TypedCalls(VarType, m_user_types, FunReturn)

(***************************************************************************)
(* The loop of a FOR tests and increments a variable, of type INTEGER,     *)
(* whatever target the assignment before TO has: what the assignment       *)
(* returned is still what statement_for_post_check and _finalize name.     *)
(***************************************************************************)
LoopVariablesAreIntegers ==
  \A i \in 1 .. Len(frames) :
    frames[i].at \in {"for_max", "for_body"} =>
      frames[i].name \in DOMAIN VarType /\ VarType[frames[i].name] = UNSIGNED_INT

(***************************************************************************)
(* What README.md says CONVERT supports does not end in Compiler::bug():   *)
(* INTEGER <=> CHAR, and integers to and from floating point.              *)
(***************************************************************************)
DocumentedConversions ==
  {<<UNSIGNED_INT, CHAR>>, <<CHAR, UNSIGNED_INT>>, <<UNSIGNED_INT, DOUBLE>>, <<DOUBLE, UNSIGNED_INT>>}

ConversionsSupported ==
  status = "bug" /\ frames # <<>> /\ Top.at = "cast_to" =>
    <<Top.type, result.type>> \notin DocumentedConversions

\* The compiler stops on every source text, at the end of the file at the latest.
Terminates == <>(status # "parsing")

-----------------------------------------------------------------------------
(***************************************************************************)
(* What makes these properties inductive: which activation may run at a    *)
(* control point and wait below which other, and what an activation knows  *)
(* of the names and types it was started with.                             *)
(***************************************************************************)

AwaitsValue == {"paren", "not", "cast", "factor", "term", "term_rhs", "simple",
                "simple_rhs", "expr", "expr_rhs", "call", "call_statement", "assign",
                "assign_ptr", "display", "if_cond", "while_cond", "for_max"}
AwaitsType  == {"cast_to", "pointer_type"}
InACall     == {"call", "call_statement"}

\* The activations at whose top the control point p may be reached.
RunsIn(p) ==
  CASE p \in {"expression", "simple_expression", "term", "factor", "dereferencable",
              "reference", "return"}       -> AwaitsValue
    [] p = "factor_identifier"             -> {"identifier"}
    [] p \in {"type", "type_done"}         -> AwaitsType
    [] p \in {"call_args", "call_arg", "call_finish"} -> InACall
    [] p \in {"statement", "block_statement"} -> Enclosing
    [] p = "statement_identifier"          -> {"statement_name"}
    [] p = "assignment"                    -> {"for_assign"}
    [] p = "assign_target"                 -> {"target"}
    [] p = "deref_target"                  -> {"deref"}
    [] p = "walk_target"                   -> {"store_ptr"}
    [] p = "done"                          -> Enclosing \cup {"for_assign"}
    [] p = "block"                         -> {"block"}
    [] OTHER                               -> {}

\* The activations below which the activation `at` may be started.
Parents(at) ==
  CASE at = "main"         -> {}
    [] at = "pointer_type" -> AwaitsType
    [] at \in {"target", "deref", "assign", "assign_ptr", "store_ptr"} ->
         Enclosing \cup {"for_assign"}
    [] at \in {"paren", "not", "cast", "cast_to", "factor", "term", "term_rhs", "simple",
               "simple_rhs", "expr", "expr_rhs", "identifier", "call"} -> AwaitsValue
    [] OTHER -> Enclosing

Nesting ==
  /\ frames = <<>> <=> pc = "end"
  /\ frames # <<>> => frames[1].at = "main" /\ Top.at \in RunsIn(pc)
  /\ \A i \in 2 .. Len(frames) : frames[i - 1].at \in Parents(frames[i].at)

\* The types a value may have: concrete ones and the pointer types created.
Valid == Concrete \cup DOMAIN m_user_types

\* dereference_stack holds what the variable, then each pointer, points to.
TargetChain(f) ==
  /\ f.name \in DOMAIN VarType
  /\ \A k \in 1 .. Len(f.derefs) :
       LET from == IF k = 1 THEN VarType[f.name] ELSE f.derefs[k - 1]
       IN from \in DOMAIN m_user_types /\ f.derefs[k] = m_user_types[from]
  /\ f.type = IF f.derefs = <<>> THEN VarType[f.name] ELSE f.derefs[Len(f.derefs)]

Resolved(f) ==
  /\ f.at \in Holding => f.type \in Valid
  /\ f.at = "term_rhs" => f.op \in DOMAIN MulopCall
  /\ f.at = "simple_rhs" => f.op \in DOMAIN AddopCall
  /\ f.at = "expr_rhs" => f.op \in DOMAIN RelopCall
  /\ f.at \in InACall => f.name \in DOMAIN FunReturn
  /\ f.at = "call" => FunReturn[f.name] # VOID
  /\ f.at = "assign" => f.name \in DOMAIN VarType
  /\ f.at \in {"statement_name", "target"} => f.derefs = <<>>
  /\ f.at \in {"deref", "assign_ptr", "store_ptr"} => TargetChain(f)
  /\ f.at \in {"assign_ptr", "store_ptr"} => f.derefs # <<>>
  /\ f.at = "store_ptr" => f.n \in 1 .. Len(f.derefs)

\* What was declared keeps its id.
TableKept == /\ PointerTypesAreUnique
             /\ Pointers \subseteq DOMAIN m_user_types
             /\ \A t \in Pointers : m_user_types[t] = DeclaredTypes[t]

ResultResolved ==
  /\ pc \in {"return", "type_done", "walk_target"} => result.type \in Valid
  /\ pc = "deref_target" /\ Top.derefs = <<>> => tok = "EXPONENT"

FramesResolved == \A i \in 1 .. Len(frames) : Resolved(frames[i])

\* An activation above another one began above the value the other one holds.
BasesAscend ==
  \A i, j \in 1 .. Len(frames) :
    i < j /\ frames[i].at \in Waiting =>
      /\ frames[j].at \in Waiting
      /\ frames[i].base + Held(frames[i]) <= frames[j].base

(***************************************************************************)
(* The inductive invariant: every step of the parser preserves it, and the *)
(* safety properties above follow from it.                                 *)
(***************************************************************************)
Structure == TypeOK /\ Nesting /\ TableKept /\ ResultResolved /\ FramesResolved

IInv == /\ Structure
        /\ BasesAscend
        /\ OperandsMatchActivations
=============================================================================
