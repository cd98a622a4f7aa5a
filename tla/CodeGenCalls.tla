---------------------------- MODULE CodeGenCalls ----------------------------
(***************************************************************************)
(* The interface between Compiler and CodeGen (codegen.hpp), at the level  *)
(* of the run-time operand stack: the parser calls one CodeGen method per  *)
(* construct, and the assembly a method writes pops its operands from the  *)
(* machine stack and pushes its result there.  An Op is one such call.     *)
(* What the instructions do with the values is the business of the CPU;    *)
(* here a slot of the stack is known by the type of the value it holds.    *)
(***************************************************************************)
EXTENDS CeriTypes, Sequences

CONSTANTS
  Names,       \* identifiers of the source text
  NumRegular,  \* general purpose argument registers (6: %rdi ... %r9)
  NumFloat     \* floating point argument registers (8: %xmm0 ... %xmm7)

ASSUME RegistersAssumption == NumRegular \in Nat /\ NumFloat \in Nat

NoName == ""

MulopCall == [MULOP_MUL |-> "alu_multiply", MULOP_DIV |-> "alu_divide",
              MULOP_MOD |-> "alu_modulus",  MULOP_AND |-> "alu_and_bool"]
AddopCall == [ADDOP_ADD |-> "alu_add", ADDOP_SUB |-> "alu_sub",
              ADDOP_OR  |-> "alu_or_bool"]
RelopCall == [RELOP_EQU  |-> "alu_equal",         RELOP_DIFF |-> "alu_not_equal",
              RELOP_INF  |-> "alu_lower",         RELOP_SUP  |-> "alu_greater",
              RELOP_INFE |-> "alu_lower_equal",   RELOP_SUPE |-> "alu_greater_equal"]

Loads    == {"load_variable", "load_i64", "load_pointer_to_variable"}
Binops   == {"alu_multiply", "alu_divide", "alu_modulus", "alu_and_bool",
             "alu_add", "alu_sub", "alu_or_bool"}
ArithmeticCalls == {"alu_add", "alu_sub", "alu_multiply", "alu_divide", "alu_modulus"}
Compares == {"alu_equal", "alu_not_equal", "alu_lower", "alu_greater",
             "alu_lower_equal", "alu_greater_equal"}
Pops     == {"store_variable", "function_call_param", "debug_display",
             "statement_if_post_check", "statement_while_post_check",
             "statement_for_post_check"}
Silent   == {"none", "statement_if_with_else", "statement_if_without_else",
             "statement_if_finalize", "statement_while_prepare",
             "statement_while_finalize", "statement_for_post_assignment",
             "statement_for_finalize", "finalize_main_procedure"}
Calls    == Loads \cup Binops \cup Compares \cup Pops \cup Silent
            \cup {"load_value_from_pointer", "store_value_to_pointer",
                  "alu_not_bool", "convert", "function_call_finalize"}

(***************************************************************************)
(* type: the type the method is given (of the operands); dest: the second  *)
(* type of a conversion or of an access through a pointer; name: variable  *)
(* or function; n: label tag, or index of an argument register.            *)
(***************************************************************************)
Op == [call : Calls, type : Type, dest : Type, name : Names \cup {NoName}, n : Nat]

NoOp == [call |-> "none", type |-> VOID, dest |-> VOID, name |-> NoName, n |-> 0]
OpOf(call, t)       == [NoOp EXCEPT !.call = call, !.type = t]
OpTo(call, t, d)    == [NoOp EXCEPT !.call = call, !.type = t, !.dest = d]
OpNamed(call, t, x) == [NoOp EXCEPT !.call = call, !.type = t, !.name = x]
OpTag(call, tag)    == [NoOp EXCEPT !.call = call, !.n = tag]

\* The operands a call's code pops, bottom first, ...
Expects(op) ==
  CASE op.call \in Pops \cup {"alu_not_bool", "convert", "load_value_from_pointer"} -> <<op.type>>
    [] op.call \in Binops \cup Compares     -> <<op.type, op.type>>
    [] op.call = "store_value_to_pointer"   -> <<op.type, op.dest>>
    [] OTHER                                -> <<>>

\* ... and those it pushes.
Leaves(op) ==
  CASE op.call \in Loads \cup Binops \cup {"alu_not_bool"}      -> <<op.type>>
    [] op.call \in Compares                                     -> <<BOOL>>
    [] op.call \in {"convert", "load_value_from_pointer"}       -> <<op.dest>>
    [] op.call = "function_call_finalize" /\ op.type # VOID     -> <<op.type>>
    [] OTHER                                                    -> <<>>

After(stack, op) == SubSeq(stack, 1, Len(stack) - Len(Expects(op))) \o Leaves(op)

(***************************************************************************)
(* The calls CodeGen refuses by calling Compiler::bug().                   *)
(***************************************************************************)
CanCompare(t) == t \in {UNSIGNED_INT, DOUBLE}

CanConvert(source, destination) ==
  \/ source = destination
  \/ destination = CHAR
  \/ source \in Integral /\ destination \in Integral \cup {DOUBLE}
  \/ source \in Floating /\ destination \in Integral

IsRegular(t) == t \in Integral \cup {CHAR, BOOL}
IsFloat(t)   == t \in Floating

CanPass(t, regular_count, float_count) ==
  \/ IsRegular(t) /\ regular_count < NumRegular
  \/ IsFloat(t) /\ float_count < NumFloat

CanReturn(t) == t # BOOL /\ (IsRegular(t) \/ IsFloat(t) \/ t = VOID)

CanDisplay(t) == t \in {UNSIGNED_INT, BOOL, CHAR, DOUBLE}

(***************************************************************************)
(* The calls that compute, assign or pass a value, with the types the      *)
(* language gives them, their numbers left out.  varType, pointsTo and     *)
(* returns are the types of the variables, of what pointers point to, and  *)
(* of results.                                                             *)
(***************************************************************************)
Unnumbered(op) == [op EXCEPT !.n = 0]

TypedCalls(varType, pointsTo, returns) ==
  {OpOf("load_i64", t) : t \in Arithmetic \cup {CHAR}}
  \cup {OpNamed(c, varType[v], v) : c \in {"load_variable", "store_variable"}, v \in DOMAIN varType}
  \cup (UNION {{OpNamed("load_pointer_to_variable", t, v) : t \in {u \in DOMAIN pointsTo : pointsTo[u] = varType[v]}} :
                 v \in DOMAIN varType})
  \cup {OpTo("load_value_from_pointer", t, pointsTo[t]) : t \in DOMAIN pointsTo}
  \cup {OpTo("store_value_to_pointer", pointsTo[t], t) : t \in DOMAIN pointsTo}
  \cup {OpOf(c, t) : c \in ArithmeticCalls \cup Compares, t \in Arithmetic}
  \cup {OpOf(c, BOOL) : c \in {"alu_and_bool", "alu_or_bool", "alu_not_bool"}}
  \cup {OpTo("convert", s[1], s[2]) : s \in {p \in Concrete \X Concrete : CanConvert(p[1], p[2])}}
  \cup {OpOf(c, t) : c \in {"debug_display", "function_call_param"}, t \in Concrete}
  \cup {OpNamed("function_call_finalize", returns[f], f) : f \in {g \in DOMAIN returns : CanReturn(returns[g])}}
=============================================================================
