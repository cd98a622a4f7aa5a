------------------------------ MODULE MCMachine ------------------------------
\* Words of 3 or 4 bits, a variable of each type, functions of two parameters.
EXTENDS OperandMachine, Bitwise

IntPtr == FIRST_USER_DEFINED + 1

MCVarType   == [x |-> UNSIGNED_INT, d |-> DOUBLE, b |-> BOOL, c |-> CHAR, p |-> IntPtr]
MCPointsTo  == IntPtr :> UNSIGNED_INT
MCAddressOf == [x |-> 2, d |-> 3, b |-> 4, c |-> 5, p |-> 6]

MCSignature == [f |-> <<UNSIGNED_INT, UNSIGNED_INT>>, g |-> <<DOUBLE, UNSIGNED_INT>>,
                h |-> <<CHAR>>, k |-> <<BOOL>>, q |-> <<DOUBLE, DOUBLE>>]
MCReturns   == [f |-> UNSIGNED_INT, g |-> DOUBLE, h |-> CHAR, k |-> VOID, q |-> UNSIGNED_INT]
MCNames     == DOMAIN MCVarType \cup DOMAIN MCSignature

Ints    == {[type |-> UNSIGNED_INT, value |-> w] : w \in {0, 1, 3, 5, 6}}
Doubles == {[type |-> DOUBLE, value |-> w] : w \in {0, 2, 4, 5}}
\* A character above the middle of its range is extended to a word of higher ones.
Chars   == {[type |-> CHAR, value |-> SignExtend(w, CharBits)] : w \in {1, 2}}

MCAnd(a, b) == a & b
MCOr(a, b)  == a | b
MCXor(a, b) == a ^^ b

FewInts   == {[type |-> UNSIGNED_INT, value |-> w] : w \in {1, 6}}
FewOfAll  == FewInts \cup Chars \cup {[type |-> DOUBLE, value |-> w] : w \in {4, 5}}


IntegerCalls == {"load_i64", "load_variable", "store_variable", "alu_add", "alu_sub",
                 "alu_multiply", "alu_divide", "alu_lower", "alu_greater_equal", "alu_equal",
                 "alu_not_bool", "alu_or_bool"}
DoubleCalls  == {"load_i64", "load_variable", "store_variable", "alu_add", "alu_sub", "alu_multiply",
                 "alu_divide", "alu_modulus", "alu_lower", "alu_greater", "alu_lower_equal", "alu_not_equal",
                 "convert"}
FunctionCalls == {"load_i64", "alu_equal", "function_call_param", "function_call_finalize", "debug_display"}
PointerCalls == {"load_i64", "load_variable", "store_variable", "load_pointer_to_variable",
                 "load_value_from_pointer", "store_value_to_pointer"}
OperatorCalls == {"load_i64", "alu_modulus", "alu_and_bool", "alu_equal"}

AllCalls    == IntegerCalls \cup DoubleCalls \cup FunctionCalls \cup PointerCalls \cup OperatorCalls
AllLiterals == Ints \cup Doubles \cup Chars

(***************************************************************************)
(* A program of a profile makes some of the calls, with some literals, on  *)
(* some of the variables.                                                  *)
(***************************************************************************)
Profile(calls, literals, variables) ==
  [calls |-> calls \cup {NoOp.call, "finalize_main_procedure"}, literals |-> literals,
   variables |-> variables \cup {NoName}]

MachineProfiles ==
  {Profile(IntegerCalls, Ints, {"x"}), Profile(DoubleCalls, Doubles, {"x", "d"}),
   Profile(FunctionCalls, FewOfAll, DOMAIN MCSignature), Profile(PointerCalls, FewInts, DOMAIN MCVarType)}
OperatorProfiles == {Profile(OperatorCalls, Ints, {})}

CONSTANT Profiles

VARIABLE profile

Fits == /\ op.call \in profile.calls
        /\ op.call = "load_i64" => [type |-> op.type, value |-> op.n] \in profile.literals
        /\ op.name \in profile.variables

MCInit == Init /\ profile \in Profiles
InProfile == UNCHANGED profile /\ Fits'
MCNext == \/ BeginOperation /\ InProfile
          \/ EndMain /\ InProfile
          \/ Run /\ InProfile
          \/ Stopped /\ InProfile
MCSpec == MCInit /\ [][MCNext]_<<vars, profile>>
=============================================================================
