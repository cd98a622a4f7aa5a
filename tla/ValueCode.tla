------------------------------ MODULE ValueCode ------------------------------
(***************************************************************************)
(* What the code of each call has to compute: StackCode with values.  The  *)
(* types are those of types.cpp: "INTEGER (u64)", "DOUBLE (f64)".  A       *)
(* BOOLEAN is 0 or 1, a CHAR its code, a pointer the address of a variable.*)
(***************************************************************************)
EXTENDS CodeGenCalls, Words

CONSTANTS
  VarType,    \* variables -> Type
  AddressOf,  \* variables -> Word
  Signature   \* functions -> types of their parameters

VARIABLES
  stack,      \* the operands: [type, value], top last
  variables,  \* variables -> value
  args,       \* arguments passed for the call in progress
  heard,      \* the last call of a function, with its arguments
  last        \* the last call of CodeGen

Slot(type, value) == [type |-> type, value |-> value]

IntegerOp(call, a, b) ==
  CASE call = "alu_add"      -> Wrap(a + b)
    [] call = "alu_sub"      -> Wrap(a - b)
    [] call = "alu_multiply" -> Wrap(a * b)
    [] call = "alu_divide"   -> a \div b
    [] call = "alu_modulus"  -> a % b

Sign == [alu_add |-> "+", alu_sub |-> "-", alu_multiply |-> "*", alu_divide |-> "/",
         alu_modulus |-> "%"]

BoolOp(call, a, b) == IF call = "alu_and_bool" THEN a * b ELSE IF a + b > 0 THEN 1 ELSE 0

Holds(call, a, b) ==
  CASE call = "alu_equal"         -> a = b
    [] call = "alu_not_equal"     -> a # b
    [] call = "alu_lower"         -> a < b
    [] call = "alu_lower_equal"   -> a <= b
    [] call = "alu_greater"       -> a > b
    [] call = "alu_greater_equal" -> a >= b

\* Nothing says what a comparison with NaN yields.
Compared(call, type, a, b) ==
  IF type = DOUBLE /\ NaN \in {a, b} THEN {0, 1}
  ELSE LET x == IF type = DOUBLE THEN Real(a) ELSE a
           y == IF type = DOUBLE THEN Real(b) ELSE b
       IN {IF Holds(call, x, y) THEN 1 ELSE 0}

\* A conversion keeps the value; where the type cannot hold it, or no document
\* says what it becomes, the result is left open.
Converted(source, destination, a) ==
  CASE source = DOUBLE /\ destination # DOUBLE ->
         IF a # NaN /\ Real(a) >= 0 THEN {Real(a)} ELSE Word
    [] source = UNSIGNED_INT /\ destination = DOUBLE ->
         IF a < Half THEN {DoubleOf(a)} ELSE {w \in Word : w = NaN \/ Real(w) > 0}
    [] source = BOOL /\ destination = CHAR -> Word
    [] OTHER -> {a}

\* What a value of a type is, of a number that was computed for it.
Kept(type, value) == IF type = CHAR THEN CharOf(value) ELSE value

\* The values a call may push, from the operands it popped: none for a division by zero
\* and for a pointer to nothing.
Values(op, a) ==
  CASE op.call = "load_i64"                 -> {op.n}
    [] op.call = "load_variable"            -> {variables[op.name]}
    [] op.call = "load_pointer_to_variable" -> {AddressOf[op.name]}
    [] op.call = "load_value_from_pointer"  -> {variables[v] : v \in {u \in DOMAIN VarType : AddressOf[u] = a[1]}}
    [] op.call = "alu_not_bool"             -> {1 - a[1]}
    [] op.call \in {"alu_and_bool", "alu_or_bool"} -> {BoolOp(op.call, a[1], a[2])}
    [] op.call \in DOMAIN Sign -> IF op.type = DOUBLE THEN {DoubleOp(Sign[op.call], a[1], a[2])}
                                  ELSE IF op.call \in {"alu_divide", "alu_modulus"} /\ a[2] = 0 THEN {}
                                  ELSE {IntegerOp(op.call, a[1], a[2])}
    [] op.call \in Compares                 -> Compared(op.call, op.type, a[1], a[2])
    [] op.call = "convert"                  -> Converted(op.type, op.dest, a[1])
    [] op.call = "function_call_finalize"   -> {Result(op.name, args)}

Assigned(op, a) ==
  CASE op.call = "store_variable"         -> [variables EXCEPT ![op.name] = a[1]]
    [] op.call = "store_value_to_pointer" -> [v \in DOMAIN VarType |-> IF AddressOf[v] = a[2] THEN a[1] ELSE variables[v]]
    [] OTHER                              -> variables

\* A BOOLEAN is displayed as an integer.
Shown(type) == IF type = BOOL THEN UNSIGNED_INT ELSE type

Told(op, a) ==
  CASE op.call = "debug_display"          -> [function |-> "printf", args |-> <<Shown(op.type), a[1]>>]
    [] op.call = "function_call_finalize" -> [function |-> op.name, args |-> args]
    [] op.call = "alu_modulus" /\ op.type = DOUBLE -> [function |-> "fmod", args |-> a]
    [] OTHER                              -> heard

Passed(op, a) ==
  CASE op.call = "function_call_param"    -> args \o a
    [] op.call = "function_call_finalize" -> <<>>
    [] OTHER                              -> args

Init ==
  /\ stack = <<>>
  /\ variables = [v \in DOMAIN VarType |-> 0]
  /\ args = <<>>
  /\ heard = [function |-> NoName, args |-> <<>>]
  /\ last = NoOp

Compute(op) ==
  LET popped == Len(Expects(op))
      below  == Len(stack) - popped
      a      == [i \in 1 .. popped |-> stack[below + i].value]
  IN /\ below >= 0
     /\ \A i \in 1 .. popped : stack[below + i].type = Expects(op)[i]
     /\ \/ /\ Leaves(op) = <<>>
           /\ stack' = SubSeq(stack, 1, below)
        \/ /\ Leaves(op) # <<>>
           /\ \E v \in Values(op, a) : stack' = SubSeq(stack, 1, below) \o <<Slot(Leaves(op)[1], Kept(Leaves(op)[1], v))>>
     /\ variables' = Assigned(op, a)
     /\ args' = Passed(op, a)
     /\ heard' = Told(op, a)
     /\ last' = op

Next == Compute(last')

Spec == Init /\ [][Next]_<<stack, variables, args, heard, last>>
=============================================================================
