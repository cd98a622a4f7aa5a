---------------------------- MODULE OperandMachine ----------------------------
(***************************************************************************)
(* The main procedure of a program, straight-line code: one call of CodeGen*)
(* after another, in any order that the types of the operands allow (what  *)
(* the parser guarantees: StackCode), its code run on the processor.       *)
(***************************************************************************)
EXTENDS X86, SequencesExt

CONSTANTS
  VarType,       \* variables -> Type
  PointsTo,      \* pointer types -> Type
  Literals,      \* arguments of load_i64 with their types: [type, value]
  Allowed,       \* the methods of CodeGen a run uses
  Defects,       \* the calls of KnownDefects that it makes as well
  MaxOperations  \* bound on the number of calls

ASSUME ProgramAssumption ==
  /\ DOMAIN VarType = DOMAIN AddressOf
  /\ \A v \in DOMAIN VarType : VarType[v] \in Concrete \cup DOMAIN PointsTo
  /\ \A t \in DOMAIN PointsTo : IsUserDefined(t) /\ PointsTo[t] \in Concrete \cup DOMAIN PointsTo
  /\ Literals \subseteq [type : Arithmetic \cup {CHAR}, value : Word]
  /\ MaxOperations \in Nat /\ MaxOperations + 4 <= StackBase

VARIABLES
  op,        \* the call whose code runs
  operands,  \* types of the operands on the stack when it has run
  argTypes,  \* types of the arguments passed for the call in progress
  count,     \* calls made
  before     \* history: what the state meant before op

vars == <<machine, op, operands, argTypes, count, before>>

Position(types, type) == Cardinality({k \in DOMAIN types : IsFloat(types[k]) = IsFloat(type)})

\* The numbers a call may have: values, labels and positions of arguments.
Numbers(o) ==
  CASE o.call = "load_i64"            -> {l.value : l \in {m \in Literals : m.type = o.type}}
    [] o.call \in Compares            -> {1}
    [] o.call = "function_call_param" -> {Position(argTypes, o.type)}
    [] OTHER                          -> {0}

\* The calls the parser makes: ParserProps shows that it makes no others.
Typed    == TypedCalls(VarType, PointsTo, Returns)
Possible == UNION {{[o EXCEPT !.n = k] : k \in Numbers(o)} : o \in Typed}

\* Arguments are passed for one function, and nothing else is called meanwhile, nor
\* computed in the registers of arguments.
ChangesArguments == {"alu_multiply", "alu_divide", "alu_modulus", "debug_display"}
InOrder(o) ==
  CASE o.call = "function_call_param"    -> \E f \in DOMAIN Signature :
                                              IsPrefix(Append(argTypes, o.type), Signature[f])
    [] o.call = "function_call_finalize" -> argTypes = Signature[o.name]
    [] OTHER -> argTypes = <<>> \/ o.call \notin ChangesArguments

\* Calls whose code does not compute what the source means; see Defects.
KnownDefects(o) ==
  CASE o.call = "alu_modulus" /\ o.type = UNSIGNED_INT -> {"remainder"}
    [] o.call = "alu_and_bool"                         -> {"conjunction"}
    [] o.call = "load_i64" /\ SignExtend(o.n, ImmBits) # o.n /\ o.n < 2 ^ ImmBits -> {"immediate"}
    [] o.call = "convert" /\ o.type = DOUBLE /\ o.dest = CHAR -> {"character"}
    [] o.call = "convert" /\ o.type \in Integral /\ o.dest = DOUBLE /\ mem[Len(mem)] >= Half -> {"sign"}
    [] OTHER -> {}

Applicable(o) ==
  /\ o.call \in Allowed
  /\ KnownDefects(o) \subseteq Defects
  /\ Len(Expects(o)) <= Len(operands)
  /\ SubSeq(operands, Len(operands) - Len(Expects(o)) + 1, Len(operands)) = Expects(o)
  /\ InOrder(o)

-----------------------------------------------------------------------------
(* What the state of the machine means, when the code of a call has run.   *)

AtBoundary == running = "running" /\ ip > Len(code)

\* A BOOLEAN is a word of ones or of zeros, a CHAR the low bits of a word.
Denotes(type, w) ==
  CASE type = BOOL -> (IF w = AllOnes THEN 1 ELSE IF w = 0 THEN 0 ELSE 2)
    [] type = CHAR -> CharOf(w)
    [] OTHER       -> w

Meaning ==
  [stack     |-> [i \in 1 .. Len(operands) |->
                    [type |-> operands[i],
                     value |-> IF i < Len(mem) THEN Denotes(operands[i], mem[i + 1]) ELSE 0]],
   variables |-> [v \in DOMAIN VarType |-> Denotes(VarType[v], store[v])],
   args      |-> [i \in 1 .. Len(argTypes) |-> Received(argTypes[i], Argument(argTypes, i))],
   heard     |-> heard,
   last      |-> op]

-----------------------------------------------------------------------------
Init ==
  /\ Entered(BeginMain)
  /\ op = NoOp
  /\ operands = <<>>
  /\ argTypes = <<>>
  /\ count = 0
  /\ before = Meaning

Begin(o) ==
  /\ op' = o
  /\ code' = Code(o)
  /\ ip' = 1
  /\ before' = Meaning
  /\ UNCHANGED <<reg, mem, store, st, flags, heard, running>>

BeginOperation ==
  /\ AtBoundary
  /\ count < MaxOperations
  /\ \E o \in Possible :
       /\ Applicable(o)
       /\ Begin(o)
       /\ operands' = After(operands, o)
       /\ argTypes' = CASE o.call = "function_call_param"    -> Append(argTypes, o.type)
                        [] o.call = "function_call_finalize" -> <<>>
                        [] OTHER                             -> argTypes
       /\ count' = count + 1

\* The block of main may end with ignored results of calls on the stack.
EndMain ==
  /\ AtBoundary
  /\ op.call # "finalize_main_procedure"
  /\ Begin(OpOf("finalize_main_procedure", VOID))
  /\ UNCHANGED <<operands, argTypes, count>>

Run == Execute /\ UNCHANGED <<op, operands, argTypes, count, before>>

Stopped == running # "running" /\ UNCHANGED vars

Next == BeginOperation \/ EndMain \/ Run \/ Stopped

Spec == Init /\ [][Next]_vars

-----------------------------------------------------------------------------
(***************************************************************************)
(* The variables hold values of their types.                               *)
(***************************************************************************)
TypeOK ==
  /\ ip \in 1 .. Len(code) + 1
  /\ \A r \in Registers : reg[r] \in IF r \in {"rbp", "r12"} THEN 0 .. StackBase ELSE Word
  /\ mem \in Seq(Word)
  /\ store \in [DOMAIN AddressOf -> Word]
  /\ st \in Seq(Word)
  /\ flags \in [zf : BOOLEAN, cf : BOOLEAN, lt : BOOLEAN]
  /\ running \in {"running", "returned", "fault", "refused"}
  /\ operands \in Seq(Concrete \cup DOMAIN PointsTo)
  /\ argTypes \in Seq(Concrete)
  /\ count \in 0 .. MaxOperations

(***************************************************************************)
(* The code of each call, whatever was computed before and whatever other  *)
(* code left in the registers, pushes the value the source means, changes  *)
(* the variable it means and no other, and passes to functions, in the     *)
(* places where these look, the values they are called with.               *)
(***************************************************************************)
At == IF AtBoundary THEN Meaning ELSE before
Computes == INSTANCE ValueCode WITH
              stack <- At.stack, variables <- At.variables, args <- At.args,
              heard <- At.heard, last <- At.last
ImplementsValueCode == Computes!Spec

(***************************************************************************)
(* Every function is called with the stack aligned to 16 bytes, however    *)
(* many operands lie on it.                                                *)
(***************************************************************************)
CallsAreAligned == Runs({"call"}) => Rsp % 2 = 0

(***************************************************************************)
(* Between two calls the x87 stack is empty: it has 8 places, and an       *)
(* operation that leaves a value there makes a later one fail.             *)
(***************************************************************************)
X87StackIsEmpty == AtBoundary => st = <<>>

(***************************************************************************)
(* The main procedure returns with the stack it was entered with, whatever *)
(* its code left there: the return address is where ret finds it.          *)
(***************************************************************************)
ReturnsToCaller ==
  /\ Len(mem) >= 1 /\ mem[1] = ReturnAddress
  /\ running = "returned" => Len(mem) = 1

(***************************************************************************)
(* README lists % and && among the operators: % yields the remainder of    *)
(* integers and && the conjunction of its operands.                        *)
(***************************************************************************)
Operand(k) == before.stack[Len(before.stack) - k].value
Pushed     == Meaning.stack[Len(Meaning.stack)].value
Computed(call, type) == AtBoundary /\ op.call = call /\ op.type = type

OperatorsAsDocumented ==
  /\ Computed("alu_modulus", UNSIGNED_INT) => Pushed = Operand(1) % Operand(0)
  /\ Computed("alu_and_bool", BOOL) => Pushed = Operand(1) * Operand(0)
=============================================================================
