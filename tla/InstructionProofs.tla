-------------------------- MODULE InstructionProofs --------------------------
(***************************************************************************)
(* Proofs about the generated code on the processor: the inductive         *)
(* invariant, what each instruction does, and the code of loads, stores,   *)
(* integers and comparisons.  MachineProofs has the other calls, and the   *)
(* theorems.                                                               *)
(***************************************************************************)
EXTENDS OperandMachine, FiniteSetTheorems, TLAPS

(***************************************************************************)
(* Arithmetic of words.                                                    *)
(***************************************************************************)
LEMMA ModulusFacts ==
  /\ Modulus \in Nat /\ Modulus >= 4
  /\ Half \in Nat /\ Half >= 2 /\ Half <= Modulus /\ (Modulus = 2 * Half \/ Modulus = 2 * Half + 1)
  /\ AllOnes \in Word /\ AllOnes # 0 /\ {0, 1, 2, 3} \subseteq Word /\ Word \subseteq Nat
BY PowersAssumption DEF Modulus, Half, AllOnes, Word

LEMMA WordNat == \A w : w \in Word => w \in Nat /\ w < Modulus /\ w <= AllOnes
BY ModulusFacts DEF Word, AllOnes

LEMMA DivMod ==
  ASSUME NEW a \in Int, NEW b \in Nat, b > 0
  PROVE  /\ a \div b \in Int /\ a % b \in 0 .. b - 1 /\ a = b * (a \div b) + (a % b)
OBVIOUS

LEMMA ProductBound ==
  ASSUME NEW a \in Int, NEW b \in Int, NEW c \in Int, a <= b, 0 <= c
  PROVE  a * c <= b * c
OBVIOUS

LEMMA SmallMod ==
  ASSUME NEW b \in Nat, NEW a \in 0 .. b - 1
  PROVE  a % b = a
<1> DEFINE q == a \div b
<1>1. q \in Int /\ a % b \in 0 .. b - 1 /\ a = b * q + (a % b)
  BY DivMod
<1> HIDE DEF q
<1>2. ~ q >= 1
  <2> SUFFICES ASSUME q >= 1 PROVE FALSE
    OBVIOUS
  <2>1. 1 * b <= q * b
    BY <1>1, ProductBound
  <2> QED BY <1>1, <2>1
<1>3. ~ q <= -1
  <2> SUFFICES ASSUME q <= -1 PROVE FALSE
    OBVIOUS
  <2>1. q * b <= (-1) * b
    BY <1>1, ProductBound
  <2> QED BY <1>1, <2>1
<1>4. q = 0
  BY <1>1, <1>2, <1>3
<1>5. b * q = 0
  BY <1>4
<1> QED BY <1>1, <1>5

LEMMA WrapWord ==
  ASSUME NEW n \in Int
  PROVE  Wrap(n) \in Word /\ (n \in Word => Wrap(n) = n)
BY ModulusFacts, DivMod, SmallMod DEF Wrap, Word, Modulus

LEMMA CharOfWord ==
  ASSUME NEW w \in Word
  PROVE  CharOf(w) \in Word /\ CharOf(CharOf(w)) = CharOf(w)
<1> DEFINE m == 2 ^ CharBits
<1>1. m \in Nat /\ m > 0 /\ m <= Modulus
  BY PowersAssumption DEF Modulus
<1>2. w \in Int
  BY ModulusFacts
<1> HIDE DEF m
<1>3. w % m \in 0 .. m - 1 /\ (w % m) % m = w % m
  BY <1>1, <1>2, DivMod, SmallMod
<1> QED BY <1>1, <1>3, ModulusFacts DEF CharOf, m, Word

LEMMA DoubleOfWord == \A n : DoubleOf(n) \in Word
BY ModulusFacts DEF DoubleOf, NaN, Word

LEMMA DoubleOpWord == \A o, a, b : DoubleOp(o, a, b) \in Word
BY DoubleOfWord, ModulusFacts DEF DoubleOp, NaN

LEMMA RealBound ==
  ASSUME NEW w \in Word
  PROVE  Real(w) \in Int /\ Real(w) < Modulus
BY ModulusFacts DEF Real, Word

LEMMA QuotientWord ==
  ASSUME NEW a \in Word, NEW b \in Word, b # 0
  PROVE  a \div b \in Word
<1> DEFINE q == a \div b
<1>1. b \in Nat /\ b > 0 /\ a \in Nat
  BY ModulusFacts
<1>2. q \in Int /\ a % b \in 0 .. b - 1 /\ a = b * q + (a % b)
  BY <1>1, DivMod
<1> HIDE DEF q
<1>3. ~ q <= -1
  <2> SUFFICES ASSUME q <= -1 PROVE FALSE
    OBVIOUS
  <2>1. q * b <= (-1) * b
    BY <1>1, <1>2, ProductBound
  <2> QED BY <1>1, <1>2, <2>1
<1>4. q >= 0
  BY <1>2, <1>3
<1>5. 1 * q <= b * q
  BY <1>1, <1>2, <1>4, ProductBound
<1>6. q <= a
  BY <1>1, <1>2, <1>4, <1>5
<1> QED BY <1>2, <1>4, <1>6, ModulusFacts DEF q, Word

LEMMA HighWord ==
  ASSUME NEW a \in Word, NEW b \in Word
  PROVE  (a * b) \div Modulus \in Word
<1> DEFINE M == Modulus
           p == a * b
           q == p \div M
<1>1. M \in Nat /\ M > 0 /\ a \in 0 .. M - 1 /\ b \in 0 .. M - 1
  BY ModulusFacts DEF Word
<1>2. p \in Int
  BY <1>1
<1>3. a * b <= (M - 1) * b
  BY <1>1, ProductBound
<1>4. b * (M - 1) <= (M - 1) * (M - 1)
  BY <1>1, ProductBound
<1>5. 0 * b <= a * b
  BY <1>1, ProductBound
<1>6. p >= 0 /\ p <= (M - 1) * (M - 1)
  BY <1>1, <1>3, <1>4, <1>5
<1> HIDE DEF p, M
<1>7. q \in Int /\ p % M \in 0 .. M - 1 /\ p = M * q + (p % M)
  BY <1>1, <1>2, DivMod
<1> HIDE DEF q
<1>8. ~ q <= -1
  <2> SUFFICES ASSUME q <= -1 PROVE FALSE
    OBVIOUS
  <2>1. q * M <= (-1) * M
    BY <1>1, <1>7, ProductBound
  <2> QED BY <1>1, <1>6, <1>7, <2>1
<1>9. ~ q >= M
  <2> SUFFICES ASSUME q >= M PROVE FALSE
    OBVIOUS
  <2>1. M * M <= q * M
    BY <1>1, <1>7, ProductBound
  <2>2. (M - 1) * (M - 1) < M * M
    BY <1>1
  <2> QED BY <1>1, <1>6, <1>7, <2>1, <2>2
<1>10. q \in 0 .. M - 1
  BY <1>1, <1>7, <1>8, <1>9
<1> QED BY <1>10 DEF q, p, M, Word
-----------------------------------------------------------------------------
(***************************************************************************)
(* The inductive invariant.  Where the code of a call has run, the words   *)
(* on the stack and in the variables are ones of their types.  Within that *)
(* code, `before` tells what they stood for; the invariant says where each *)
(* operand is, and where the result, before each instruction.              *)
(***************************************************************************)
Types == Concrete \cup DOMAIN PointsTo

\* The words that stand for a value of a type.
Sound(type, w) ==
  /\ w \in Word
  /\ type = BOOL => w \in {0, AllOnes}
  /\ type \in DOMAIN PointsTo =>
       w = 0 \/ \E v \in DOMAIN VarType : VarType[v] = PointsTo[type] /\ w = AddressOf[v]

Represents(slot, w) == Sound(slot.type, w) /\ slot.value = Denotes(slot.type, w)

MachineTyped ==
  /\ reg = [r \in Registers |-> reg[r]]
  /\ \A r \in Registers : reg[r] \in IF r \in {"rbp", "r12"} THEN 0 .. StackBase ELSE Word
  /\ mem \in Seq(Word) /\ Len(mem) >= 1 /\ mem[1] = ReturnAddress
  /\ store \in [DOMAIN AddressOf -> Word]
  /\ \A v \in DOMAIN VarType : Sound(VarType[v], store[v])
  /\ st \in Seq(Word)
  /\ flags \in [zf : BOOLEAN, cf : BOOLEAN, lt : BOOLEAN]

Sums      == {"alu_add", "alu_sub", "alu_multiply", "alu_divide"}
Bools     == {"alu_and_bool", "alu_or_bool"}
Divisions == {"alu_divide", "alu_modulus"}

\* What is known of the arguments of a call of CodeGen.
WellFormed(o) ==
  /\ o.call \in ArithmeticCalls \cup Bools \cup Compares \cup
       {"none", "finalize_main_procedure", "load_i64", "load_variable", "store_variable",
        "load_pointer_to_variable", "load_value_from_pointer", "store_value_to_pointer",
        "alu_not_bool", "convert", "debug_display", "function_call_param", "function_call_finalize"}
  /\ o.call = "load_i64" => o.n \in Word /\ o.type \in Arithmetic \cup {CHAR}
  /\ o.call \in {"load_variable", "store_variable"} => o.name \in DOMAIN VarType /\ o.type = VarType[o.name]
  /\ o.call = "load_pointer_to_variable" =>
       o.name \in DOMAIN VarType /\ o.type \in DOMAIN PointsTo /\ PointsTo[o.type] = VarType[o.name]
  /\ o.call = "load_value_from_pointer" => o.type \in DOMAIN PointsTo /\ o.dest = PointsTo[o.type]
  /\ o.call = "store_value_to_pointer" => o.dest \in DOMAIN PointsTo /\ o.type = PointsTo[o.dest]
  /\ o.call \in ArithmeticCalls \cup Compares => o.type \in Arithmetic
  /\ o.call \in Bools \cup {"alu_not_bool"} => o.type = BOOL
  /\ o.call = "convert" => o.type \in Concrete /\ o.dest \in Concrete /\ CanConvert(o.type, o.dest)
  /\ o.call \in {"debug_display", "function_call_param"} => o.type \in Concrete
  /\ o.call = "function_call_param" => o.n \in Nat
  /\ o.call = "function_call_finalize" => o.name \in DOMAIN Signature /\ o.type = Returns[o.name]

\* The types of the arguments passed before the call.
PassedTypes ==
  CASE op.call = "function_call_param"    -> SubSeq(argTypes, 1, Len(argTypes) - 1)
    [] op.call = "function_call_finalize" -> Signature[op.name]
    [] OTHER                              -> argTypes

Passing(types) ==
  types \in Seq(Concrete) /\ (types = <<>> \/ \E f \in DOMAIN Signature : IsPrefix(types, Signature[f]))

Control ==
  /\ WellFormed(op)
  /\ code = IF op.call = "none" THEN BeginMain ELSE Code(op)
  /\ ip \in 1 .. Len(code) + 1
  /\ running \in {"running", "returned", "fault", "refused"}
  /\ count \in 0 .. MaxOperations
  /\ operands \in Seq(Types) /\ Len(operands) <= count
  /\ op.call = "none" => count = 0
  /\ Passing(argTypes)
  /\ op.call = "function_call_param" =>
       argTypes = Append(PassedTypes, op.type) /\ op.n = Position(PassedTypes, op.type)
  /\ op.call \in ChangesArguments \cup {"function_call_finalize"} => argTypes = <<>>
  /\ op.call = "none" \/ reg["rbp"] = StackBase - 1

-----------------------------------------------------------------------------
\* Operands below those of the call, and the i-th of those.
Base == Len(operands) - Len(Leaves(op))
A(i) == before.stack[Base + i]
V(i) == A(i).value

Slots ==
  /\ Base \in Nat
  /\ before.stack \in Seq([type : Types, value : Word])
  /\ Len(before.stack) = Base + Len(Expects(op)) /\ Len(before.stack) <= count
  /\ \A i \in 1 .. Base : before.stack[i].type = operands[i]
  /\ \A i \in 1 .. Len(Expects(op)) : A(i).type = Expects(op)[i]
  /\ Leaves(op) # <<>> => operands[Base + 1] = Leaves(op)[1]

\* The values of the variables, and of the arguments of the types.
Stored  == [v \in DOMAIN VarType |-> Denotes(VarType[v], store[v])]
ArgumentsOf(types) == [i \in 1 .. Len(types) |-> Received(types[i], Argument(types, i))]

Unassigned == before.variables = Stored

\* All operands up to the d-th of the call are on the stack, and nothing else.
Intact(n) == Len(mem) > n /\ \A i \in 1 .. n : Represents(before.stack[i], mem[i + 1])
Left(d)   == Len(mem) = 1 + Base + d /\ Intact(Base + d)
\* The operands are gone, and there is one more word.
Pushed1   == Len(mem) = 2 + Base /\ Intact(Base)

\* What the call should compute, of what was before.
Was == INSTANCE ValueCode WITH
         stack <- before.stack, variables <- before.variables, args <- before.args,
         heard <- before.heard, last <- before.last

\* The code that calls a function starts at Segment.
Callers == \/ op.call \in {"function_call_finalize", "debug_display"}
           \/ op.call = "alu_modulus" /\ op.type = DOUBLE
Segment == CASE op.call = "function_call_finalize" -> 1
             [] op.call = "alu_modulus"            -> 8
             [] OTHER                              -> IF op.type \in {BOOL, DOUBLE} THEN 5 ELSE 4
Callee  == CASE op.call = "function_call_finalize" -> op.name
             [] op.call = "alu_modulus"            -> "fmod"
             [] OTHER                              -> "printf"
Said    == CASE op.call = "function_call_finalize" -> before.args
             [] op.call = "alu_modulus"            -> [i \in 1 .. 2 |-> V(i)]
             [] OTHER                              -> <<Was!Shown(op.type), V(1)>>
\* The type of the result that it pushes, if any.
Returned == CASE op.call = "function_call_finalize" -> op.type
              [] op.call = "alu_modulus"            -> DOUBLE
              [] OTHER                              -> VOID
Spoke   == Callers /\ ip > Segment + 3

Kept ==
  /\ heard = IF Spoke THEN [function |-> Callee, args |-> Said] ELSE before.heard
  /\ \/ before.args = ArgumentsOf(PassedTypes)
     \/ op.call = "function_call_finalize" /\ Spoke

AtStart ==
  ip = 1 => Left(Len(Expects(op))) /\ st = <<>>

AtLoads ==
  /\ op.call \in {"load_i64", "load_pointer_to_variable"} /\ ip = 2 =>
       Left(0) /\ st = <<>> /\ reg["rax"] = IF op.call = "load_i64" THEN op.n ELSE AddressOf[op.name]
  /\ op.call = "load_value_from_pointer" /\ ip = 2 =>
       Left(0) /\ st = <<>> /\ Represents(A(1), reg["rax"])
  /\ op.call = "store_value_to_pointer" /\ ip = 2 =>
       Left(1) /\ st = <<>> /\ Represents(A(2), reg["rax"])
  /\ op.call = "store_value_to_pointer" /\ ip = 3 =>
       Left(0) /\ st = <<>> /\ Represents(A(1), reg["rbx"]) /\ Represents(A(2), reg["rax"])

\* The word computed from two, and where it is pushed from.
Outcome(x, y) ==
  CASE op.call = "alu_add"      -> Wrap(x + y)
    [] op.call = "alu_sub"      -> Wrap(x - y)
    [] op.call = "alu_multiply" -> Wrap(x * y)
    [] op.call \in Divisions    -> x \div y
    [] op.call = "alu_or_bool"  -> BitOr(x, y)
    [] OTHER                    -> x

IntegerBinop == op.call \in ArithmeticCalls \cup Bools \cup Compares /\ op.type # DOUBLE
AtIntegers ==
  /\ IntegerBinop /\ ip = 2 => Left(1) /\ st = <<>> /\ Represents(A(2), reg["rbx"])
  /\ IntegerBinop /\ (ip = 3 \/ (op.call \in Divisions /\ ip = 4)) =>
       Left(0) /\ st = <<>> /\ Represents(A(1), reg["rax"]) /\ Represents(A(2), reg["rbx"])
  /\ IntegerBinop /\ op.call \in Divisions /\ ip = 4 => reg["rdx"] = 0
  /\ IntegerBinop /\ op.call \notin Compares /\ ip = (IF op.call \in Divisions THEN 5 ELSE 4) =>
       /\ Left(0) /\ st = <<>>
       /\ \E x \in Word, y \in Word :
            /\ Represents(A(1), x) /\ Represents(A(2), y)
            /\ op.call \in Divisions => y # 0
            /\ reg["rax"] = Outcome(x, y)

DoubleBinop == op.call \in Sums \cup Compares /\ op.type = DOUBLE
AtDoubles ==
  /\ DoubleBinop /\ ip = 2 => Left(2) /\ st = <<V(2)>>
  /\ DoubleBinop /\ ip = 3 => Left(2) /\ st = <<V(1), V(2)>>
  /\ DoubleBinop /\ ip = 4 => Left(0) /\ st = <<V(1), V(2)>>
  /\ DoubleBinop /\ op.call \in Sums /\ ip = 5 =>
       Left(0) /\ st = <<DoubleOp(Was!Sign[op.call], V(1), V(2))>>
  /\ DoubleBinop /\ op.call \in Sums /\ ip = 6 =>
       Pushed1 /\ st = <<DoubleOp(Was!Sign[op.call], V(1), V(2))>>

\* The truth value k is one the comparison may yield; the jump is at Branch.
Maybe(k) == k \in Was!Compared(op.call, op.type, V(1), V(2))
Decides  == IF Taken(JumpIf[op.call]) THEN Maybe(1) ELSE Maybe(0)
Branch   == IF op.type = DOUBLE THEN 6 ELSE 4
AtCompares ==
  op.call \in Compares =>
    /\ op.type = DOUBLE /\ ip = 5 => Left(0) /\ Len(st) = 1 /\ Decides
    /\ ip = Branch                 => Left(0) /\ st = <<>> /\ Decides
    /\ ip = Branch + 1             => Left(0) /\ st = <<>> /\ Maybe(0)
    /\ ip = Branch + 2             => Pushed1 /\ st = <<>> /\ mem[Base + 2] = 0 /\ Maybe(0)
    /\ ip \in Branch + 3 .. Branch + 4 => Left(0) /\ st = <<>> /\ Maybe(1)
    /\ ip = Branch + 5             => /\ Pushed1 /\ st = <<>>
                                      /\ \/ mem[Base + 2] = 0 /\ Maybe(0)
                                         \/ mem[Base + 2] = AllOnes /\ Maybe(1)

AtConversions ==
  op.call = "convert" /\ ip = 2 =>
    Left(1) /\ st = <<IF op.type = DOUBLE THEN V(1) ELSE DoubleOf(Signed(V(1)))>>

AtArguments ==
  op.call = "function_call_param" /\ ip = 2 =>
    /\ Left(IF op.type = BOOL THEN 0 ELSE 1) /\ st = <<>>
    /\ Represents(A(1), reg[ArgumentRegister(op.type, op.n)])

\* The value displayed is on its way to its register, and there.
FormatOf(type) == CASE type = CHAR -> Format.c [] type = DOUBLE -> Format.f [] OTHER -> Format.llu
AtDisplays ==
  op.call = "debug_display" =>
    /\ ip \in 2 .. Segment => reg["rdi"] = FormatOf(op.type)
    /\ ip \in 2 .. Segment - 1 => st = <<>>
    /\ ip = 2 => Left(1)
    /\ ip = 3 => Left(IF op.type = DOUBLE THEN 1 ELSE 0)
                 /\ Represents(A(1), reg[IF op.type = DOUBLE THEN "xmm0" ELSE "rsi"])
    /\ ip = 4 /\ Segment = 5 => Left(0) /\ reg[IF op.type = DOUBLE THEN "xmm0" ELSE "rsi"] = V(1)

AtFmod ==
  op.call = "alu_modulus" /\ op.type = DOUBLE =>
    /\ ip \in 2 .. 7 => st = <<>>
    /\ ip = 2 => Left(2)
    /\ ip \in 3 .. 4 => Left(1)
    /\ ip \in 5 .. 7 => Left(0)
    /\ ip \in 2 .. 6 => reg["xmm0"] = V(2)
    /\ ip \in 4 .. 5 => reg["xmm1"] = V(1)
    /\ ip \in 6 .. 7 => reg["xmm1"] = BitXor(V(1), V(2))
    /\ ip = 7 => reg["xmm0"] = V(1)

\* Aligning the stack, calling, and moving the stack pointer back.
Excess == (StackBase - 1 - Base) % 2
AtSegment ==
  Callers =>
    /\ ip \in Segment .. Segment + 6 => st = <<>>
    /\ ip \in Segment .. Segment + 2 => Left(0)
    /\ ip \in Segment .. Segment + 3 => Heard(Callee) = Said
    /\ ip = Segment + 1 => reg["r12"] = StackBase - 1 - Base
    /\ ip \in Segment + 2 .. Segment + 4 => reg["r12"] = Excess
    /\ ip \in Segment + 3 .. Segment + 4 => Len(mem) = 1 + Base + Excess /\ Intact(Base)
    /\ ip \in Segment + 4 .. Segment + 6 /\ Returned # VOID =>
         reg[ResultRegister(Returned)] = Result(Callee, Said)
    /\ ip = Segment + 5 => Left(0)
    /\ ip = Segment + 6 => Pushed1

AtEnd == op.call = "finalize_main_procedure" /\ ip = 2 => Len(mem) = 1

Points ==
  /\ AtStart /\ AtLoads /\ AtIntegers /\ AtDoubles /\ AtCompares
  /\ AtConversions /\ AtArguments /\ AtDisplays /\ AtFmod /\ AtSegment /\ AtEnd

Within == running = "running" /\ ip <= Len(code)

\* Calls without the defects the refinement excludes.
Careful ==
  Defects \subseteq {"immediate"} =>
    /\ op.call # "alu_and_bool"
    /\ op.call = "alu_modulus" => op.type = DOUBLE
    /\ op.call = "convert" /\ op.type = DOUBLE => op.dest # CHAR
    /\ op.call = "convert" /\ op.type \in Integral /\ op.dest = DOUBLE /\ Within => V(1) < Half

\* Where the code of the call has run, it has computed what it should.
Popped == [i \in 1 .. Len(Expects(op)) |-> V(i)]
Top    == mem[Base + 2]

Yields ==
  Leaves(op) # <<>> =>
    /\ Sound(Leaves(op)[1], Top)
    /\ Defects \subseteq {"immediate"} =>
         \E v \in Was!Values(op, Popped) : Denotes(Leaves(op)[1], Top) = Was!Kept(Leaves(op)[1], v)
Effects == /\ Stored = Was!Assigned(op, Popped)
           /\ ArgumentsOf(argTypes) = Was!Passed(op, Popped)
           /\ heard = Was!Told(op, Popped)
\* The words on the stack; the types of what is on the stack before and after.
Remains == /\ Len(mem) = 1 + Base + Len(Leaves(op)) /\ Intact(Base) /\ st = <<>>
           /\ reg["rbp"] = StackBase - 1

IInv ==
  /\ MachineTyped
  /\ Control
  /\ Careful
  /\ Slots
  /\ Within => Unassigned /\ Kept /\ Points
  /\ AtBoundary => Remains /\ Yields /\ Effects
  /\ running = "returned" => Len(mem) = 1

-----------------------------------------------------------------------------
(***************************************************************************)
(* The processor.                                                          *)
(***************************************************************************)
LEMMA Dispatch ==
  ASSUME Execute
  PROVE  /\ running = "running" /\ ip <= Len(code)
         /\ Current.op \in {"movq", "movabs", "movb", "movsd", "leaq"} => Move
         /\ Current.op = "pushq" => PushWord
         /\ Current.op = "popq" => PopWord
         /\ Current.op \in {"addq", "subq", "andq", "orq", "pxor", "notq", "andq_low", "andq_high"} => Arithmetics
         /\ Current.op = "mulq" => Multiply
         /\ Current.op = "div" => Divide
         /\ Current.op = "cmpq" => Compare
         /\ Current.op \in {"jmp", "je", "jne", "jb", "jae", "jbe", "ja"} => Jump
         /\ Current.op = "label" => Label
         /\ Current.op \in {"fldl", "fildq"} => X87Load
         /\ Current.op \in {"fstpl", "fistpq"} => X87Store
         /\ Current.op \in {"faddp", "fsubp", "fmulp", "fdivp"} => X87Arithmetic
         /\ Current.op \in {"fcomip", "fstp"} => X87Compare
         /\ Current.op = "call" => Call
         /\ Current.op = "ret" => Return
<1>1. DOMAIN X87Sign = {"faddp", "fsubp", "fmulp", "fdivp"}
  BY DEF X87Sign
<1>2. CASE Move
  BY <1>2 DEF Move, Runs
<1>3. CASE PushWord
  BY <1>3 DEF PushWord, Runs
<1>4. CASE PopWord
  BY <1>4 DEF PopWord, Runs
<1>5. CASE Arithmetics
  BY <1>5 DEF Arithmetics, Runs
<1>6. CASE Multiply
  BY <1>6 DEF Multiply, Runs
<1>7. CASE Divide
  BY <1>7 DEF Divide, Runs
<1>8. CASE Compare
  BY <1>8 DEF Compare, Runs
<1>9. CASE Jump
  BY <1>9 DEF Jump, Runs
<1>10. CASE Label
  BY <1>10 DEF Label, Runs
<1>11. CASE X87Load
  BY <1>11 DEF X87Load, Runs
<1>12. CASE X87Store
  BY <1>12 DEF X87Store, Runs
<1>13. CASE X87Arithmetic
  BY <1>1, <1>13 DEF X87Arithmetic, Runs
<1>14. CASE X87Compare
  BY <1>14 DEF X87Compare, Runs
<1>15. CASE Call
  BY <1>15 DEF Call, Runs
<1>16. CASE Return
  BY <1>16 DEF Return, Runs
<1> QED BY <1>2, <1>3, <1>4, <1>5, <1>6, <1>7, <1>8, <1>9, <1>10, <1>11, <1>12, <1>13,
           <1>14, <1>15, <1>16 DEF Execute

LEMMA RegisterNames ==
  /\ ParameterRegisters = {"rdi", "rsi", "rdx", "rcx", "r8", "r9", "xmm0", "xmm1", "xmm2", "xmm3",
                           "xmm4", "xmm5", "xmm6", "xmm7"}
  /\ Registers = ParameterRegisters \cup {"rax", "rbx", "rbp", "r12"}
  /\ \A r \in Registers : r \notin {NoName, "$", "rsp", "(%rsp)", "8(%rsp)", "(%rax)"} /\ r \notin DOMAIN AddressOf
  /\ \A v \in DOMAIN AddressOf : v \notin {NoName, "$", "rsp", "(%rsp)", "8(%rsp)", "(%rax)"} /\ v \notin Registers
<1>1. {RegularRegisters[i] : i \in DOMAIN RegularRegisters} = {"rdi", "rsi", "rdx", "rcx", "r8", "r9"}
  <2>1. DOMAIN RegularRegisters = 1 .. 6
    BY DEF RegularRegisters
  <2> QED BY <2>1 DEF RegularRegisters
<1>2. {FloatRegisters[i] : i \in DOMAIN FloatRegisters} =
        {"xmm0", "xmm1", "xmm2", "xmm3", "xmm4", "xmm5", "xmm6", "xmm7"}
  <2>1. DOMAIN FloatRegisters = 1 .. 8
    BY DEF FloatRegisters
  <2> QED BY <2>1 DEF FloatRegisters
<1>3. ParameterRegisters = {"rdi", "rsi", "rdx", "rcx", "r8", "r9", "xmm0", "xmm1", "xmm2", "xmm3",
                           "xmm4", "xmm5", "xmm6", "xmm7"}
  BY <1>1, <1>2 DEF ParameterRegisters
<1>4. Registers = ParameterRegisters \cup {"rax", "rbx", "rbp", "r12"}
  BY DEF Registers, CallerSaved, CalleeSaved
<1>5. \A r \in Registers : r # NoName
  BY <1>3, <1>4, Zenon DEF NoName
<1>6. \A r \in Registers : r \notin {"$", "rsp", "(%rsp)", "8(%rsp)", "(%rax)"}
  BY <1>3, <1>4
<1>7. \A v \in DOMAIN AddressOf : v \notin Registers \cup OtherOperands
  BY MemoryAssumption
<1> QED BY <1>3, <1>4, <1>5, <1>6, <1>7 DEF OtherOperands

LEMMA Reads ==
  ASSUME NEW ins
  PROVE  /\ Read(ins, "$") = ins.n
         /\ Read(ins, "rsp") = Rsp
         /\ Read(ins, "(%rsp)") = mem[Len(mem)]
         /\ Read(ins, "8(%rsp)") = mem[Len(mem) - 1]
         /\ Read(ins, "(%rax)") = store[Target(reg["rax"])]
         /\ \A r \in Registers : Read(ins, r) = reg[r]
         /\ \A v \in DOMAIN AddressOf : Read(ins, v) = store[v]
<1>1. \A r \in Registers : r \notin {"$", "rsp", "(%rsp)", "8(%rsp)", "(%rax)"}
  BY RegisterNames
<1>2. \A v \in DOMAIN AddressOf : v \notin {"$", "rsp", "(%rsp)", "8(%rsp)", "(%rax)"} /\ v \notin Registers
  BY RegisterNames
<1>3. {"$", "rsp", "(%rsp)", "8(%rsp)", "(%rax)"} \cap Registers = {}
  BY <1>1
<1> QED BY <1>1, <1>2, <1>3 DEF Read

\* The words of the stack up to the n-th stay.
Keeps(n) == /\ mem' \in Seq(Word) /\ n \in Nat /\ n <= Len(mem) /\ n <= Len(mem')
            /\ \A i \in 1 .. n : mem'[i] = mem[i]
Grows(w) == Keeps(Len(mem)) /\ Len(mem') = Len(mem) + 1 /\ mem'[Len(mem) + 1] = w
Shrinks(n) == Keeps(Len(mem) - n) /\ Len(mem') = Len(mem) - n

\* The step executed one instruction; but for them it leaves the processor as it is.
Advances == Advance /\ heard' = heard
OnlyStack    == Advances /\ UNCHANGED <<reg, store, st, flags>>
OnlyRegister(r, w) == /\ Advances /\ reg' = [reg EXCEPT ![r] = w]
                      /\ UNCHANGED <<mem, store, st, flags>>

LEMMA Writes ==
  ASSUME NEW w, MachineTyped
  PROVE  /\ \A r \in Registers : Put(r, w) => reg' = [reg EXCEPT ![r] = w] /\ store' = store
         /\ \A r \in Registers : Write(r, w) => reg' = [reg EXCEPT ![r] = w] /\ store' = store /\ mem' = mem
         /\ \A v \in DOMAIN AddressOf : Put(v, w) => reg' = reg /\ store' = [store EXCEPT ![v] = w]
         /\ Write("rsp", w) => reg' = reg /\ store' = store /\ mem' = StackAt(w)
         /\ Write("(%rsp)", w) => reg' = reg /\ store' = store /\ mem' = [mem EXCEPT ![Len(mem)] = w]
         /\ Write("(%rax)", w) => reg' = reg /\ mem' = mem /\ store' = [store EXCEPT ![Target(reg["rax"])] = w]
<1>1. \A r \in Registers : r \notin {"rsp", "(%rsp)", "(%rax)"} /\ r \notin DOMAIN AddressOf
  BY RegisterNames
<1>2. \A v \in DOMAIN AddressOf : v \notin {"rsp", "(%rsp)", "(%rax)"} /\ v \notin Registers
  BY RegisterNames
<1>3. DOMAIN store = DOMAIN AddressOf
  BY DEF MachineTyped
<1>4. {"rsp", "(%rsp)", "(%rax)"} \cap Registers = {} /\ {"rsp", "(%rsp)", "(%rax)"} \cap DOMAIN store = {}
  BY <1>1, <1>2, <1>3
<1> QED BY <1>1, <1>2, <1>3, <1>4 DEF Put, Write

LEMMA StackShrinks ==
  ASSUME MachineTyped, NEW n \in 0 .. Len(mem), mem' = StackAt(Rsp + n)
  PROVE  Shrinks(n)
<1>1. Len(mem) \in Nat /\ StackBase \in Nat /\ mem \in Seq(Word)
  BY MemoryAssumption DEF MachineTyped
<1>2. Rsp + n >= Rsp /\ StackBase - (Rsp + n) = Len(mem) - n
  BY <1>1 DEF Rsp
<1>3. mem' = SubSeq(mem, 1, Len(mem) - n)
  BY <1>2 DEF StackAt
<1>4. mem' \in Seq(Word) /\ Len(mem') = Len(mem) - n
  BY <1>1, <1>3
<1>5. \A i \in 1 .. Len(mem) - n : mem'[i] = mem[i]
  BY <1>1, <1>3
<1> QED BY <1>1, <1>4, <1>5 DEF Shrinks, Keeps

LEMMA StackGrows ==
  ASSUME MachineTyped, NEW n \in Nat, mem' = StackAt(Rsp - n)
  PROVE  Keeps(Len(mem)) /\ Len(mem') = Len(mem) + n
<1>1. CASE n = 0
  <2>1. Rsp - n = Rsp + n
    BY <1>1, MemoryAssumption DEF Rsp, MachineTyped
  <2>2. Shrinks(n)
    BY <1>1, <2>1, StackShrinks DEF MachineTyped
  <2> QED BY <1>1, <2>2 DEF Shrinks, MachineTyped
<1>2. CASE n > 0
  <2> DEFINE room == [i \in 1 .. n |-> 0]
  <2>1. Rsp - (Rsp - n) = n /\ ~ (Rsp - n >= Rsp)
    BY <1>2, MemoryAssumption DEF Rsp, MachineTyped
  <2>2. StackAt(Rsp - n) = mem \o room
    BY <2>1 DEF StackAt
  <2>3. 0 \in Word
    BY ModulusFacts
  <2>4. room \in Seq(Word) /\ Len(room) = n
    BY <2>3
  <2> HIDE DEF room
  <2>5. mem \in Seq(Word) /\ Len(mem) \in Nat
    BY DEF MachineTyped
  <2> DEFINE grown == mem \o room
  <2>6. grown \in Seq(Word) /\ Len(grown) = Len(mem) + n /\ \A i \in 1 .. Len(mem) : grown[i] = mem[i]
    BY <2>4, <2>5
  <2>7. mem' = grown
    BY <2>2
  <2> HIDE DEF grown
  <2> QED BY <2>5, <2>6, <2>7 DEF Keeps
<1> QED BY <1>1, <1>2

(***************************************************************************)
(* What remains typed.                                                     *)
(***************************************************************************)
LEMMA TypedStack ==
  ASSUME MachineTyped, Keeps(1), UNCHANGED <<reg, store, flags>>, st' \in Seq(Word)
  PROVE  MachineTyped'
BY DEF MachineTyped, Keeps

LEMMA TypedRegister ==
  ASSUME MachineTyped, UNCHANGED <<mem, store, st, flags>>, NEW r \in Registers, NEW w,
         w \in IF r \in {"rbp", "r12"} THEN 0 .. StackBase ELSE Word, reg' = [reg EXCEPT ![r] = w]
  PROVE  MachineTyped' /\ reg'[r] = w /\ (\A q \in Registers \ {r} : reg'[q] = reg[q])
BY DEF MachineTyped

-----------------------------------------------------------------------------
(***************************************************************************)
(* Single instructions.                                                    *)
(***************************************************************************)
LEMMA RunPushRegister ==
  ASSUME Execute, MachineTyped, NEW r \in Registers \ {"rbp", "r12"}, Current = Push(r)
  PROVE  OnlyStack /\ Grows(reg[r]) /\ MachineTyped'
<1>1. PushWord
  BY Dispatch DEF Push, Ins
<1>2. Current.src = r /\ Current.dst = NoName
  BY DEF Push, Ins
<1>3. r \notin {"$", "(%rax)"} /\ NoName # "(%rax)"
  BY RegisterNames, Zenon DEF NoName
<1>4. OnlyStack /\ mem' = Append(mem, reg[r])
  BY <1>1, <1>2, <1>3, Reads DEF PushWord, OnlyStack, Advances, Accesses
<1>5. reg[r] \in Word
  BY DEF MachineTyped
<1>6. Grows(reg[r])
  BY <1>4, <1>5 DEF Grows, Keeps, MachineTyped
<1> QED BY <1>4, <1>6, TypedStack DEF Grows, Keeps, OnlyStack, MachineTyped

LEMMA RunPushVariable ==
  ASSUME Execute, MachineTyped, NEW v \in DOMAIN AddressOf, Current = Push(v)
  PROVE  OnlyStack /\ Grows(store[v]) /\ MachineTyped'
<1>1. PushWord
  BY Dispatch DEF Push, Ins
<1>2. Current.src = v /\ Current.dst = NoName
  BY DEF Push, Ins
<1>3. v \notin {"$", "(%rax)"} /\ NoName # "(%rax)"
  BY RegisterNames, Zenon DEF NoName
<1>4. OnlyStack /\ mem' = Append(mem, store[v])
  BY <1>1, <1>2, <1>3, Reads DEF PushWord, OnlyStack, Advances, Accesses
<1>5. store[v] \in Word
  BY DEF MachineTyped
<1>6. Grows(store[v])
  BY <1>4, <1>5 DEF Grows, Keeps, MachineTyped
<1> QED BY <1>4, <1>6, TypedStack DEF Grows, Keeps, OnlyStack, MachineTyped

LEMMA RunPushImmediate ==
  ASSUME Execute, MachineTyped, NEW n \in Word, Current = Imm("pushq", n, NoName)
  PROVE  Stop("refused") \/ (OnlyStack /\ Grows(n) /\ MachineTyped')
<1>1. PushWord
  BY Dispatch DEF Imm
<1>2. Current.src = "$" /\ Current.dst = NoName /\ Current.n = n
  BY DEF Imm
<1>3. NoName # "(%rax)"
  BY Zenon DEF NoName
<1>4. Stop("refused") \/ (OnlyStack /\ mem' = Append(mem, n))
  BY <1>1, <1>2, <1>3, Reads DEF PushWord, OnlyStack, Advances, Accesses
<1>5. SUFFICES ASSUME OnlyStack /\ mem' = Append(mem, n) PROVE Grows(n) /\ MachineTyped'
  BY <1>4
<1>6. Grows(n)
  BY <1>5 DEF Grows, Keeps, MachineTyped
<1> QED BY <1>5, <1>6, TypedStack DEF Grows, Keeps, OnlyStack, MachineTyped

LEMMA RunPopRegister ==
  ASSUME Execute, MachineTyped, NEW r \in Registers \ {"rbp", "r12"}, Current = PopTo(r), Len(mem) >= 2
  PROVE  /\ Advances /\ UNCHANGED <<store, st, flags>>
         /\ Shrinks(1) /\ MachineTyped'
         /\ reg'[r] = mem[Len(mem)] /\ \A q \in Registers \ {r} : reg'[q] = reg[q]
<1>1. PopWord
  BY Dispatch DEF PopTo, Ins
<1>2. Current.dst = r
  BY DEF PopTo, Ins
<1>3. /\ Advances /\ UNCHANGED <<store, st, flags>>
      /\ mem' = SubSeq(mem, 1, Len(mem) - 1) /\ reg' = [reg EXCEPT ![r] = mem[Len(mem)]]
  <2>1. Put(r, mem[Len(mem)])
    BY <1>1, <1>2 DEF PopWord
  <2> QED BY <1>1, <2>1, Writes DEF PopWord, Advances
<1>4. Shrinks(1) /\ mem[Len(mem)] \in Word
  BY <1>3 DEF Shrinks, Keeps, MachineTyped
<1>5. MachineTyped'
  <2>1. mem' \in Seq(Word) /\ Len(mem') >= 1 /\ mem'[1] = mem[1]
    BY <1>4 DEF Shrinks, Keeps, MachineTyped
  <2>2. reg' = [q \in Registers |-> reg'[q]]
    BY <1>3 DEF MachineTyped
  <2>3. \A q \in Registers : reg'[q] \in IF q \in {"rbp", "r12"} THEN 0 .. StackBase ELSE Word
    BY <1>3, <1>4 DEF MachineTyped
  <2> QED BY <1>3, <2>1, <2>2, <2>3 DEF MachineTyped
<1>6. reg'[r] = mem[Len(mem)] /\ \A q \in Registers \ {r} : reg'[q] = reg[q]
  BY <1>3 DEF MachineTyped
<1> QED BY <1>3, <1>4, <1>5, <1>6

LEMMA RunPopVariable ==
  ASSUME Execute, MachineTyped, NEW v \in DOMAIN AddressOf, Current = PopTo(v), Len(mem) >= 2,
         Sound(VarType[v], mem[Len(mem)])
  PROVE  /\ Advances /\ UNCHANGED <<reg, st, flags>>
         /\ Shrinks(1) /\ MachineTyped'
         /\ store' = [store EXCEPT ![v] = mem[Len(mem)]]
<1>1. PopWord
  BY Dispatch DEF PopTo, Ins
<1>2. Current.dst = v
  BY DEF PopTo, Ins
<1>3. /\ Advances /\ UNCHANGED <<reg, st, flags>>
      /\ mem' = SubSeq(mem, 1, Len(mem) - 1) /\ store' = [store EXCEPT ![v] = mem[Len(mem)]]
  <2>1. Put(v, mem[Len(mem)])
    BY <1>1, <1>2 DEF PopWord
  <2> QED BY <1>1, <2>1, Writes DEF PopWord, Advances
<1>4. Shrinks(1) /\ mem[Len(mem)] \in Word
  BY <1>3 DEF Shrinks, Keeps, MachineTyped
<1>5. /\ store' \in [DOMAIN AddressOf -> Word]
      /\ \A u \in DOMAIN VarType : Sound(VarType[u], store'[u])
  BY <1>3, <1>4, ProgramAssumption DEF MachineTyped
<1>6. MachineTyped'
  BY <1>3, <1>4, <1>5 DEF MachineTyped, Shrinks, Keeps
<1> QED BY <1>3, <1>4, <1>6

LEMMA RunMove ==
  ASSUME Execute, MachineTyped, Current.op \in {"movq", "movabs", "movb", "movsd", "leaq"},
         NEW r \in Registers, Current.dst = r, Current.src # "(%rax)",
         NEW w, w \in IF r \in {"rbp", "r12"} THEN 0 .. StackBase ELSE Word,
         w = IF Current.op = "leaq" /\ Current.src # "$" THEN AddressOf[Current.src]
             ELSE Read(Current, Current.src)
  PROVE  /\ Advances /\ UNCHANGED <<mem, store, st, flags>> /\ MachineTyped'
         /\ reg'[r] = w /\ \A q \in Registers \ {r} : reg'[q] = reg[q]
<1>1. Move
  BY Dispatch
<1>2. r # "(%rax)"
  BY RegisterNames
<1>3. Write(r, w) /\ Advances /\ UNCHANGED <<st, flags>>
  BY <1>1, <1>2 DEF Move, Advances, Accesses
<1>4. reg' = [reg EXCEPT ![r] = w] /\ UNCHANGED <<mem, store>>
  BY <1>3, Writes
<1>5. /\ r \in Registers /\ UNCHANGED <<mem, store, st, flags>> /\ reg' = [reg EXCEPT ![r] = w]
      /\ w \in IF r \in {"rbp", "r12"} THEN 0 .. StackBase ELSE Word
  BY <1>3, <1>4
<1>6. MachineTyped' /\ reg'[r] = w /\ \A q \in Registers \ {r} : reg'[q] = reg[q]
  BY ONLY MachineTyped, <1>5, TypedRegister
<1> QED BY <1>3, <1>5, <1>6

LEMMA RunMoveImmediate ==
  ASSUME Execute, MachineTyped, NEW o \in {"movq", "movabs", "movb", "leaq"}, NEW n \in Word,
         NEW r \in Registers \ {"rbp", "r12"}, Current = Imm(o, n, r)
  PROVE  /\ Advances /\ UNCHANGED <<mem, store, st, flags>> /\ MachineTyped'
         /\ reg'[r] = n /\ \A q \in Registers \ {r} : reg'[q] = reg[q]
<1>1. Current.op = o /\ Current.src = "$" /\ Current.n = n /\ Current.dst = r
  BY DEF Imm
<1>2. Read(Current, "$") = n
  BY <1>1, Reads
<1> QED BY <1>1, <1>2, RunMove

LEMMA RunMoveTop ==
  ASSUME Execute, MachineTyped, NEW r \in Registers \ {"rbp", "r12"}, Current = Ins("movsd", "(%rsp)", r)
  PROVE  /\ Advances /\ UNCHANGED <<mem, store, st, flags>> /\ MachineTyped'
         /\ reg'[r] = mem[Len(mem)] /\ \A q \in Registers \ {r} : reg'[q] = reg[q]
<1>1. Current.op = "movsd" /\ Current.src = "(%rsp)" /\ Current.dst = r
  BY DEF Ins
<1>2. mem[Len(mem)] \in Word
  BY DEF MachineTyped
<1> QED BY <1>1, <1>2, Reads, RunMove

LEMMA RunAddressOf ==
  ASSUME Execute, MachineTyped, NEW r \in Registers \ {"rbp", "r12"}, NEW v \in DOMAIN AddressOf,
         Current = Ins("leaq", v, r)
  PROVE  /\ Advances /\ UNCHANGED <<mem, store, st, flags>> /\ MachineTyped'
         /\ reg'[r] = AddressOf[v] /\ \A q \in Registers \ {r} : reg'[q] = reg[q]
<1>1. Current.op = "leaq" /\ Current.src = v /\ Current.dst = r
  BY DEF Ins
<1>2. AddressOf[v] \in Word /\ v \notin {"$", "(%rax)"}
  BY MemoryAssumption, RegisterNames
<1> QED BY <1>1, <1>2, RunMove

\* %rsp is moved to %rbp or %r12, and back.
LEMMA RunSaveStack ==
  ASSUME Execute, MachineTyped, Len(mem) <= StackBase, NEW r \in {"rbp", "r12"}, Current = Ins("movq", "rsp", r)
  PROVE  /\ Advances /\ UNCHANGED <<mem, store, st, flags>> /\ MachineTyped'
         /\ reg'[r] = StackBase - Len(mem) /\ \A q \in Registers \ {r} : reg'[q] = reg[q]
<1>1. Current.op = "movq" /\ Current.src = "rsp" /\ Current.dst = r
  BY DEF Ins
<1>2. Rsp \in 0 .. StackBase
  BY MemoryAssumption DEF Rsp, MachineTyped
<1>3. r \in Registers
  BY RegisterNames
<1> QED BY <1>1, <1>2, <1>3, Reads, RunMove DEF Rsp

LEMMA RunRestoreStack ==
  ASSUME Execute, MachineTyped, Current = Ins("movq", "rbp", "rsp"), reg["rbp"] = StackBase - 1
  PROVE  Advances /\ UNCHANGED <<reg, store, st, flags>> /\ MachineTyped' /\ Len(mem') = 1
<1>1. Move /\ Current.op = "movq" /\ Current.src = "rbp" /\ Current.dst = "rsp"
  BY Dispatch DEF Ins
<1>2. Read(Current, "rbp") = StackBase - 1
  BY Reads, RegisterNames
<1>3. Write("rsp", StackBase - 1) /\ Advances /\ UNCHANGED <<st, flags>>
  BY <1>1, <1>2 DEF Move, Advances, Accesses
<1>4. mem' = StackAt(StackBase - 1) /\ UNCHANGED <<reg, store>>
  BY <1>3, Writes
<1>5. Len(mem) \in Nat /\ Len(mem) >= 1 /\ StackBase \in Nat
  BY MemoryAssumption DEF MachineTyped
<1>6. StackBase - 1 = Rsp + (Len(mem) - 1)
  BY <1>5 DEF Rsp
<1>7. Shrinks(Len(mem) - 1)
  BY <1>4, <1>5, <1>6, StackShrinks
<1>8. Len(mem') = 1 /\ Keeps(1)
  BY <1>5, <1>7 DEF Shrinks, Keeps
<1> QED BY <1>3, <1>4, <1>8, TypedStack DEF MachineTyped

LEMMA RunMoveToStack ==
  ASSUME Execute, MachineTyped, NEW r \in Registers \ {"rbp", "r12"}, Current = Ins("movsd", r, "(%rsp)"),
         Len(mem) >= 2
  PROVE  /\ Advances /\ UNCHANGED <<reg, store, st, flags>> /\ MachineTyped'
         /\ Keeps(Len(mem) - 1) /\ Len(mem') = Len(mem) /\ mem'[Len(mem)] = reg[r]
<1>1. Move /\ Current.op = "movsd" /\ Current.src = r /\ Current.dst = "(%rsp)"
  BY Dispatch DEF Ins
<1>2. Read(Current, r) = reg[r] /\ reg[r] \in Word /\ r # "(%rax)"
  BY Reads, RegisterNames DEF MachineTyped
<1>3. Write("(%rsp)", reg[r]) /\ Advances /\ UNCHANGED <<st, flags>>
  BY <1>1, <1>2 DEF Move, Advances, Accesses
<1>4. mem' = [mem EXCEPT ![Len(mem)] = reg[r]] /\ UNCHANGED <<reg, store>>
  BY <1>3, Writes
<1>5. Keeps(Len(mem) - 1) /\ Len(mem') = Len(mem) /\ mem'[Len(mem)] = reg[r]
  BY <1>2, <1>4 DEF Keeps, MachineTyped
<1>6. Keeps(1)
  BY <1>5 DEF Keeps, MachineTyped
<1> QED BY <1>3, <1>4, <1>5, <1>6, TypedStack DEF MachineTyped

(***************************************************************************)
(* Accesses through a pointer to a variable.                               *)
(***************************************************************************)
LEMMA Targets ==
  ASSUME NEW v \in DOMAIN AddressOf
  PROVE  IsMapped(AddressOf[v]) /\ Target(AddressOf[v]) = v
BY MemoryAssumption DEF IsMapped, Target

LEMMA RunPushPointed ==
  ASSUME Execute, MachineTyped, Current = Push("(%rax)")
  PROVE  \/ Stop("fault")
         \/ /\ IsMapped(reg["rax"]) /\ OnlyStack /\ MachineTyped'
            /\ Grows(store[Target(reg["rax"])])
<1>1. PushWord /\ Current.src = "(%rax)"
  BY Dispatch DEF Push, Ins
<1>2. \/ Stop("fault")
      \/ IsMapped(reg["rax"]) /\ OnlyStack /\ mem' = Append(mem, store[Target(reg["rax"])])
  BY <1>1, Reads DEF PushWord, OnlyStack, Advances, Accesses
<1>3. SUFFICES ASSUME IsMapped(reg["rax"]), OnlyStack, mem' = Append(mem, store[Target(reg["rax"])])
               PROVE  Grows(store[Target(reg["rax"])]) /\ MachineTyped'
  BY <1>2
<1>4. PICK v \in DOMAIN AddressOf : AddressOf[v] = reg["rax"]
  BY <1>3 DEF IsMapped
<1>5. store[Target(reg["rax"])] \in Word
  BY <1>4, Targets DEF MachineTyped
<1>6. Grows(store[Target(reg["rax"])])
  BY <1>3, <1>5 DEF Grows, Keeps, MachineTyped
<1> QED BY <1>3, <1>6, TypedStack DEF Grows, Keeps, OnlyStack, MachineTyped

LEMMA RunStorePointed ==
  ASSUME Execute, MachineTyped, Current = Ins("movq", "rbx", "(%rax)"),
         \A v \in DOMAIN AddressOf : AddressOf[v] = reg["rax"] => Sound(VarType[v], reg["rbx"])
  PROVE  \/ Stop("fault")
         \/ /\ Advances /\ UNCHANGED <<reg, mem, st, flags>> /\ MachineTyped'
            /\ IsMapped(reg["rax"]) /\ store' = [store EXCEPT ![Target(reg["rax"])] = reg["rbx"]]
<1>1. Move /\ Current.op = "movq" /\ Current.src = "rbx" /\ Current.dst = "(%rax)"
  BY Dispatch DEF Ins
<1>2. Read(Current, "rbx") = reg["rbx"]
  BY Reads, RegisterNames
<1>3. \/ Stop("fault")
      \/ IsMapped(reg["rax"]) /\ Write("(%rax)", reg["rbx"]) /\ Advances /\ UNCHANGED <<st, flags>>
  BY <1>1, <1>2 DEF Move, Advances, Accesses
<1>4. SUFFICES ASSUME IsMapped(reg["rax"]), Write("(%rax)", reg["rbx"]), Advances, UNCHANGED <<st, flags>>
               PROVE  /\ UNCHANGED <<reg, mem>> /\ MachineTyped'
                      /\ store' = [store EXCEPT ![Target(reg["rax"])] = reg["rbx"]]
  BY <1>3
<1>5. UNCHANGED <<reg, mem>> /\ store' = [store EXCEPT ![Target(reg["rax"])] = reg["rbx"]]
  BY <1>4, Writes
<1>6. PICK v \in DOMAIN AddressOf : AddressOf[v] = reg["rax"]
  BY <1>4 DEF IsMapped
<1>7. Target(reg["rax"]) = v /\ Sound(VarType[v], reg["rbx"]) /\ reg["rbx"] \in Word
  BY <1>6, Targets, RegisterNames DEF MachineTyped
<1>8. /\ store' \in [DOMAIN AddressOf -> Word]
      /\ \A u \in DOMAIN VarType : Sound(VarType[u], store'[u])
  BY <1>5, <1>6, <1>7, ProgramAssumption DEF MachineTyped
<1> QED BY <1>4, <1>5, <1>8 DEF MachineTyped

-----------------------------------------------------------------------------
(***************************************************************************)
(* Arithmetic instructions.                                                *)
(***************************************************************************)
AluOps == {"addq", "subq", "andq", "orq", "pxor", "notq", "andq_low", "andq_high"}

LEMMA RunAlu ==
  ASSUME Execute, Current.op \in AluOps,
         NEW a, a = Read(Current, Current.dst), NEW b, b = IF Current.src = NoName THEN 0 ELSE Read(Current, Current.src)
  PROVE  Advances /\ UNCHANGED <<st, flags>> /\ Write(Current.dst, Alu(Current.op, a, b))
<1>1. Arithmetics
  BY Dispatch DEF AluOps
<1> QED BY <1>1 DEF Arithmetics, Advances

LEMMA RunAluRegister ==
  ASSUME Execute, MachineTyped, Current.op \in AluOps, NEW r \in Registers, Current.dst = r, NEW b,
         b = IF Current.src = NoName THEN 0 ELSE Read(Current, Current.src),
         NEW w, w = Alu(Current.op, reg[r], b),
         w \in IF r \in {"rbp", "r12"} THEN 0 .. StackBase ELSE Word
  PROVE  /\ Advances /\ UNCHANGED <<mem, store, st, flags>> /\ MachineTyped'
         /\ reg'[r] = w /\ \A q \in Registers \ {r} : reg'[q] = reg[q]
<1>1. Read(Current, r) = reg[r]
  BY Reads
<1>2. Advances /\ UNCHANGED <<st, flags>> /\ Write(r, w)
  BY <1>1, RunAlu
<1>3. /\ r \in Registers /\ UNCHANGED <<mem, store, st, flags>> /\ reg' = [reg EXCEPT ![r] = w]
      /\ w \in IF r \in {"rbp", "r12"} THEN 0 .. StackBase ELSE Word
  BY <1>2, Writes
<1>4. MachineTyped' /\ reg'[r] = w /\ \A q \in Registers \ {r} : reg'[q] = reg[q]
  BY ONLY MachineTyped, <1>3, TypedRegister
<1> QED BY <1>2, <1>3, <1>4

\* Two registers, as words.
LEMMA RunAluRegisters ==
  ASSUME Execute, MachineTyped, NEW o \in {"addq", "subq", "andq", "orq", "pxor"},
         NEW q \in Registers \ {"rbp", "r12"}, NEW r \in Registers \ {"rbp", "r12"}, Current = Ins(o, q, r)
  PROVE  /\ Advances /\ UNCHANGED <<mem, store, st, flags>> /\ MachineTyped'
         /\ reg'[r] = CASE o = "addq" -> Wrap(reg[r] + reg[q])
                        [] o = "subq" -> Wrap(reg[r] - reg[q])
                        [] o = "andq" -> BitAnd(reg[r], reg[q])
                        [] o = "orq"  -> BitOr(reg[r], reg[q])
                        [] o = "pxor" -> BitXor(reg[r], reg[q])
         /\ \A p \in Registers \ {r} : reg'[p] = reg[p]
<1>1. Current.op = o /\ Current.src = q /\ Current.dst = r
  BY DEF Ins
<1>2. q # NoName /\ r # "rsp" /\ Read(Current, q) = reg[q]
  BY RegisterNames, Reads
<1>3. reg[q] \in Word /\ reg[r] \in Word /\ r \notin {"rbp", "r12"}
  BY DEF MachineTyped
<1> DEFINE w == Alu(o, reg[r], reg[q])
<1>4. w = CASE o = "addq" -> Wrap(reg[r] + reg[q])
            [] o = "subq" -> Wrap(reg[r] - reg[q])
            [] o = "andq" -> BitAnd(reg[r], reg[q])
            [] o = "orq"  -> BitOr(reg[r], reg[q])
            [] o = "pxor" -> BitXor(reg[r], reg[q])
  BY <1>1, <1>2 DEF Alu
<1>5. reg[r] + reg[q] \in Int /\ reg[r] - reg[q] \in Int
  BY <1>3, WordNat
<1>6. w \in Word
  BY <1>3, <1>4, <1>5, WrapWord, BitwiseAssumption
<1> HIDE DEF w
<1>7. o \in AluOps
  BY DEF AluOps
<1>8. reg'[r] = w /\ Advances /\ UNCHANGED <<mem, store, st, flags>> /\ MachineTyped'
      /\ \A p \in Registers \ {r} : reg'[p] = reg[p]
  <2>1. w = Alu(Current.op, reg[r], reg[q])
    BY <1>1 DEF w
  <2>2. reg[q] = IF Current.src = NoName THEN 0 ELSE Read(Current, Current.src)
    BY <1>1, <1>2
  <2>3. w \in IF r \in {"rbp", "r12"} THEN 0 .. StackBase ELSE Word
    BY <1>3, <1>6
  <2> QED BY <1>1, <1>7, <2>1, <2>2, <2>3, RunAluRegister
<1> QED BY <1>4, <1>8

\* A Boolean becomes 0 or 1.
LEMMA RunMask ==
  ASSUME Execute, MachineTyped, NEW r \in Registers \ {"rbp", "r12"}, Current = Imm("andq", 1, r)
  PROVE  /\ Advances /\ UNCHANGED <<mem, store, st, flags>> /\ MachineTyped'
         /\ reg'[r] = BitAnd(reg[r], 1) /\ \A p \in Registers \ {r} : reg'[p] = reg[p]
<1>1. Current.op = "andq" /\ Current.src = "$" /\ Current.n = 1 /\ Current.dst = r
  BY DEF Imm
<1>2. Read(Current, "$") = 1 /\ "$" # NoName
  BY <1>1, Reads, Zenon DEF NoName
<1>3. BitAnd(reg[r], 1) \in Word /\ r \notin {"rbp", "r12"}
  BY BitwiseAssumption, ModulusFacts DEF MachineTyped
<1>4. BitAnd(reg[r], 1) = Alu(Current.op, reg[r], 1)
  BY <1>1 DEF Alu
<1>5. Current.op \in AluOps
  BY <1>1 DEF AluOps
<1> QED BY <1>1, <1>2, <1>3, <1>4, <1>5, RunAluRegister

LEMMA Parity ==
  ASSUME NEW a \in 0 .. StackBase
  PROVE  a % 2 \in {0, 1} /\ a - (a % 2) \in 0 .. StackBase /\ (a - (a % 2)) % 2 = 0
BY MemoryAssumption

LEMMA RunLowBit ==
  ASSUME Execute, MachineTyped, Current = Imm("andq_low", 0, "r12")
  PROVE  /\ Advances /\ UNCHANGED <<mem, store, st, flags>> /\ MachineTyped'
         /\ reg'["r12"] = reg["r12"] % 2 /\ \A p \in Registers \ {"r12"} : reg'[p] = reg[p]
<1>1. Current.op = "andq_low" /\ Current.src = "$" /\ Current.n = 0 /\ Current.dst = "r12"
  BY DEF Imm
<1>2. Read(Current, "$") = 0 /\ "$" # NoName
  BY <1>1, Reads, Zenon DEF NoName
<1>3. reg["r12"] \in 0 .. StackBase /\ "r12" \in Registers
  BY RegisterNames DEF MachineTyped
<1>4. StackBase \in Nat /\ StackBase >= 1
  BY MemoryAssumption, ProgramAssumption
<1>5. reg["r12"] % 2 \in 0 .. StackBase
  BY <1>3, <1>4, Parity
<1>6. reg["r12"] % 2 = Alu(Current.op, reg["r12"], 0)
  BY <1>1 DEF Alu
<1>7. Current.op \in AluOps
  BY <1>1 DEF AluOps
<1> QED BY <1>1, <1>2, <1>3, <1>5, <1>6, <1>7, RunAluRegister

(***************************************************************************)
(* The stack pointer.                                                      *)
(***************************************************************************)
LEMMA RunDropWords ==
  ASSUME Execute, MachineTyped, NEW n \in 1 .. Len(mem) - 1, Current = Imm("addq", n, "rsp")
  PROVE  Advances /\ UNCHANGED <<reg, store, st, flags>> /\ MachineTyped' /\ Shrinks(n)
<1>1. Current.op = "addq" /\ Current.src = "$" /\ Current.n = n /\ Current.dst = "rsp"
  BY DEF Imm
<1>2. Read(Current, "$") = n /\ "$" # NoName /\ Read(Current, "rsp") = Rsp
  BY <1>1, Reads, Zenon DEF NoName
<1>3. Alu(Current.op, Rsp, n) = Rsp + n /\ Current.op \in AluOps
  BY <1>1 DEF Alu, AluOps
<1>4. Advances /\ UNCHANGED <<st, flags>> /\ Write("rsp", Rsp + n)
  BY <1>1, <1>2, <1>3, RunAlu
<1>5. mem' = StackAt(Rsp + n) /\ UNCHANGED <<reg, store>>
  BY <1>4, Writes
<1>6. Shrinks(n)
  BY <1>5, StackShrinks DEF MachineTyped
<1>7. Keeps(1)
  <2>1. PICK k : k = Len(mem) - n
    OBVIOUS
  <2>2. Len(mem) \in Nat /\ k \in Nat /\ k >= 1 /\ Len(mem') = k
    <3>1. Len(mem) \in Nat /\ Len(mem') = Len(mem) - n
      BY <1>6 DEF Shrinks, MachineTyped
    <3> QED BY <2>1, <3>1
  <2>3. Keeps(k)
    BY <1>6, <2>1 DEF Shrinks
  <2> QED BY <2>2, <2>3 DEF Keeps
<1> QED BY <1>4, <1>5, <1>6, <1>7, TypedStack DEF MachineTyped

LEMMA RunMakeRoom ==
  ASSUME Execute, MachineTyped, Current = Imm("addq", -1, "rsp")
  PROVE  /\ Advances /\ UNCHANGED <<reg, store, st, flags>> /\ MachineTyped'
         /\ Keeps(Len(mem)) /\ Len(mem') = Len(mem) + 1
<1>1. Current.op = "addq" /\ Current.src = "$" /\ Current.n = -1 /\ Current.dst = "rsp"
  BY DEF Imm
<1>2. Read(Current, "$") = -1 /\ "$" # NoName /\ Read(Current, "rsp") = Rsp
  BY <1>1, Reads, Zenon DEF NoName
<1>3. Alu(Current.op, Rsp, -1) = Rsp - 1 /\ Current.op \in AluOps
  BY <1>1, MemoryAssumption DEF Alu, AluOps, Rsp, MachineTyped
<1>4. Advances /\ UNCHANGED <<st, flags>> /\ Write("rsp", Rsp - 1)
  BY <1>1, <1>2, <1>3, RunAlu
<1>5. mem' = StackAt(Rsp - 1) /\ UNCHANGED <<reg, store>>
  BY <1>4, Writes
<1>6. Keeps(Len(mem)) /\ Len(mem') = Len(mem) + 1
  BY <1>5, StackGrows
<1>7. Keeps(1)
  BY <1>6 DEF Keeps, MachineTyped
<1> QED BY <1>4, <1>5, <1>6, <1>7, TypedStack DEF MachineTyped

LEMMA RunRoundDown ==
  ASSUME Execute, MachineTyped, Len(mem) <= StackBase, Current = Imm("andq_high", 0, "rsp")
  PROVE  /\ Advances /\ UNCHANGED <<reg, store, st, flags>> /\ MachineTyped'
         /\ Keeps(Len(mem)) /\ Len(mem') = Len(mem) + ((StackBase - Len(mem)) % 2)
<1>1. Current.op = "andq_high" /\ Current.src = "$" /\ Current.n = 0 /\ Current.dst = "rsp"
  BY DEF Imm
<1>2. Read(Current, "$") = 0 /\ "$" # NoName /\ Read(Current, "rsp") = Rsp
  BY <1>1, Reads, Zenon DEF NoName
<1>3. Alu(Current.op, Rsp, 0) = Rsp - (Rsp % 2) /\ Current.op \in AluOps
  BY <1>1 DEF Alu, AluOps
<1>4. Advances /\ UNCHANGED <<st, flags>> /\ Write("rsp", Rsp - (Rsp % 2))
  BY <1>1, <1>2, <1>3, RunAlu
<1>5. mem' = StackAt(Rsp - (Rsp % 2)) /\ UNCHANGED <<reg, store>>
  BY <1>4, Writes
<1>6. Rsp = StackBase - Len(mem) /\ Rsp \in 0 .. StackBase
  BY MemoryAssumption DEF Rsp, MachineTyped
<1>7. Rsp % 2 \in Nat
  BY <1>6, Parity
<1>8. Keeps(Len(mem)) /\ Len(mem') = Len(mem) + (Rsp % 2)
  BY <1>5, <1>7, StackGrows
<1>9. Keeps(1)
  BY <1>7, <1>8 DEF Keeps, MachineTyped
<1> QED BY <1>4, <1>5, <1>6, <1>8, <1>9, TypedStack DEF MachineTyped

LEMMA RunMoveBack ==
  ASSUME Execute, MachineTyped, Len(mem) <= StackBase, (StackBase - Len(mem)) % 2 = 0,
         reg["r12"] \in {0, 1}, reg["r12"] < Len(mem), Current = Ins("orq", "r12", "rsp")
  PROVE  Advances /\ UNCHANGED <<reg, store, st, flags>> /\ MachineTyped' /\ Shrinks(reg["r12"])
<1>1. Current.op = "orq" /\ Current.src = "r12" /\ Current.dst = "rsp"
  BY DEF Ins
<1>2. Read(Current, "r12") = reg["r12"] /\ "r12" # NoName /\ Read(Current, "rsp") = Rsp
  BY <1>1, Reads, RegisterNames
<1>3. Rsp = StackBase - Len(mem) /\ Rsp \in 0 .. StackBase /\ Rsp % 2 = 0
  BY MemoryAssumption DEF Rsp, MachineTyped
<1>4. BitOr(Rsp, reg["r12"]) = Rsp + reg["r12"]
  BY <1>3, BitwiseAssumption
<1>5. Alu(Current.op, Rsp, reg["r12"]) = Rsp + reg["r12"] /\ Current.op \in AluOps
  BY <1>1, <1>4 DEF Alu, AluOps
<1>6. Advances /\ UNCHANGED <<st, flags>> /\ Write("rsp", Rsp + reg["r12"])
  BY <1>1, <1>2, <1>5, RunAlu
<1>7. mem' = StackAt(Rsp + reg["r12"]) /\ UNCHANGED <<reg, store>>
  BY <1>6, Writes
<1>8. Shrinks(reg["r12"])
  BY <1>7, StackShrinks DEF MachineTyped
<1>9. Keeps(1)
  <2>1. Len(mem) - reg["r12"] \in Nat /\ Len(mem) - reg["r12"] >= 1
    BY DEF MachineTyped
  <2> QED BY <1>8, <2>1 DEF Shrinks, Keeps
<1> QED BY <1>6, <1>7, <1>8, <1>9, TypedStack DEF MachineTyped

LEMMA RunNot ==
  ASSUME Execute, MachineTyped, Len(mem) >= 2, Current = Ins("notq", NoName, "(%rsp)")
  PROVE  /\ Advances /\ UNCHANGED <<reg, store, st, flags>> /\ MachineTyped'
         /\ Keeps(Len(mem) - 1) /\ Len(mem') = Len(mem) /\ mem'[Len(mem)] = AllOnes - mem[Len(mem)]
<1>1. Current.op = "notq" /\ Current.src = NoName /\ Current.dst = "(%rsp)"
  BY DEF Ins
<1> DEFINE w == AllOnes - mem[Len(mem)]
<1>2. Read(Current, "(%rsp)") = mem[Len(mem)]
  BY Reads
<1>9. mem[Len(mem)] \in Word
  BY DEF MachineTyped
<1>3. Alu(Current.op, mem[Len(mem)], 0) = w /\ Current.op \in AluOps
  BY <1>1 DEF Alu, AluOps
<1>4. Advances /\ UNCHANGED <<st, flags>> /\ Write("(%rsp)", w)
  BY <1>1, <1>2, <1>3, RunAlu
<1>5. w \in Word
  BY <1>9, ModulusFacts DEF AllOnes, Word
<1> HIDE DEF w
<1>6. mem' = [mem EXCEPT ![Len(mem)] = w] /\ UNCHANGED <<reg, store>>
  BY <1>4, Writes
<1>7. Keeps(Len(mem) - 1) /\ Len(mem') = Len(mem) /\ mem'[Len(mem)] = w
  BY <1>5, <1>6 DEF Keeps, MachineTyped
<1>8. Keeps(1)
  BY <1>7 DEF Keeps, MachineTyped
<1> QED BY <1>4, <1>6, <1>7, <1>8, TypedStack DEF MachineTyped, w

LEMMA RunMultiply ==
  ASSUME Execute, MachineTyped, Current = Ins("mulq", "rbx", NoName)
  PROVE  /\ Advances /\ UNCHANGED <<mem, store, st, flags>> /\ MachineTyped'
         /\ reg'["rax"] = Wrap(reg["rax"] * reg["rbx"])
         /\ \A q \in Registers \ {"rax", "rdx"} : reg'[q] = reg[q]
<1>1. Multiply /\ Current.src = "rbx"
  BY Dispatch DEF Ins
<1> DEFINE low  == Wrap(reg["rax"] * reg["rbx"])
           high == (reg["rax"] * reg["rbx"]) \div Modulus
<1>2. reg["rax"] \in Word /\ reg["rbx"] \in Word /\ {"rax", "rbx", "rdx"} \subseteq Registers
  BY RegisterNames DEF MachineTyped
<1>3. reg["rax"] * reg["rbx"] \in Int
  BY <1>2, WordNat
<1>4. low \in Word /\ high \in Word
  BY <1>2, <1>3, WrapWord, HighWord
<1>5. reg' = [reg EXCEPT !["rax"] = low, !["rdx"] = high] /\ Advances /\ UNCHANGED <<mem, store, st, flags>>
  BY <1>1 DEF Multiply, Advances
<1> HIDE DEF low, high
<1>6. MachineTyped'
  BY <1>4, <1>5 DEF MachineTyped
<1> QED BY <1>2, <1>5, <1>6 DEF low, MachineTyped

LEMMA RunDivide ==
  ASSUME Execute, MachineTyped, reg["rdx"] = 0, Current = Ins("div", "rbx", NoName)
  PROVE  \/ Stop("fault")
         \/ /\ Advances /\ UNCHANGED <<mem, store, st, flags>> /\ MachineTyped'
            /\ reg["rbx"] # 0 /\ reg'["rax"] = reg["rax"] \div reg["rbx"]
            /\ \A q \in Registers \ {"rax", "rdx"} : reg'[q] = reg[q]
<1>1. Divide /\ Current.src = "rbx"
  BY Dispatch DEF Ins
<1>2. reg["rax"] \in Word /\ reg["rbx"] \in Word /\ {"rax", "rbx", "rdx"} \subseteq Registers
  BY RegisterNames DEF MachineTyped
<1>3. reg["rdx"] * Modulus + reg["rax"] = reg["rax"]
  <2>1. reg["rax"] \in Nat /\ Modulus \in Nat
    BY <1>2, WordNat, ModulusFacts
  <2>2. 0 * Modulus = 0
    BY <2>1
  <2> QED BY <2>1, <2>2
<1> DEFINE q == reg["rax"] \div reg["rbx"]
           m == reg["rax"] % reg["rbx"]
<1>4. \/ Stop("fault")
      \/ /\ Advances /\ UNCHANGED <<mem, store, st, flags>> /\ reg["rbx"] # 0
         /\ reg' = [reg EXCEPT !["rax"] = q, !["rdx"] = m]
  BY <1>1, <1>3 DEF Divide, Advances
<1>5. ASSUME reg["rbx"] # 0 PROVE q \in Word /\ m \in Word
  <2>1. q \in Word
    BY <1>2, <1>5, QuotientWord
  <2>2. m \in 0 .. reg["rbx"] - 1
    <3>1. reg["rax"] \in Int /\ reg["rbx"] \in Nat /\ reg["rbx"] > 0
      BY <1>2, <1>5, WordNat
    <3> QED BY <3>1, DivMod
  <2> QED BY <2>1, <2>2, <1>2, WordNat, ModulusFacts DEF Word
<1> HIDE DEF q, m
<1>6. SUFFICES ASSUME Advances, UNCHANGED <<mem, store, st, flags>>, reg["rbx"] # 0,
                      reg' = [reg EXCEPT !["rax"] = q, !["rdx"] = m]
               PROVE  MachineTyped' /\ reg'["rax"] = q /\ \A p \in Registers \ {"rax", "rdx"} : reg'[p] = reg[p]
  BY <1>4 DEF q
<1>7. MachineTyped'
  BY <1>5, <1>6 DEF MachineTyped
<1> QED BY <1>2, <1>6, <1>7 DEF MachineTyped

-----------------------------------------------------------------------------
(***************************************************************************)
(* Comparisons and jumps.                                                  *)
(***************************************************************************)
LEMMA RunCompare ==
  ASSUME Execute, MachineTyped, Current = Ins("cmpq", "rbx", "rax")
  PROVE  /\ Advances /\ UNCHANGED <<reg, mem, store, st>> /\ MachineTyped'
         /\ flags'.zf = (reg["rax"] = reg["rbx"]) /\ flags'.cf = (reg["rax"] < reg["rbx"])
<1>1. Compare /\ Current.op = "cmpq" /\ Current.src = "rbx" /\ Current.dst = "rax"
  BY Dispatch DEF Ins
<1>2. Read(Current, "rax") = reg["rax"] /\ Read(Current, "rbx") = reg["rbx"]
  BY Reads, RegisterNames
<1>3. /\ flags' = [zf |-> reg["rax"] = reg["rbx"], cf |-> reg["rax"] < reg["rbx"],
                   lt |-> Signed(reg["rax"]) < Signed(reg["rbx"])]
      /\ Advances /\ UNCHANGED <<reg, mem, store, st>>
  BY <1>1, <1>2 DEF Compare, Advances
<1>4. flags' \in [zf : BOOLEAN, cf : BOOLEAN, lt : BOOLEAN]
  BY <1>3
<1> QED BY <1>3, <1>4 DEF MachineTyped

LEMMA RunJump ==
  ASSUME Execute, MachineTyped, NEW o \in {"jmp", "je", "jne", "jb", "jae", "jbe", "ja"}, NEW l, NEW t,
         Current = Tag(o, l, t)
  PROVE  /\ UNCHANGED <<code, running, reg, mem, store, st, flags, heard>> /\ MachineTyped'
         /\ ip' = IF Taken(o) THEN LabelAt(l, t) ELSE ip + 1
<1>1. Jump /\ Current.op = o /\ Current.src = l /\ Current.n = t
  BY Dispatch DEF Tag
<1>2. /\ UNCHANGED <<code, running, reg, mem, store, st, flags, heard>>
      /\ ip' = IF Taken(o) THEN LabelAt(l, t) ELSE ip + 1
  BY <1>1 DEF Jump
<1> QED BY <1>2 DEF MachineTyped

LEMMA RunLabel ==
  ASSUME Execute, MachineTyped, NEW l, NEW t, Current = Tag("label", l, t)
  PROVE  Advances /\ UNCHANGED <<reg, mem, store, st, flags>> /\ MachineTyped'
<1>1. Label /\ Current.op = "label"
  BY Dispatch DEF Tag
<1>2. Advances /\ UNCHANGED <<reg, mem, store, st, flags>>
  BY <1>1 DEF Label, Advances
<1> QED BY <1>2 DEF MachineTyped

-----------------------------------------------------------------------------
(***************************************************************************)
(* x87.                                                                    *)
(***************************************************************************)
LEMMA Pairs ==
  ASSUME NEW S, NEW a \in S, NEW b \in S
  PROVE  /\ <<a>> \o <<b>> = <<a, b>> /\ Tail(<<a, b>>) = <<b>> /\ Tail(<<a>>) = <<>>
         /\ <<a>> \o <<>> = <<a>> /\ SubSeq(<<a, b>>, 3, 2) = <<>>
<1>1. \A s \in Seq(S), t \in Seq(S) : Len(s) = Len(t) /\ (\A i \in 1 .. Len(s) : s[i] = t[i]) => s = t
  OBVIOUS
<1>2. <<a>> \o <<b>> = <<a, b>>
  <2> DEFINE s == <<a>> \o <<b>>
             t == <<a, b>>
  <2>1. s \in Seq(S) /\ t \in Seq(S) /\ Len(s) = 2 /\ Len(t) = 2 /\ s[1] = t[1] /\ s[2] = t[2]
    OBVIOUS
  <2> HIDE DEF s, t
  <2>2. \A i \in 1 .. Len(s) : s[i] = t[i]
    BY <2>1
  <2>3. s = t
    BY <2>1, <2>2, <1>1
  <2> QED BY <2>3 DEF s, t
<1>3. Tail(<<a, b>>) = <<b>>
  <2> DEFINE s == Tail(<<a, b>>)
             t == <<b>>
  <2>1. s \in Seq(S) /\ t \in Seq(S) /\ Len(s) = 1 /\ Len(t) = 1 /\ s[1] = t[1]
    OBVIOUS
  <2> HIDE DEF s, t
  <2>2. \A i \in 1 .. Len(s) : s[i] = t[i]
    BY <2>1
  <2>3. s = t
    BY <2>1, <2>2, <1>1
  <2> QED BY <2>3 DEF s, t
<1>4. Tail(<<a>>) = <<>>
  <2> DEFINE s == Tail(<<a>>)
  <2>1. s \in Seq(S) /\ Len(s) = 0
    OBVIOUS
  <2> HIDE DEF s
  <2>2. s = <<>>
    BY <2>1
  <2> QED BY <2>2 DEF s
<1>5. SubSeq(<<a, b>>, 3, 2) = <<>>
  <2> DEFINE s == SubSeq(<<a, b>>, 3, 2)
  <2>1. s \in Seq(S) /\ Len(s) = 0
    OBVIOUS
  <2> HIDE DEF s
  <2>2. s = <<>>
    BY <2>1
  <2> QED BY <2>2 DEF s
<1> QED BY <1>2, <1>3, <1>4, <1>5

LEMMA RunLoadDouble ==
  ASSUME Execute, MachineTyped, NEW k \in {0, 1}, k < Len(mem),
         Current = Ins("fldl", IF k = 0 THEN "(%rsp)" ELSE "8(%rsp)", NoName)
  PROVE  /\ Advances /\ UNCHANGED <<reg, mem, store, flags>> /\ MachineTyped'
         /\ st' = <<mem[Len(mem) - k]>> \o st
<1>1. X87Load /\ Current.op = "fldl" /\ Current.src = IF k = 0 THEN "(%rsp)" ELSE "8(%rsp)"
  BY Dispatch DEF Ins
<1>2. Len(mem) \in Nat /\ mem \in Seq(Word) /\ st \in Seq(Word)
  BY DEF MachineTyped
<1>3. Read(Current, Current.src) = mem[Len(mem) - k]
  <2>1. CASE k = 0
    BY <1>1, <1>2, <2>1, Reads
  <2>2. CASE k = 1
    BY <1>1, <1>2, <2>2, Reads
  <2> QED BY <2>1, <2>2
<1>4. st' = <<mem[Len(mem) - k]>> \o st /\ Advances /\ UNCHANGED <<reg, mem, store, flags>>
  BY <1>1, <1>3 DEF X87Load, Advances
<1> DEFINE w == mem[Len(mem) - k]
<1>5. w \in Word
  BY <1>2
<1> HIDE DEF w
<1>6. <<w>> \o st \in Seq(Word)
  BY <1>2, <1>5
<1>7. st' \in Seq(Word)
  BY <1>4, <1>6 DEF w
<1> QED BY <1>4, <1>7 DEF MachineTyped

LEMMA RunLoadInteger ==
  ASSUME Execute, MachineTyped, Current = Ins("fildq", "(%rsp)", NoName), st = <<>>
  PROVE  /\ Advances /\ UNCHANGED <<reg, mem, store, flags>> /\ MachineTyped'
         /\ st' = <<DoubleOf(Signed(mem[Len(mem)]))>>
<1>1. X87Load /\ Current.op = "fildq" /\ Current.src = "(%rsp)"
  BY Dispatch DEF Ins
<1>2. Read(Current, Current.src) = mem[Len(mem)]
  BY <1>1, Reads
<1> DEFINE d == DoubleOf(Signed(mem[Len(mem)]))
<1>3. d \in Word
  BY DoubleOfWord
<1>4. st' = <<d>> \o st /\ Advances /\ UNCHANGED <<reg, mem, store, flags>>
  BY <1>1, <1>2 DEF X87Load, Advances
<1> HIDE DEF d
<1>5. st' = <<d>> /\ st' \in Seq(Word)
  BY <1>3, <1>4, Pairs
<1> QED BY <1>4, <1>5 DEF MachineTyped, d

LEMMA RunStoreDouble ==
  ASSUME Execute, MachineTyped, NEW o \in {"fstpl", "fistpq"}, Current = Ins(o, NoName, "(%rsp)"),
         NEW w \in Word, st = <<w>>, Len(mem) >= 2
  PROVE  /\ Advances /\ UNCHANGED <<reg, store, flags>> /\ MachineTyped' /\ st' = <<>>
         /\ Keeps(Len(mem) - 1) /\ Len(mem') = Len(mem)
         /\ mem'[Len(mem)] = IF o = "fstpl" THEN w ELSE IF w = NaN THEN Half ELSE Wrap(Real(w))
         /\ mem'[Len(mem)] \in Word
<1>1. X87Store /\ Current.op = o /\ Current.dst = "(%rsp)"
  BY Dispatch DEF Ins
<1>2. st[1] = w
  OBVIOUS
<1>3. st' = Tail(st) /\ Advances /\ flags' = flags
  BY <1>1 DEF X87Store, Advances
<1>4. Write("(%rsp)", IF o = "fstpl" THEN w ELSE IF w = NaN THEN Half ELSE Wrap(Real(w)))
  <2>1. CASE o = "fstpl"
    <3>1. Write("(%rsp)", st[1])
      BY <1>1, <2>1 DEF X87Store
    <3> QED BY <1>2, <2>1, <3>1
  <2>2. CASE o # "fstpl" /\ w = NaN
    BY <1>1, <1>2, <2>2 DEF X87Store
  <2>3. CASE o # "fstpl" /\ w # NaN
    BY <1>1, <1>2, <2>3 DEF X87Store
  <2> QED BY <2>1, <2>2, <2>3
<1> DEFINE x == IF o = "fstpl" THEN w ELSE IF w = NaN THEN Half ELSE Wrap(Real(w))
<1>5. x \in Word
  <2>1. Half \in Word
    BY ModulusFacts DEF Word
  <2>2. Wrap(Real(w)) \in Word
    BY RealBound, WrapWord
  <2> QED BY <2>1, <2>2
<1>6. Write("(%rsp)", x)
  BY <1>4
<1> HIDE DEF x
<1>7. mem' = [mem EXCEPT ![Len(mem)] = x] /\ UNCHANGED <<reg, store>>
  BY <1>6, Writes
<1>8. Keeps(Len(mem) - 1) /\ Len(mem') = Len(mem) /\ mem'[Len(mem)] = x
  BY <1>5, <1>7 DEF Keeps, MachineTyped
<1>9. Keeps(1)
  BY <1>8 DEF Keeps, MachineTyped
<1>10. st' = <<>>
  BY <1>3, Pairs
<1> QED BY <1>3, <1>5, <1>7, <1>8, <1>9, <1>10, TypedStack DEF MachineTyped, x

LEMMA RunArithmetic ==
  ASSUME Execute, MachineTyped, NEW o \in {"faddp", "fsubp", "fmulp", "fdivp"}, Current = Ins(o, NoName, NoName),
         NEW a \in Word, NEW b \in Word, st = <<a, b>>
  PROVE  /\ Advances /\ UNCHANGED <<reg, mem, store, flags>> /\ MachineTyped'
         /\ st' = <<DoubleOp(X87Sign[o], a, b)>>
<1>1. DOMAIN X87Sign = {"faddp", "fsubp", "fmulp", "fdivp"}
  BY DEF X87Sign
<1>2. X87Arithmetic /\ Current.op = o
  BY Dispatch DEF Ins
<1> DEFINE d == DoubleOp(X87Sign[o], a, b)
<1>3. d \in Word
  BY DoubleOpWord
<1>4. st[1] = a /\ st[2] = b /\ Len(st) = 2
  OBVIOUS
<1>5. st' = <<DoubleOp(X87Sign[o], a, b)>> \o SubSeq(st, 3, 2) /\ Advances /\ UNCHANGED <<reg, mem, store, flags>>
  BY <1>2, <1>4 DEF X87Arithmetic, Advances
<1> HIDE DEF d
<1>6. SubSeq(st, 3, 2) = <<>>
  BY Pairs
<1>7. st' = <<d>> /\ st' \in Seq(Word)
  <2>1. st' = <<d>> \o <<>>
    BY <1>5, <1>6 DEF d
  <2>2. <<d>> \o <<>> = <<d>>
    BY <1>3, Pairs
  <2> QED BY <1>3, <2>1, <2>2
<1> QED BY <1>5, <1>7 DEF MachineTyped, d

\* The flags tell NaN, or how the operands compare.
LEMMA RunCompareDoubles ==
  ASSUME Execute, MachineTyped, Current = Ins("fcomip", NoName, NoName),
         NEW a \in Word, NEW b \in Word, st = <<a, b>>
  PROVE  /\ Advances /\ UNCHANGED <<reg, mem, store>> /\ MachineTyped' /\ st' = <<b>>
         /\ \/ NaN \in {a, b}
            \/ flags'.zf = (Real(a) = Real(b)) /\ flags'.cf = (Real(a) < Real(b))
<1>1. X87Compare /\ Current.op = "fcomip"
  BY Dispatch DEF Ins
<1>2. st[1] = a /\ st[2] = b
  OBVIOUS
<1>3. st' = Tail(st) /\ Advances /\ UNCHANGED <<reg, mem, store>>
  BY <1>1 DEF X87Compare, Advances
<1>4. flags' = IF NaN \in {a, b} THEN [flags EXCEPT !.zf = TRUE, !.cf = TRUE]
               ELSE [flags EXCEPT !.zf = Real(a) = Real(b), !.cf = Real(a) < Real(b)]
  BY <1>1, <1>2 DEF X87Compare
<1>5. st' = <<b>> /\ st' \in Seq(Word)
  BY <1>3, Pairs
<1>6. flags' \in [zf : BOOLEAN, cf : BOOLEAN, lt : BOOLEAN]
  <2>1. ASSUME NEW z \in BOOLEAN, NEW c \in BOOLEAN
        PROVE  [flags EXCEPT !.zf = z, !.cf = c] \in [zf : BOOLEAN, cf : BOOLEAN, lt : BOOLEAN]
    BY DEF MachineTyped
  <2>2. CASE NaN \in {a, b}
    BY <1>4, <2>1, <2>2, Zenon
  <2>3. CASE NaN \notin {a, b}
    <3>1. (Real(a) = Real(b)) \in BOOLEAN /\ (Real(a) < Real(b)) \in BOOLEAN
      OBVIOUS
    <3>2. flags' = [flags EXCEPT !.zf = Real(a) = Real(b), !.cf = Real(a) < Real(b)]
      BY <1>4, <2>3, Zenon
    <3> QED BY <2>1, <3>1, <3>2, Zenon
  <2> QED BY <2>2, <2>3
<1>7. \/ NaN \in {a, b}
      \/ flags'.zf = (Real(a) = Real(b)) /\ flags'.cf = (Real(a) < Real(b))
  BY <1>4 DEF MachineTyped
<1> QED BY <1>3, <1>5, <1>6, <1>7 DEF MachineTyped

LEMMA RunClear ==
  ASSUME Execute, MachineTyped, Current = Ins("fstp", NoName, NoName), NEW a \in Word, st = <<a>>
  PROVE  /\ Advances /\ UNCHANGED <<reg, mem, store, flags>> /\ MachineTyped' /\ st' = <<>>
<1>1. X87Compare /\ Current.op = "fstp"
  BY Dispatch DEF Ins
<1>2. st' = Tail(st) /\ Advances /\ UNCHANGED <<reg, mem, store, flags>>
  BY <1>1 DEF X87Compare, Advances
<1>3. st' = <<>>
  BY <1>2, Pairs
<1> QED BY <1>2, <1>3 DEF MachineTyped

-----------------------------------------------------------------------------
(***************************************************************************)
(* Calls of functions.                                                     *)
(***************************************************************************)
LEMMA RunCall ==
  ASSUME Execute, MachineTyped, NEW f, Current = Tag("call", f, 0),
         ReturnType(f) = VOID \/ Result(f, Heard(f)) \in Word
  PROVE  /\ Advance /\ UNCHANGED <<mem, store, st, flags>> /\ MachineTyped'
         /\ heard' = [function |-> f, args |-> Heard(f)]
         /\ ReturnType(f) # VOID => reg'[ResultRegister(ReturnType(f))] = Result(f, Heard(f))
         /\ \A r \in {"rbx", "rbp", "r12"} : reg'[r] = reg[r]
<1>1. Call /\ Current.src = f
  BY Dispatch DEF Tag
<1>0. PICK t, place : t = ReturnType(f) /\ place = ResultRegister(t)
  OBVIOUS
<1>2. PICK junk \in Junk :
        /\ heard' = [function |-> f, args |-> Heard(f)]
        /\ reg' = [r \in Registers |->
                     CASE t # VOID /\ r = place -> Result(f, Heard(f))
                       [] r \in CalleeSaved -> reg[r]
                       [] OTHER -> junk]
  BY <1>0, <1>1 DEF Call
<1>3. Advance /\ UNCHANGED <<mem, store, st, flags>>
  BY <1>1 DEF Call
<1>4. junk \in Word
  BY MemoryAssumption
<1>5. {"rax", "xmm0", "rbx", "rbp", "r12"} \subseteq Registers /\ place \in {"rax", "xmm0"}
  BY <1>0, RegisterNames DEF ResultRegister
<1>6. \A r \in {"rbx", "rbp", "r12"} : reg'[r] = reg[r]
  BY <1>2, <1>5 DEF CalleeSaved
<1>7. t # VOID => reg'[place] = Result(f, Heard(f))
  BY <1>2, <1>5 DEF CalleeSaved
<1>8. reg' = [r \in Registers |-> reg'[r]]
  BY <1>2
<1>9. \A r \in Registers : reg'[r] \in IF r \in {"rbp", "r12"} THEN 0 .. StackBase ELSE Word
  BY <1>0, <1>2, <1>4, <1>5, <1>6 DEF MachineTyped, CalleeSaved
<1> QED BY <1>0, <1>2, <1>3, <1>6, <1>7, <1>8, <1>9 DEF MachineTyped

LEMMA RunReturn ==
  ASSUME Execute, Current = Ins("ret", NoName, NoName)
  PROVE  Stop("returned")
BY Dispatch DEF Ins, Return

-----------------------------------------------------------------------------
(***************************************************************************)
(* The code of each call, instruction by instruction.                      *)
(***************************************************************************)

LEMMA TypeNumbers ==
  /\ Integral = {UNSIGNED_INT} /\ Floating = {DOUBLE} /\ Arithmetic = {UNSIGNED_INT, DOUBLE}
  /\ Concrete = {UNSIGNED_INT, DOUBLE, BOOL, CHAR}
  /\ UNSIGNED_INT # DOUBLE /\ UNSIGNED_INT # BOOL /\ UNSIGNED_INT # CHAR /\ DOUBLE # BOOL /\ DOUBLE # CHAR
  /\ BOOL # CHAR /\ VOID \notin Concrete
  /\ \A t \in DOMAIN PointsTo : t \notin Concrete /\ t # VOID
<1>1. \A t \in DOMAIN PointsTo : t >= 7
  BY ProgramAssumption DEF IsUserDefined, FIRST_USER_DEFINED
<1> QED BY <1>1 DEF Integral, Floating, Arithmetic, Concrete, UNSIGNED_INT, DOUBLE, BOOL, CHAR, VOID

LEMMA CodeOf ==
  ASSUME NEW o
  PROVE  /\ o.call = "load_variable"            => Code(o) = <<Push(o.name)>>
         /\ o.call = "load_i64"                 => Code(o) = LoadI64(o.n)
         /\ o.call = "load_pointer_to_variable" => Code(o) = <<Ins("leaq", o.name, "rax"), Push("rax")>>
         /\ o.call = "load_value_from_pointer"  => Code(o) = LoadValueFromPointer
         /\ o.call = "store_variable"           => Code(o) = <<PopTo(o.name)>>
         /\ o.call = "store_value_to_pointer"   => Code(o) = StoreValueToPointer
         /\ o.call = "alu_and_bool"             => Code(o) = AluAndBool
         /\ o.call = "alu_or_bool"              => Code(o) = AluOrBool
         /\ o.call = "alu_not_bool"             => Code(o) = AluNotBool
         /\ o.call = "alu_add"                  => Code(o) = AluAddSub("addq", "faddp", o.type)
         /\ o.call = "alu_sub"                  => Code(o) = AluAddSub("subq", "fsubp", o.type)
         /\ o.call = "alu_multiply"             => Code(o) = AluMultiply(o.type)
         /\ o.call = "alu_divide"               => Code(o) = AluDivide(o.type)
         /\ o.call = "alu_modulus"              => Code(o) = AluModulus(o.type)
         /\ o.call \in Compares                 => Code(o) = AluCompare(o.call, o.type, o.n)
         /\ o.call = "convert"                  => Code(o) = ConvertCode(o.type, o.dest)
         /\ o.call = "function_call_param"      => Code(o) = CallParam(o.type, o.n)
         /\ o.call = "function_call_finalize"   => Code(o) = CallFinalize(o.name, FALSE, 0, o.type)
         /\ o.call = "debug_display"            => Code(o) = DebugDisplay(o.type)
         /\ o.call = "finalize_main_procedure"  => Code(o) = FinalizeMain
<1>1. o.call = "load_variable" => Code(o) = <<Push(o.name)>>
  BY DEF Code, Compares
<1>2. o.call = "load_i64" => Code(o) = LoadI64(o.n)
  BY DEF Code, Compares
<1>3. o.call = "load_pointer_to_variable" => Code(o) = <<Ins("leaq", o.name, "rax"), Push("rax")>>
  BY DEF Code, Compares
<1>4. o.call = "load_value_from_pointer" => Code(o) = LoadValueFromPointer
  BY DEF Code, Compares
<1>5. o.call = "store_variable" => Code(o) = <<PopTo(o.name)>>
  BY DEF Code, Compares
<1>6. o.call = "store_value_to_pointer" => Code(o) = StoreValueToPointer
  BY DEF Code, Compares
<1>7. o.call = "alu_and_bool" => Code(o) = AluAndBool
  BY DEF Code, Compares
<1>8. o.call = "alu_or_bool" => Code(o) = AluOrBool
  BY DEF Code, Compares
<1>9. o.call = "alu_not_bool" => Code(o) = AluNotBool
  BY DEF Code, Compares
<1>10. o.call = "alu_add" => Code(o) = AluAddSub("addq", "faddp", o.type)
  BY DEF Code, Compares
<1>11. o.call = "alu_sub" => Code(o) = AluAddSub("subq", "fsubp", o.type)
  BY DEF Code, Compares
<1>12. o.call = "alu_multiply" => Code(o) = AluMultiply(o.type)
  BY DEF Code, Compares
<1>13. o.call = "alu_divide" => Code(o) = AluDivide(o.type)
  BY DEF Code, Compares
<1>14. o.call = "alu_modulus" => Code(o) = AluModulus(o.type)
  BY DEF Code, Compares
<1>15. o.call \in Compares => Code(o) = AluCompare(o.call, o.type, o.n)
  BY DEF Code, Compares
<1>16. o.call = "convert" => Code(o) = ConvertCode(o.type, o.dest)
  BY DEF Code, Compares
<1>17. o.call = "function_call_param" => Code(o) = CallParam(o.type, o.n)
  BY DEF Code, Compares
<1>18. o.call = "function_call_finalize" => Code(o) = CallFinalize(o.name, FALSE, 0, o.type)
  BY DEF Code, Compares
<1>19. o.call = "debug_display" => Code(o) = DebugDisplay(o.type)
  BY DEF Code, Compares
<1>20. o.call = "finalize_main_procedure" => Code(o) = FinalizeMain
  BY DEF Code, Compares
<1> QED BY <1>1, <1>2, <1>3, <1>4, <1>5, <1>6, <1>7, <1>8, <1>9, <1>10, <1>11, <1>12, <1>13, <1>14, <1>15, <1>16, <1>17, <1>18, <1>19, <1>20

LEMMA CodeOfLoads ==
  ASSUME NEW o
  PROVE  /\ o.call = "load_variable" => Len(Code(o)) = 1 /\ Code(o)[1] = Push(o.name)
         /\ o.call = "load_i64" =>
              \/ Len(Code(o)) = 1 /\ Code(o)[1] = Imm("pushq", o.n, NoName)
              \/ Len(Code(o)) = 2 /\ Code(o)[1] = Imm("movabs", o.n, "rax") /\ Code(o)[2] = Push("rax")
         /\ o.call = "load_pointer_to_variable" =>
              Len(Code(o)) = 2 /\ Code(o)[1] = Ins("leaq", o.name, "rax") /\ Code(o)[2] = Push("rax")
         /\ o.call = "load_value_from_pointer" =>
              Len(Code(o)) = 2 /\ Code(o)[1] = PopTo("rax") /\ Code(o)[2] = Push("(%rax)")
         /\ o.call = "store_variable" => Len(Code(o)) = 1 /\ Code(o)[1] = PopTo(o.name)
         /\ o.call = "store_value_to_pointer" =>
              /\ Len(Code(o)) = 3 /\ Code(o)[1] = PopTo("rax") /\ Code(o)[2] = PopTo("rbx")
              /\ Code(o)[3] = Ins("movq", "rbx", "(%rax)")
         /\ o.call = "alu_not_bool" => Len(Code(o)) = 1 /\ Code(o)[1] = Ins("notq", NoName, "(%rsp)")
<1>1. ASSUME o.call = "load_variable" PROVE Len(Code(o)) = 1 /\ Code(o)[1] = Push(o.name)
  <2>1. Code(o) = <<Push(o.name)>>
    BY <1>1, CodeOf
  <2> QED BY <2>1
<1>2. ASSUME o.call = "load_i64"
      PROVE  \/ Len(Code(o)) = 1 /\ Code(o)[1] = Imm("pushq", o.n, NoName)
             \/ Len(Code(o)) = 2 /\ Code(o)[1] = Imm("movabs", o.n, "rax") /\ Code(o)[2] = Push("rax")
  <2>1. Code(o) = LoadI64(o.n)
    BY <1>2, CodeOf
  <2> QED BY <2>1 DEF LoadI64
<1>3. ASSUME o.call = "load_pointer_to_variable"
      PROVE  Len(Code(o)) = 2 /\ Code(o)[1] = Ins("leaq", o.name, "rax") /\ Code(o)[2] = Push("rax")
  <2>1. Code(o) = <<Ins("leaq", o.name, "rax"), Push("rax")>>
    BY <1>3, CodeOf
  <2> QED BY <2>1
<1>4. ASSUME o.call = "load_value_from_pointer"
      PROVE  Len(Code(o)) = 2 /\ Code(o)[1] = PopTo("rax") /\ Code(o)[2] = Push("(%rax)")
  <2>1. Code(o) = LoadValueFromPointer
    BY <1>4, CodeOf
  <2> QED BY <2>1 DEF LoadValueFromPointer
<1>5. ASSUME o.call = "store_variable" PROVE Len(Code(o)) = 1 /\ Code(o)[1] = PopTo(o.name)
  <2>1. Code(o) = <<PopTo(o.name)>>
    BY <1>5, CodeOf
  <2> QED BY <2>1
<1>6. ASSUME o.call = "store_value_to_pointer"
      PROVE  /\ Len(Code(o)) = 3 /\ Code(o)[1] = PopTo("rax") /\ Code(o)[2] = PopTo("rbx")
             /\ Code(o)[3] = Ins("movq", "rbx", "(%rax)")
  <2>1. Code(o) = StoreValueToPointer
    BY <1>6, CodeOf
  <2> QED BY <2>1 DEF StoreValueToPointer
<1>7. ASSUME o.call = "alu_not_bool"
      PROVE  Len(Code(o)) = 1 /\ Code(o)[1] = Ins("notq", NoName, "(%rsp)")
  <2>1. Code(o) = AluNotBool
    BY <1>7, CodeOf
  <2> QED BY <2>1 DEF AluNotBool
<1> QED BY <1>1, <1>2, <1>3, <1>4, <1>5, <1>6, <1>7

LEMMA CodeOfIntegers ==
  ASSUME NEW o
  PROVE  /\ o.call \in {"alu_add", "alu_sub", "alu_multiply"} /\ o.type # DOUBLE =>
              /\ Len(Code(o)) = 4 /\ Code(o)[1] = PopTo("rbx") /\ Code(o)[2] = PopTo("rax")
              /\ Code(o)[3] = (CASE o.call = "alu_add" -> Ins("addq", "rbx", "rax")
                                 [] o.call = "alu_sub" -> Ins("subq", "rbx", "rax")
                                 [] OTHER              -> Ins("mulq", "rbx", NoName))
              /\ Code(o)[4] = Push("rax")
         /\ o.call \in {"alu_and_bool", "alu_or_bool"} =>
              /\ Len(Code(o)) = 4 /\ Code(o)[1] = PopTo("rbx") /\ Code(o)[2] = PopTo("rax")
              /\ Code(o)[3] = (IF o.call = "alu_and_bool" THEN Ins("andq", "rax", "rbx")
                               ELSE Ins("orq", "rbx", "rax"))
              /\ Code(o)[4] = Push("rax")
         /\ o.call \in {"alu_divide", "alu_modulus"} /\ o.type # DOUBLE =>
              /\ Len(Code(o)) = 5 /\ Code(o)[1] = PopTo("rbx") /\ Code(o)[2] = PopTo("rax")
              /\ Code(o)[3] = Imm("movq", 0, "rdx") /\ Code(o)[4] = Ins("div", "rbx", NoName)
              /\ Code(o)[5] = Push("rax")
<1> DEFINE two == <<PopTo("rbx"), PopTo("rax")>>
<1>2. LoadBinop(BOOL) = two /\ (o.type # DOUBLE => LoadBinop(o.type) = two)
  BY TypeNumbers DEF LoadBinop
<1> HIDE DEF two
<1>3. ASSUME o.call = "alu_add", o.type # DOUBLE
      PROVE  /\ Len(Code(o)) = 4 /\ Code(o)[1] = PopTo("rbx") /\ Code(o)[2] = PopTo("rax")
             /\ Code(o)[3] = Ins("addq", "rbx", "rax") /\ Code(o)[4] = Push("rax")
  <2>1. Code(o) = AluAddSub("addq", "faddp", o.type)
    BY <1>3, CodeOf
  <2>2. Code(o) = two \o <<Ins("addq", "rbx", "rax"), Push("rax")>>
    BY <1>2, <1>3, <2>1 DEF AluAddSub
  <2> QED BY <2>2 DEF two
<1>4. ASSUME o.call = "alu_sub", o.type # DOUBLE
      PROVE  /\ Len(Code(o)) = 4 /\ Code(o)[1] = PopTo("rbx") /\ Code(o)[2] = PopTo("rax")
             /\ Code(o)[3] = Ins("subq", "rbx", "rax") /\ Code(o)[4] = Push("rax")
  <2>1. Code(o) = AluAddSub("subq", "fsubp", o.type)
    BY <1>4, CodeOf
  <2>2. Code(o) = two \o <<Ins("subq", "rbx", "rax"), Push("rax")>>
    BY <1>2, <1>4, <2>1 DEF AluAddSub
  <2> QED BY <2>2 DEF two
<1>5. ASSUME o.call = "alu_multiply", o.type # DOUBLE
      PROVE  /\ Len(Code(o)) = 4 /\ Code(o)[1] = PopTo("rbx") /\ Code(o)[2] = PopTo("rax")
             /\ Code(o)[3] = Ins("mulq", "rbx", NoName) /\ Code(o)[4] = Push("rax")
  <2>1. Code(o) = AluMultiply(o.type)
    BY <1>5, CodeOf
  <2>2. Code(o) = two \o <<Ins("mulq", "rbx", NoName), Push("rax")>>
    BY <1>2, <1>5, <2>1 DEF AluMultiply
  <2> QED BY <2>2 DEF two
<1>6. ASSUME o.call = "alu_and_bool"
      PROVE  /\ Len(Code(o)) = 4 /\ Code(o)[1] = PopTo("rbx") /\ Code(o)[2] = PopTo("rax")
             /\ Code(o)[3] = Ins("andq", "rax", "rbx") /\ Code(o)[4] = Push("rax")
  <2>1. Code(o) = AluAndBool
    BY <1>6, CodeOf
  <2>2. Code(o) = two \o <<Ins("andq", "rax", "rbx"), Push("rax")>>
    BY <1>2, <2>1 DEF AluAndBool
  <2> QED BY <2>2 DEF two
<1>7. ASSUME o.call = "alu_or_bool"
      PROVE  /\ Len(Code(o)) = 4 /\ Code(o)[1] = PopTo("rbx") /\ Code(o)[2] = PopTo("rax")
             /\ Code(o)[3] = Ins("orq", "rbx", "rax") /\ Code(o)[4] = Push("rax")
  <2>1. Code(o) = AluOrBool
    BY <1>7, CodeOf
  <2>2. Code(o) = two \o <<Ins("orq", "rbx", "rax"), Push("rax")>>
    BY <1>2, <2>1 DEF AluOrBool
  <2> QED BY <2>2 DEF two
<1>8. ASSUME o.call \in {"alu_divide", "alu_modulus"}, o.type # DOUBLE
      PROVE  /\ Len(Code(o)) = 5 /\ Code(o)[1] = PopTo("rbx") /\ Code(o)[2] = PopTo("rax")
             /\ Code(o)[3] = Imm("movq", 0, "rdx") /\ Code(o)[4] = Ins("div", "rbx", NoName)
             /\ Code(o)[5] = Push("rax")
  <2>1. Code(o) = IF o.call = "alu_divide" THEN AluDivide(o.type) ELSE AluModulus(o.type)
    BY <1>8, CodeOf
  <2>2. Code(o) = two \o DivideInteger
    BY <1>2, <1>8, <2>1 DEF AluDivide, AluModulus
  <2> QED BY <2>2 DEF DivideInteger, two
<1>9. ASSUME o.call \in {"alu_add", "alu_sub", "alu_multiply"}, o.type # DOUBLE
      PROVE  /\ Len(Code(o)) = 4 /\ Code(o)[1] = PopTo("rbx") /\ Code(o)[2] = PopTo("rax")
             /\ Code(o)[3] = (CASE o.call = "alu_add" -> Ins("addq", "rbx", "rax")
                                [] o.call = "alu_sub" -> Ins("subq", "rbx", "rax")
                                [] OTHER              -> Ins("mulq", "rbx", NoName))
             /\ Code(o)[4] = Push("rax")
  BY <1>3, <1>4, <1>5, <1>9
<1>10. ASSUME o.call \in {"alu_and_bool", "alu_or_bool"}
       PROVE  /\ Len(Code(o)) = 4 /\ Code(o)[1] = PopTo("rbx") /\ Code(o)[2] = PopTo("rax")
              /\ Code(o)[3] = (IF o.call = "alu_and_bool" THEN Ins("andq", "rax", "rbx")
                               ELSE Ins("orq", "rbx", "rax"))
              /\ Code(o)[4] = Push("rax")
  BY <1>6, <1>7, <1>10
<1> QED BY <1>8, <1>9, <1>10

DoubleInstruction(call) ==
  CASE call = "alu_add" -> "faddp" [] call = "alu_sub" -> "fsubp" [] call = "alu_multiply" -> "fmulp"
    [] OTHER -> "fdivp"

LEMMA CodeOfDoubles ==
  ASSUME NEW o, o.call \in Sums, o.type = DOUBLE
  PROVE  /\ Len(Code(o)) = 6
         /\ Code(o)[1] = Ins("fldl", "(%rsp)", NoName) /\ Code(o)[2] = Ins("fldl", "8(%rsp)", NoName)
         /\ Code(o)[3] = Imm("addq", 2, "rsp")
         /\ Code(o)[4] = Ins(DoubleInstruction(o.call), NoName, NoName)
         /\ Code(o)[5] = Imm("addq", -1, "rsp") /\ Code(o)[6] = Ins("fstpl", NoName, "(%rsp)")
<1>1. Code(o) = AluF64(DoubleInstruction(o.call))
  BY CodeOf DEF Sums, AluAddSub, AluMultiply, AluDivide, DoubleInstruction
<1>2. LoadBinop(DOUBLE) = <<Ins("fldl", "(%rsp)", NoName), Ins("fldl", "8(%rsp)", NoName), Imm("addq", 2, "rsp")>>
  BY DEF LoadBinop
<1> QED BY <1>1, <1>2 DEF AluF64, StoreF64

LEMMA CodeOfCompares ==
  ASSUME NEW o, o.call \in Compares
  PROVE  LET k == IF o.type = DOUBLE THEN 6 ELSE 4
         IN /\ Len(Code(o)) = k + 5
            /\ o.type = DOUBLE =>
                 /\ Code(o)[1] = Ins("fldl", "(%rsp)", NoName) /\ Code(o)[2] = Ins("fldl", "8(%rsp)", NoName)
                 /\ Code(o)[3] = Imm("addq", 2, "rsp")
                 /\ Code(o)[4] = Ins("fcomip", NoName, NoName) /\ Code(o)[5] = Ins("fstp", NoName, NoName)
            /\ o.type # DOUBLE =>
                 /\ Code(o)[1] = PopTo("rbx") /\ Code(o)[2] = PopTo("rax")
                 /\ Code(o)[3] = Ins("cmpq", "rbx", "rax")
            /\ Code(o)[k] = Tag(JumpIf[o.call], "__true", o.n)
            /\ Code(o)[k + 1] = Imm("pushq", 0, NoName) /\ Code(o)[k + 2] = Tag("jmp", "__next", o.n)
            /\ Code(o)[k + 3] = Tag("label", "__true", o.n) /\ Code(o)[k + 4] = Imm("pushq", AllOnes, NoName)
            /\ Code(o)[k + 5] = Tag("label", "__next", o.n)
<1>1. Code(o) = AluCompare(o.call, o.type, o.n)
  BY CodeOf
<1>2. CASE o.type = DOUBLE
  BY <1>1, <1>2 DEF AluCompare, LoadBinop, CompareOperands
<1>3. CASE o.type # DOUBLE
  BY <1>1, <1>3 DEF AluCompare, LoadBinop, CompareOperands
<1> QED BY <1>2, <1>3

LEMMA CodeOfConversions ==
  ASSUME NEW o, o.call = "convert"
  PROVE  /\ o.type = DOUBLE /\ o.dest = UNSIGNED_INT =>
              /\ Len(Code(o)) = 2 /\ Code(o)[1] = Ins("fldl", "(%rsp)", NoName)
              /\ Code(o)[2] = Ins("fistpq", NoName, "(%rsp)")
         /\ o.type = UNSIGNED_INT /\ o.dest = DOUBLE =>
              /\ Len(Code(o)) = 2 /\ Code(o)[1] = Ins("fildq", "(%rsp)", NoName)
              /\ Code(o)[2] = Ins("fstpl", NoName, "(%rsp)")
         /\ ~(o.type = DOUBLE /\ o.dest = UNSIGNED_INT) /\ ~(o.type = UNSIGNED_INT /\ o.dest = DOUBLE) =>
              Code(o) = <<>>
<1>1. Code(o) = ConvertCode(o.type, o.dest)
  BY CodeOf
<1> QED BY <1>1, TypeNumbers DEF ConvertCode

LEMMA CodeOfArguments ==
  ASSUME NEW o, o.call = "function_call_param"
  PROVE  /\ o.type = BOOL => /\ Len(Code(o)) = 2 /\ Code(o)[1] = PopTo(ArgumentRegister(o.type, o.n))
                             /\ Code(o)[2] = Imm("andq", 1, ArgumentRegister(o.type, o.n))
         /\ o.type = DOUBLE => /\ Len(Code(o)) = 2 /\ Code(o)[1] = Ins("movsd", "(%rsp)", ArgumentRegister(o.type, o.n))
                               /\ Code(o)[2] = Imm("addq", 1, "rsp")
         /\ o.type \notin {BOOL, DOUBLE} => Len(Code(o)) = 1 /\ Code(o)[1] = PopTo(ArgumentRegister(o.type, o.n))
<1>1. Code(o) = CallParam(o.type, o.n)
  BY CodeOf
<1>2. IsFloat(o.type) <=> o.type = DOUBLE
  BY TypeNumbers DEF IsFloat
<1> QED BY <1>1, <1>2, TypeNumbers DEF CallParam

\* The code that calls a function and what comes after it, from the k-th instruction.
Segments(c, k, f) ==
  /\ c[k] = Ins("movq", "rsp", "r12") /\ c[k + 1] = Imm("andq_low", 0, "r12")
  /\ c[k + 2] = Imm("andq_high", 0, "rsp") /\ c[k + 3] = Tag("call", f, 0)
  /\ c[k + 4] = Ins("orq", "r12", "rsp")

\* What a call leaves is pushed from the register it is left in.
LEMMA CodeOfCalls ==
  ASSUME NEW o, o.call = "function_call_finalize"
  PROVE  /\ Segments(Code(o), 1, o.name)
         /\ o.type = VOID => Len(Code(o)) = 5
         /\ o.type = DOUBLE => /\ Len(Code(o)) = 7
                               /\ Code(o)[6] = Imm("addq", -1, "rsp") /\ Code(o)[7] = Ins("movsd", "xmm0", "(%rsp)")
         /\ o.type \notin {VOID, DOUBLE} => Len(Code(o)) = 6 /\ Code(o)[6] = Push("rax")
<1>1. Code(o) = CallFinalize(o.name, FALSE, 0, o.type)
  BY CodeOf
<1>2. (IsFloat(o.type) <=> o.type = DOUBLE) /\ DOUBLE # VOID
  BY TypeNumbers DEF IsFloat, Concrete
<1>3. CASE o.type = VOID
  <2>1. Code(o) =
          <<>> \o <<Ins("movq", "rsp", "r12"), Imm("andq_low", 0, "r12"), Imm("andq_high", 0, "rsp")>>
          \o <<Tag("call", o.name, 0)>> \o <<Ins("orq", "r12", "rsp")>> \o <<>>
    BY <1>1, <1>2, <1>3, Zenon DEF CallFinalize, AlignStack, UnalignStack
  <2> QED BY <1>2, <1>3, <2>1 DEF Segments
<1>4. CASE o.type = DOUBLE
  <2>1. Code(o) =
          <<>> \o <<Ins("movq", "rsp", "r12"), Imm("andq_low", 0, "r12"), Imm("andq_high", 0, "rsp")>>
          \o <<Tag("call", o.name, 0)>> \o <<Ins("orq", "r12", "rsp")>>
          \o <<Imm("addq", -1, "rsp"), Ins("movsd", "xmm0", "(%rsp)")>>
    BY <1>1, <1>2, <1>4 DEF CallFinalize, AlignStack, UnalignStack
  <2> QED BY <1>2, <1>4, <2>1 DEF Segments
<1>5. CASE o.type \notin {VOID, DOUBLE}
  <2>1. Code(o) =
          <<>> \o <<Ins("movq", "rsp", "r12"), Imm("andq_low", 0, "r12"), Imm("andq_high", 0, "rsp")>>
          \o <<Tag("call", o.name, 0)>> \o <<Ins("orq", "r12", "rsp")>> \o <<Push("rax")>>
    BY <1>1, <1>2, <1>5 DEF CallFinalize, AlignStack, UnalignStack
  <2> QED BY <1>5, <2>1 DEF Segments
<1> QED BY <1>3, <1>4, <1>5

LEMMA CodeOfFmod ==
  ASSUME NEW o, o.call = "alu_modulus", o.type = DOUBLE
  PROVE  /\ Len(Code(o)) = 14
         /\ Code(o)[1] = Ins("movsd", "(%rsp)", "xmm0") /\ Code(o)[2] = Imm("addq", 1, "rsp")
         /\ Code(o)[3] = Ins("movsd", "(%rsp)", "xmm1") /\ Code(o)[4] = Imm("addq", 1, "rsp")
         /\ Code(o)[5] = Ins("pxor", "xmm0", "xmm1") /\ Code(o)[6] = Ins("pxor", "xmm1", "xmm0")
         /\ Code(o)[7] = Ins("pxor", "xmm0", "xmm1")
         /\ Segments(Code(o), 8, "fmod")
         /\ Code(o)[13] = Imm("addq", -1, "rsp") /\ Code(o)[14] = Ins("movsd", "xmm0", "(%rsp)")
<1>0. Code(o) = AluModulus(o.type)
  BY CodeOf
<1>1. Code(o) = CallParam(DOUBLE, 0) \o CallParam(DOUBLE, 1) \o SwapFloats \o CallFinalize("fmod", FALSE, 2, DOUBLE)
  BY <1>0 DEF AluModulus
<1>2. IsFloat(DOUBLE) /\ ~IsRegular(DOUBLE) /\ DOUBLE # BOOL /\ DOUBLE # VOID
  BY TypeNumbers DEF IsFloat, IsRegular, Concrete
<1>3. ArgumentRegister(DOUBLE, 0) = "xmm0" /\ ArgumentRegister(DOUBLE, 1) = "xmm1"
  BY <1>2 DEF ArgumentRegister, FloatRegisters
<1>4. /\ CallParam(DOUBLE, 0) = <<Ins("movsd", "(%rsp)", "xmm0"), Imm("addq", 1, "rsp")>>
      /\ CallParam(DOUBLE, 1) = <<Ins("movsd", "(%rsp)", "xmm1"), Imm("addq", 1, "rsp")>>
  BY <1>2, <1>3 DEF CallParam
<1>5. CallFinalize("fmod", FALSE, 2, DOUBLE) =
        <<>> \o <<Ins("movq", "rsp", "r12"), Imm("andq_low", 0, "r12"), Imm("andq_high", 0, "rsp")>>
        \o <<Tag("call", "fmod", 0)>> \o <<Ins("orq", "r12", "rsp")>>
        \o <<Imm("addq", -1, "rsp"), Ins("movsd", "xmm0", "(%rsp)")>>
  BY <1>2 DEF CallFinalize, AlignStack, UnalignStack
<1>6. SwapFloats = <<Ins("pxor", "xmm0", "xmm1"), Ins("pxor", "xmm1", "xmm0"), Ins("pxor", "xmm0", "xmm1")>>
  BY DEF SwapFloats
<1>7. Code(o) = <<Ins("movsd", "(%rsp)", "xmm0"), Imm("addq", 1, "rsp")>>
                \o <<Ins("movsd", "(%rsp)", "xmm1"), Imm("addq", 1, "rsp")>>
                \o <<Ins("pxor", "xmm0", "xmm1"), Ins("pxor", "xmm1", "xmm0"), Ins("pxor", "xmm0", "xmm1")>>
                \o (<<>> \o <<Ins("movq", "rsp", "r12"), Imm("andq_low", 0, "r12"), Imm("andq_high", 0, "rsp")>>
                    \o <<Tag("call", "fmod", 0)>> \o <<Ins("orq", "r12", "rsp")>>
                    \o <<Imm("addq", -1, "rsp"), Ins("movsd", "xmm0", "(%rsp)")>>)
  BY <1>1, <1>4, <1>5, <1>6
<1>8. Len(Code(o)) = 14
  BY <1>7
<1>9. /\ Code(o)[1] = Ins("movsd", "(%rsp)", "xmm0") /\ Code(o)[2] = Imm("addq", 1, "rsp")
      /\ Code(o)[3] = Ins("movsd", "(%rsp)", "xmm1") /\ Code(o)[4] = Imm("addq", 1, "rsp")
      /\ Code(o)[5] = Ins("pxor", "xmm0", "xmm1") /\ Code(o)[6] = Ins("pxor", "xmm1", "xmm0")
      /\ Code(o)[7] = Ins("pxor", "xmm0", "xmm1")
  BY <1>7
<1>10. /\ Code(o)[8] = Ins("movq", "rsp", "r12") /\ Code(o)[9] = Imm("andq_low", 0, "r12")
       /\ Code(o)[10] = Imm("andq_high", 0, "rsp") /\ Code(o)[11] = Tag("call", "fmod", 0)
       /\ Code(o)[12] = Ins("orq", "r12", "rsp")
       /\ Code(o)[13] = Imm("addq", -1, "rsp") /\ Code(o)[14] = Ins("movsd", "xmm0", "(%rsp)")
  BY <1>7
<1> QED BY <1>8, <1>9, <1>10 DEF Segments

LEMMA CodeOfDisplays ==
  ASSUME NEW o, o.call = "debug_display", o.type \in Concrete
  PROVE  /\ o.type = BOOL =>
              /\ Len(Code(o)) = 9 /\ Code(o)[1] = Imm("leaq", Format.llu, "rdi")
              /\ Code(o)[2] = PopTo("rsi") /\ Code(o)[3] = Imm("andq", 1, "rsi")
              /\ Code(o)[4] = Imm("movb", 0, "rax") /\ Segments(Code(o), 5, "printf")
         /\ o.type = DOUBLE =>
              /\ Len(Code(o)) = 9 /\ Code(o)[1] = Imm("leaq", Format.f, "rdi")
              /\ Code(o)[2] = Ins("movsd", "(%rsp)", "xmm0") /\ Code(o)[3] = Imm("addq", 1, "rsp")
              /\ Code(o)[4] = Imm("movb", 1, "rax") /\ Segments(Code(o), 5, "printf")
         /\ o.type \in {UNSIGNED_INT, CHAR} =>
              /\ Len(Code(o)) = 8 /\ Code(o)[1] = Imm("leaq", IF o.type = CHAR THEN Format.c ELSE Format.llu, "rdi")
              /\ Code(o)[2] = PopTo("rsi")
              /\ Code(o)[3] = Imm("movb", 0, "rax") /\ Segments(Code(o), 4, "printf")
<1>1. Code(o) = DebugDisplay(o.type)
  BY CodeOf
<1>2. ASSUME NEW n
      PROVE  CallFinalize("printf", TRUE, n, VOID) =
               <<Imm("movb", n, "rax")>>
               \o <<Ins("movq", "rsp", "r12"), Imm("andq_low", 0, "r12"), Imm("andq_high", 0, "rsp")>>
               \o <<Tag("call", "printf", 0)>> \o <<Ins("orq", "r12", "rsp")>> \o <<>>
  <2>1. (CASE VOID = VOID -> <<>>
           [] IsFloat(VOID) -> <<Imm("addq", -1, "rsp"), Ins("movsd", "xmm0", "(%rsp)")>>
           [] OTHER -> <<Push("rax")>>) = <<>>
    BY TypeNumbers DEF IsFloat, Concrete
  <2> QED BY <2>1 DEF CallFinalize, AlignStack, UnalignStack
<1>3. /\ ArgumentRegister(DOUBLE, 0) = "xmm0"
      /\ o.type # DOUBLE => ArgumentRegister(o.type, 1) = "rsi"
      /\ IsFloat(o.type) <=> o.type = DOUBLE
  BY TypeNumbers DEF ArgumentRegister, FloatRegisters, RegularRegisters, IsRegular, IsFloat
<1>4. CASE o.type = BOOL
  <2>1. CallParam(BOOL, 1) = <<PopTo("rsi"), Imm("andq", 1, "rsi")>>
    BY <1>3, <1>4, TypeNumbers DEF CallParam
  <2>2. DebugDisplay(o.type) = <<Imm("leaq", Format.llu, "rdi")>> \o CallParam(BOOL, 1) \o CallFinalize("printf", TRUE, 0, VOID)
    BY <1>4, TypeNumbers DEF DebugDisplay
  <2>3. Code(o) = <<Imm("leaq", Format.llu, "rdi")>> \o <<PopTo("rsi"), Imm("andq", 1, "rsi")>>
                  \o (<<Imm("movb", 0, "rax")>>
               \o <<Ins("movq", "rsp", "r12"), Imm("andq_low", 0, "r12"), Imm("andq_high", 0, "rsp")>>
               \o <<Tag("call", "printf", 0)>> \o <<Ins("orq", "r12", "rsp")>> \o <<>>)
    BY <1>1, <1>2, <2>1, <2>2
  <2>4. Segments(Code(o), 5, "printf")
    BY <2>3 DEF Segments
  <2>5. /\ Len(Code(o)) = 9 /\ Code(o)[1] = Imm("leaq", Format.llu, "rdi")
        /\ Code(o)[2] = PopTo("rsi") /\ Code(o)[3] = Imm("andq", 1, "rsi")
        /\ Code(o)[4] = Imm("movb", 0, "rax")
    BY <2>3
  <2> QED BY <1>4, <2>4, <2>5, TypeNumbers
<1>5. CASE o.type = DOUBLE
  <2>1. CallParam(DOUBLE, 0) = <<Ins("movsd", "(%rsp)", "xmm0"), Imm("addq", 1, "rsp")>>
    BY <1>3, <1>5, TypeNumbers DEF CallParam
  <2>2. DebugDisplay(o.type) = <<Imm("leaq", Format.f, "rdi")>> \o CallParam(DOUBLE, 0) \o CallFinalize("printf", TRUE, 1, VOID)
    BY <1>5, TypeNumbers DEF DebugDisplay
  <2>3. Code(o) = <<Imm("leaq", Format.f, "rdi")>> \o <<Ins("movsd", "(%rsp)", "xmm0"), Imm("addq", 1, "rsp")>>
                  \o (<<Imm("movb", 1, "rax")>>
               \o <<Ins("movq", "rsp", "r12"), Imm("andq_low", 0, "r12"), Imm("andq_high", 0, "rsp")>>
               \o <<Tag("call", "printf", 0)>> \o <<Ins("orq", "r12", "rsp")>> \o <<>>)
    BY <1>1, <1>2, <2>1, <2>2
  <2>4. Segments(Code(o), 5, "printf")
    BY <2>3 DEF Segments
  <2>5. /\ Len(Code(o)) = 9 /\ Code(o)[1] = Imm("leaq", Format.f, "rdi")
        /\ Code(o)[2] = Ins("movsd", "(%rsp)", "xmm0") /\ Code(o)[3] = Imm("addq", 1, "rsp")
        /\ Code(o)[4] = Imm("movb", 1, "rax")
    BY <2>3
  <2> QED BY <1>5, <2>4, <2>5, TypeNumbers
<1>6. CASE o.type \in {UNSIGNED_INT, CHAR}
  <2> DEFINE d == IF o.type = CHAR THEN Format.c ELSE Format.llu
  <2>1. CallParam(o.type, 1) = <<PopTo("rsi")>>
    BY <1>3, <1>6, TypeNumbers DEF CallParam
  <2>2. DebugDisplay(o.type) = <<Imm("leaq", d, "rdi")>> \o CallParam(o.type, 1) \o CallFinalize("printf", TRUE, 0, VOID)
    BY <1>6, TypeNumbers DEF DebugDisplay
  <2> HIDE DEF d
  <2>3. Code(o) = <<Imm("leaq", d, "rdi")>> \o <<PopTo("rsi")>>
                  \o (<<Imm("movb", 0, "rax")>>
               \o <<Ins("movq", "rsp", "r12"), Imm("andq_low", 0, "r12"), Imm("andq_high", 0, "rsp")>>
               \o <<Tag("call", "printf", 0)>> \o <<Ins("orq", "r12", "rsp")>> \o <<>>)
    BY <1>1, <1>2, <2>1, <2>2
  <2>4. Segments(Code(o), 4, "printf")
    BY <2>3 DEF Segments
  <2>5. /\ Len(Code(o)) = 8 /\ Code(o)[1] = Imm("leaq", d, "rdi")
        /\ Code(o)[2] = PopTo("rsi") /\ Code(o)[3] = Imm("movb", 0, "rax")
    BY <2>3
  <2> QED BY <1>6, <2>4, <2>5, TypeNumbers DEF d
<1> QED BY <1>4, <1>5, <1>6, TypeNumbers

LEMMA CodeOfMain ==
  /\ Len(BeginMain) = 1 /\ BeginMain[1] = Ins("movq", "rsp", "rbp")
  /\ \A o : o.call = "finalize_main_procedure" =>
       /\ Len(Code(o)) = 2 /\ Code(o)[1] = Ins("movq", "rbp", "rsp") /\ Code(o)[2] = Ins("ret", NoName, NoName)
<1>1. Len(BeginMain) = 1 /\ BeginMain[1] = Ins("movq", "rsp", "rbp")
  BY DEF BeginMain
<1>2. ASSUME NEW o, o.call = "finalize_main_procedure"
      PROVE  /\ Len(Code(o)) = 2 /\ Code(o)[1] = Ins("movq", "rbp", "rsp")
             /\ Code(o)[2] = Ins("ret", NoName, NoName)
  <2>1. Code(o) = FinalizeMain
    BY <1>2, CodeOf
  <2> QED BY <2>1 DEF FinalizeMain
<1> QED BY <1>1, <1>2

-----------------------------------------------------------------------------
(***************************************************************************)
(* Operands and arguments.                                                 *)
(***************************************************************************)
LEMMA Shapes ==
  ASSUME NEW o
  PROVE  /\ o.call \in {"load_i64", "load_variable", "load_pointer_to_variable"} =>
              Expects(o) = <<>> /\ Leaves(o) = <<o.type>>
         /\ o.call \in {"load_value_from_pointer", "convert"} => Expects(o) = <<o.type>> /\ Leaves(o) = <<o.dest>>
         /\ o.call \in {"store_variable", "debug_display", "function_call_param"} =>
              Expects(o) = <<o.type>> /\ Leaves(o) = <<>>
         /\ o.call = "store_value_to_pointer" => Expects(o) = <<o.type, o.dest>> /\ Leaves(o) = <<>>
         /\ o.call \in ArithmeticCalls \cup Bools => Expects(o) = <<o.type, o.type>> /\ Leaves(o) = <<o.type>>
         /\ o.call \in Compares => Expects(o) = <<o.type, o.type>> /\ Leaves(o) = <<BOOL>>
         /\ o.call = "alu_not_bool" => Expects(o) = <<o.type>> /\ Leaves(o) = <<o.type>>
         /\ o.call = "function_call_finalize" => Expects(o) = <<>>
         /\ o.call = "function_call_finalize" /\ o.type # VOID => Leaves(o) = <<o.type>>
         /\ o.call = "function_call_finalize" /\ o.type = VOID => Leaves(o) = <<>>
         /\ o.call \in {"none", "finalize_main_procedure"} => Expects(o) = <<>> /\ Leaves(o) = <<>>
<1>1. /\ o.call \in {"load_i64", "load_variable", "load_pointer_to_variable"} => Expects(o) = <<>>
      /\ o.call \in {"load_value_from_pointer", "convert"} => Expects(o) = <<o.type>>
      /\ o.call \in {"store_variable", "debug_display", "function_call_param"} => Expects(o) = <<o.type>>
      /\ o.call = "store_value_to_pointer" => Expects(o) = <<o.type, o.dest>>
      /\ o.call \in ArithmeticCalls \cup Bools => Expects(o) = <<o.type, o.type>>
      /\ o.call \in Compares => Expects(o) = <<o.type, o.type>>
      /\ o.call = "alu_not_bool" => Expects(o) = <<o.type>>
      /\ o.call = "function_call_finalize" => Expects(o) = <<>>
      /\ o.call \in {"none", "finalize_main_procedure"} => Expects(o) = <<>>
  BY DEF Expects, Pops, Binops, Compares, ArithmeticCalls, Bools
<1>2. /\ o.call \in {"load_i64", "load_variable", "load_pointer_to_variable"} => Leaves(o) = <<o.type>>
      /\ o.call \in {"load_value_from_pointer", "convert"} => Leaves(o) = <<o.dest>>
      /\ o.call \in {"store_variable", "debug_display", "function_call_param"} => Leaves(o) = <<>>
      /\ o.call = "store_value_to_pointer" => Leaves(o) = <<>>
      /\ o.call \in ArithmeticCalls \cup Bools => Leaves(o) = <<o.type>>
      /\ o.call \in Compares => Leaves(o) = <<BOOL>>
      /\ o.call = "alu_not_bool" => Leaves(o) = <<o.type>>
      /\ o.call = "function_call_finalize" /\ o.type # VOID => Leaves(o) = <<o.type>>
      /\ o.call = "function_call_finalize" /\ o.type = VOID => Leaves(o) = <<>>
      /\ o.call \in {"none", "finalize_main_procedure"} => Leaves(o) = <<>>
  BY DEF Leaves, Loads, Binops, Compares, ArithmeticCalls, Bools
<1> QED BY <1>1, <1>2

\* Where the i-th argument of a list of types is passed.
Place(types, i) ==
  ArgumentRegister(types[i], Cardinality({k \in 1 .. i - 1 : IsFloat(types[k]) = IsFloat(types[i])}))

LEMMA PlaceRegisters ==
  ASSUME NEW f \in DOMAIN Signature, NEW types \in Seq(Concrete), IsPrefix(types, Signature[f]),
         NEW i \in 1 .. Len(types)
  PROVE  LET c == Cardinality({k \in 1 .. i - 1 : IsFloat(types[k]) = IsFloat(types[i])})
         IN /\ c \in Nat
            /\ IsRegular(types[i]) => c + 1 \in 1 .. 6 /\ Place(types, i) = RegularRegisters[c + 1]
            /\ ~IsRegular(types[i]) => c + 1 \in 1 .. 8 /\ Place(types, i) = FloatRegisters[c + 1]
            /\ IsRegular(types[i]) <=> ~IsFloat(types[i])
            /\ Place(types, i) \in ParameterRegisters
<1> DEFINE sig == Signature[f]
           S == {k \in 1 .. i - 1 : IsFloat(types[k]) = IsFloat(types[i])}
           T == {k \in DOMAIN sig : IsFloat(sig[k]) = IsFloat(types[i])}
           c == Cardinality(S)
<1>1. sig \in Seq(Concrete) /\ Passable(sig)
  BY SignatureAssumption
<1>2. Len(types) <= Len(sig) /\ \A k \in 1 .. Len(types) : types[k] = sig[k]
  <2>1. Len(types) <= Len(sig) /\ SubSeq(types, 1, Len(types)) = SubSeq(sig, 1, Len(types))
    BY DEF IsPrefix
  <2>2. \A k \in 1 .. Len(types) : SubSeq(types, 1, Len(types))[k] = types[k]
    OBVIOUS
  <2>3. \A k \in 1 .. Len(types) : SubSeq(sig, 1, Len(types))[k] = sig[k]
    BY <1>1, <2>1
  <2> QED BY <2>1, <2>2, <2>3
<1> HIDE DEF sig
<1>3. S \cup {i} \subseteq T /\ i \notin S
  BY <1>1, <1>2
<1>4. IsFiniteSet(T)
  <2>1. IsFiniteSet(1 .. Len(sig))
    BY <1>1, FS_Interval
  <2>2. T \in SUBSET (1 .. Len(sig))
    BY <1>1
  <2> QED BY <2>1, <2>2, FS_Subset
<1>5. IsFiniteSet(S)
  BY <1>3, <1>4, FS_Subset
<1>6. Cardinality(S \cup {i}) = c + 1 /\ c \in Nat
  BY <1>3, <1>5, FS_AddElement, FS_CardinalityType
<1>7. c + 1 <= Cardinality(T)
  BY <1>3, <1>4, <1>6, FS_Subset
<1>8. types[i] \in Concrete
  OBVIOUS
<1>9. IsRegular(types[i]) <=> ~IsFloat(types[i])
  BY <1>8, TypeNumbers DEF IsRegular, IsFloat
<1>10. Len(RegularRegisters) = 6 /\ Len(FloatRegisters) = 8
  BY DEF RegularRegisters, FloatRegisters
<1>11. CASE IsRegular(types[i])
  <2>1. T = {k \in DOMAIN sig : ~IsFloat(sig[k])}
    BY <1>9, <1>11 DEF IsFloat
  <2>2. Cardinality(T) <= 6
    BY <1>1, <1>10, <2>1 DEF Passable
  <2>3. c + 1 \in 1 .. 6
    <3>1. Cardinality(T) \in Nat
      BY <1>4, FS_CardinalityType
    <3> QED BY <1>6, <1>7, <2>2, <3>1
  <2>4. Place(types, i) = RegularRegisters[c + 1]
    BY <1>11 DEF Place, ArgumentRegister
  <2> HIDE DEF c
  <2>5. RegularRegisters[c + 1] \in ParameterRegisters
    BY <2>3 DEF ParameterRegisters, RegularRegisters
  <2> QED BY <1>6, <1>9, <1>11, <2>3, <2>4, <2>5 DEF c
<1>12. CASE ~IsRegular(types[i])
  <2>1. T = {k \in DOMAIN sig : IsFloat(sig[k])}
    BY <1>9, <1>12 DEF IsFloat
  <2>2. Cardinality(T) <= 8
    BY <1>1, <1>10, <2>1 DEF Passable
  <2>3. c + 1 \in 1 .. 8
    <3>1. Cardinality(T) \in Nat
      BY <1>4, FS_CardinalityType
    <3> QED BY <1>6, <1>7, <2>2, <3>1
  <2>4. Place(types, i) = FloatRegisters[c + 1]
    BY <1>12 DEF Place, ArgumentRegister
  <2> HIDE DEF c
  <2>5. FloatRegisters[c + 1] \in ParameterRegisters
    BY <2>3 DEF ParameterRegisters, FloatRegisters
  <2> QED BY <1>6, <1>9, <1>12, <2>3, <2>4, <2>5 DEF c
<1> QED BY <1>11, <1>12

\* One more argument is passed elsewhere than those before it.
LEMMA PlacesDiffer ==
  ASSUME NEW f \in DOMAIN Signature, NEW types \in Seq(Concrete), IsPrefix(types, Signature[f]),
         NEW i \in 1 .. Len(types), NEW j \in 1 .. i - 1
  PROVE  Place(types, j) # Place(types, i)
<1> DEFINE S(n) == {k \in 1 .. n - 1 : IsFloat(types[k]) = IsFloat(types[n])}
           c(n) == Cardinality(S(n))
<1>1. j \in 1 .. Len(types)
  OBVIOUS
<1>2. \A n \in 1 .. Len(types) :
        /\ c(n) \in Nat
        /\ IsRegular(types[n]) => c(n) + 1 \in 1 .. 6 /\ Place(types, n) = RegularRegisters[c(n) + 1]
        /\ ~IsRegular(types[n]) => c(n) + 1 \in 1 .. 8 /\ Place(types, n) = FloatRegisters[c(n) + 1]
        /\ IsRegular(types[n]) <=> ~IsFloat(types[n])
  BY PlaceRegisters
<1>3. CASE ~(IsFloat(types[j]) <=> IsFloat(types[i]))
  <2>1. IsRegular(types[i]) <=> ~IsRegular(types[j])
    BY <1>1, <1>2, <1>3, Zenon
  <2>2. \A m \in 1 .. 6, n \in 1 .. 8 : RegularRegisters[m] # FloatRegisters[n]
    BY DEF RegularRegisters, FloatRegisters
  <2> HIDE DEF c
  <2> QED BY <1>1, <1>2, <2>1, <2>2
<1>4. CASE IsFloat(types[j]) <=> IsFloat(types[i])
  <2>1. S(j) \cup {j} \subseteq S(i) /\ j \notin S(j)
    BY <1>4 DEF IsFloat
  <2>2. IsFiniteSet(S(i))
    <3>1. IsFiniteSet(1 .. i - 1)
      BY FS_Interval
    <3>2. S(i) \in SUBSET (1 .. i - 1)
      OBVIOUS
    <3> QED BY <3>1, <3>2, FS_Subset
  <2>3. IsFiniteSet(S(j))
    BY <2>1, <2>2, FS_Subset
  <2>4. Cardinality(S(j) \cup {j}) = c(j) + 1
    BY <2>1, <2>3, FS_AddElement
  <2>5. c(j) + 1 <= c(i)
    BY <2>1, <2>2, <2>4, FS_Subset
  <2>6. IsRegular(types[i]) <=> IsRegular(types[j])
    BY <1>1, <1>2, <1>4 DEF IsFloat
  <2>7. \A m, n \in 1 .. 6 : RegularRegisters[m] = RegularRegisters[n] => m = n
    BY DEF RegularRegisters
  <2>8. \A m, n \in 1 .. 8 : FloatRegisters[m] = FloatRegisters[n] => m = n
    BY DEF FloatRegisters
  <2> HIDE DEF c
  <2>9. c(i) \in Nat /\ c(j) \in Nat /\ c(j) # c(i)
    BY <1>1, <1>2, <2>5
  <2>10. CASE IsRegular(types[i])
    <3>1. /\ c(i) + 1 \in 1 .. 6 /\ Place(types, i) = RegularRegisters[c(i) + 1]
          /\ c(j) + 1 \in 1 .. 6 /\ Place(types, j) = RegularRegisters[c(j) + 1]
      BY <1>1, <1>2, <2>6, <2>10
    <3>2. c(i) + 1 # c(j) + 1
      BY <2>9
    <3> QED BY <2>7, <3>1, <3>2
  <2>11. CASE ~IsRegular(types[i])
    <3>1. /\ c(i) + 1 \in 1 .. 8 /\ Place(types, i) = FloatRegisters[c(i) + 1]
          /\ c(j) + 1 \in 1 .. 8 /\ Place(types, j) = FloatRegisters[c(j) + 1]
      BY <1>1, <1>2, <2>6, <2>11
    <3>2. c(i) + 1 # c(j) + 1
      BY <2>9
    <3> QED BY <2>8, <3>1, <3>2
  <2> QED BY <2>10, <2>11
<1> QED BY <1>3, <1>4

LEMMA PrefixStays ==
  ASSUME NEW types \in Seq(Concrete), NEW t \in Concrete
  PROVE  LET all == Append(types, t)
         IN /\ \A i \in 1 .. Len(types) : Place(all, i) = Place(types, i) /\ all[i] = types[i]
            /\ Place(all, Len(types) + 1) = ArgumentRegister(t, Position(types, t))
            /\ all[Len(types) + 1] = t
<1> DEFINE all == Append(types, t)
           n == Len(types)
<1>1. n \in Nat /\ Len(all) = n + 1 /\ all[n + 1] = t /\ \A i \in 1 .. n : all[i] = types[i]
  OBVIOUS
<1> HIDE DEF all
<1>2. ASSUME NEW i \in 1 .. n
      PROVE  Place(all, i) = Place(types, i)
  <2>1. {k \in 1 .. i - 1 : IsFloat(all[k]) = IsFloat(all[i])} = {k \in 1 .. i - 1 : IsFloat(types[k]) = IsFloat(types[i])}
    BY <1>1
  <2> QED BY <1>1, <2>1 DEF Place
<1>3. Place(all, n + 1) = ArgumentRegister(t, Position(types, t))
  <2>1. (n + 1) - 1 = n /\ DOMAIN types = 1 .. n
    BY <1>1
  <2>2. {k \in 1 .. (n + 1) - 1 : IsFloat(all[k]) = IsFloat(all[n + 1])} = {k \in DOMAIN types : IsFloat(types[k]) = IsFloat(t)}
    BY <1>1, <2>1
  <2> QED BY <1>1, <2>2 DEF Place, Position
<1> QED BY <1>1, <1>2, <1>3 DEF all

LEMMA PrefixesPassing ==
  /\ \A f \in DOMAIN Signature : Passing(Signature[f])
  /\ \A types, t : types \in Seq(Concrete) /\ t \in Concrete /\ Passing(Append(types, t)) => Passing(types)
<1>1. ASSUME NEW f \in DOMAIN Signature PROVE Passing(Signature[f])
  <2>1. Signature[f] \in Seq(Concrete)
    BY SignatureAssumption
  <2>2. IsPrefix(Signature[f], Signature[f])
    BY <2>1 DEF IsPrefix
  <2> QED BY <2>1, <2>2 DEF Passing
<1>2. ASSUME NEW types \in Seq(Concrete), NEW t \in Concrete, Passing(Append(types, t))
      PROVE  Passing(types)
  <2> DEFINE all == Append(types, t)
  <2>1. Len(all) = Len(types) + 1 /\ all \in Seq(Concrete) /\ \A i \in 1 .. Len(types) : all[i] = types[i]
    OBVIOUS
  <2>2. PICK f \in DOMAIN Signature : IsPrefix(all, Signature[f])
    <3>1. all # <<>>
      <4> HIDE DEF all
      <4>1. all \in Seq(Concrete) /\ Len(all) # 0
        BY <2>1
      <4> QED BY <4>1
    <3> QED BY <1>2, <3>1 DEF Passing
  <2> HIDE DEF all
  <2> DEFINE sig == Signature[f]
  <2>3. sig \in Seq(Concrete)
    BY SignatureAssumption
  <2>4. Len(all) <= Len(sig) /\ SubSeq(all, 1, Len(all)) = SubSeq(sig, 1, Len(all))
    BY <2>2 DEF IsPrefix
  <2> HIDE DEF sig
  <2>5. \A i \in 1 .. Len(types) : types[i] = sig[i]
    <3>1. \A i \in 1 .. Len(all) : SubSeq(all, 1, Len(all))[i] = all[i] /\ SubSeq(sig, 1, Len(all))[i] = sig[i]
      BY <2>1, <2>3, <2>4
    <3> QED BY <2>1, <2>4, <3>1
  <2>6. Len(types) <= Len(sig)
    BY <2>1, <2>3, <2>4
  <2>7. SubSeq(types, 1, Len(types)) = SubSeq(sig, 1, Len(types))
    <3>1. /\ SubSeq(types, 1, Len(types)) \in Seq(Concrete) /\ SubSeq(sig, 1, Len(types)) \in Seq(Concrete)
          /\ Len(SubSeq(types, 1, Len(types))) = Len(types) /\ Len(SubSeq(sig, 1, Len(types))) = Len(types)
      BY <2>3, <2>6
    <3>2. \A i \in 1 .. Len(types) : SubSeq(types, 1, Len(types))[i] = SubSeq(sig, 1, Len(types))[i]
      BY <2>3, <2>5, <2>6
    <3> DEFINE a == SubSeq(types, 1, Len(types))
               b == SubSeq(sig, 1, Len(types))
    <3>3. a \in Seq(Concrete) /\ b \in Seq(Concrete) /\ Len(a) = Len(b) /\ \A i \in 1 .. Len(a) : a[i] = b[i]
      BY <3>1, <3>2
    <3> HIDE DEF a, b
    <3>4. a = b
      BY <3>3
    <3> QED BY <3>4 DEF a, b
  <2> QED BY <2>6, <2>7 DEF IsPrefix, Passing, sig
<1> QED BY <1>1, <1>2

-----------------------------------------------------------------------------
(***************************************************************************)
(* What is known after an instruction.                                     *)
(***************************************************************************)
Same == UNCHANGED <<op, operands, argTypes, count, before>>

LEMMA SameCall ==
  ASSUME Same
  PROVE  /\ Base' = Base /\ PassedTypes' = PassedTypes /\ Popped' = Popped
         /\ \A i : A(i)' = A(i) /\ V(i)' = V(i)
         /\ Callers' = Callers /\ Segment' = Segment /\ Callee' = Callee /\ Said' = Said /\ Excess' = Excess
         /\ Returned' = Returned
         /\ IntegerBinop' = IntegerBinop /\ DoubleBinop' = DoubleBinop /\ Branch' = Branch
         /\ \A k : Maybe(k)' = Maybe(k)
<1>1. Base' = Base
  BY DEF Same, Base
<1>2. \A i : A(i)' = A(i) /\ V(i)' = V(i)
  BY <1>1 DEF Same, A, V
<1>3. PassedTypes' = PassedTypes
  BY DEF Same, PassedTypes
<1>4. Popped' = Popped
  BY <1>1 DEF Same, A, V, Popped
<1>5. Callers' = Callers /\ Segment' = Segment /\ Callee' = Callee /\ Excess' = Excess /\ Returned' = Returned
  BY <1>1, Zenon DEF Same, Callers, Segment, Callee, Excess, Returned
<1>6. Said' = Said
  BY <1>1 DEF Same, A, V, Said
<1>7. IntegerBinop' = IntegerBinop /\ DoubleBinop' = DoubleBinop /\ Branch' = Branch
  BY Zenon DEF Same, IntegerBinop, DoubleBinop, Branch
<1>8. \A k : Maybe(k)' = Maybe(k)
  BY <1>1, Zenon DEF Same, A, V, Maybe
<1> QED BY <1>1, <1>2, <1>3, <1>4, <1>5, <1>6, <1>7, <1>8

LEMMA Meant ==
  ASSUME NEW slot, NEW w, Represents(slot, w)
  PROVE  /\ w \in Word
         /\ slot.type \notin {BOOL, CHAR} => slot.value = w
         /\ slot.type = CHAR => slot.value = CharOf(w)
         /\ slot.type = BOOL => (w = 0 /\ slot.value = 0) \/ (w = AllOnes /\ slot.value = 1)
<1>1. w \in Word /\ slot.value = Denotes(slot.type, w)
  BY DEF Represents, Sound
<1>2. slot.type = BOOL => w \in {0, AllOnes}
  BY DEF Represents, Sound
<1>3. AllOnes # 0 /\ BOOL # CHAR
  BY ModulusFacts, TypeNumbers
<1> QED BY <1>1, <1>2, <1>3 DEF Denotes

LEMMA IntactBelow ==
  ASSUME NEW n \in Nat, NEW k \in Nat, k <= n, Intact(n)
  PROVE  Intact(k)
<1>1. Len(mem) > n /\ \A i \in 1 .. n : Represents(before.stack[i], mem[i + 1])
  BY DEF Intact
<1>2. Len(mem) > k
  BY <1>1
<1>3. \A i \in 1 .. k : i \in 1 .. n
  OBVIOUS
<1> QED BY <1>1, <1>2, <1>3 DEF Intact

LEMMA IntactStays ==
  ASSUME NEW n \in Nat, Intact(n), NEW m \in Nat, Keeps(m), n < m, UNCHANGED before
  PROVE  Intact(n)'
<1>1. Len(mem') > n
  BY DEF Keeps
<1>2. \A i \in 1 .. n : mem'[i + 1] = mem[i + 1]
  BY DEF Keeps
<1> QED BY <1>1, <1>2 DEF Intact

LEMMA LeftStays ==
  ASSUME Same, UNCHANGED mem
  PROVE  /\ \A d : Left(d) => Left(d)'
         /\ Pushed1 => Pushed1'
BY SameCall DEF Left, Pushed1, Intact, Same

LEMMA LeftTop ==
  ASSUME Slots, NEW d \in 1 .. Len(Expects(op)), Left(d)
  PROVE  /\ Len(mem) = 1 + Base + d /\ Len(mem) >= 2
         /\ Represents(A(d), mem[Len(mem)]) /\ A(d).type = Expects(op)[d]
         /\ d = 2 => Represents(A(1), mem[Len(mem) - 1]) /\ A(1).type = Expects(op)[1]
<1>1. Base \in Nat /\ Len(mem) = 1 + Base + d /\ Len(mem) >= 2 /\ A(d).type = Expects(op)[d]
  BY DEF Slots, Left
<1>2. \A i \in 1 .. Base + d : Represents(before.stack[i], mem[i + 1])
  BY DEF Left, Intact
<1>3. Base + d \in 1 .. Base + d /\ (Base + d) + 1 = Len(mem)
  BY <1>1
<1>4. Represents(A(d), mem[Len(mem)])
  BY <1>2, <1>3 DEF A
<1>5. ASSUME d = 2 PROVE Represents(A(1), mem[Len(mem) - 1]) /\ A(1).type = Expects(op)[1]
  <2>1. Base + 1 \in 1 .. Base + d /\ (Base + 1) + 1 = Len(mem) - 1 /\ 1 \in 1 .. Len(Expects(op))
    BY <1>1, <1>5
  <2> QED BY <1>2, <2>1 DEF A, Slots
<1> QED BY <1>1, <1>4, <1>5

LEMMA LeftPops ==
  ASSUME Same, Slots, NEW d \in 1 .. Len(Expects(op)), Left(d), NEW n \in 1 .. d, Shrinks(n)
  PROVE  Left(d - n)'
<1>1. Base \in Nat /\ Len(mem) = 1 + Base + d
  BY DEF Slots, Left
<1>0. PICK k \in Nat, m \in Nat : k = Base + (d - n) /\ m = Len(mem) - n
  BY <1>1
<1>2. k <= Base + d /\ Base + d \in Nat /\ m = k + 1 /\ k < m
  BY <1>0, <1>1
<1>3. Keeps(m) /\ Len(mem') = 1 + k
  BY <1>0, <1>1, <1>2 DEF Shrinks
<1>4. Intact(Base + d)
  BY DEF Left
<1>5. Intact(k)
  BY <1>2, <1>4, IntactBelow
<1>6. before' = before
  BY DEF Same
<1>7. Intact(k)'
  BY <1>2, <1>3, <1>5, <1>6, IntactStays
<1>8. Len(mem') > k /\ \A i \in 1 .. k : Represents(before'.stack[i], mem'[i + 1])
  BY <1>7 DEF Intact
<1>9. Base' = Base
  BY SameCall
<1>10. Len(mem') = 1 + Base + (d - n)
  BY <1>0, <1>1, <1>3
<1> QED BY <1>0, <1>8, <1>9, <1>10 DEF Left, Intact

LEMMA LeftPushes ==
  ASSUME Same, Slots, Left(0), Keeps(Len(mem)), Len(mem') = Len(mem) + 1
  PROVE  Pushed1' /\ Top' = mem'[Len(mem')]
<1>1. Base \in Nat /\ Len(mem) = 1 + Base /\ Intact(Base)
  BY DEF Slots, Left
<1>2. Len(mem') = 2 + Base
  BY <1>1
<1>3. \A i \in 1 .. Base : Represents(before.stack[i], mem'[i + 1])
  BY <1>1 DEF Keeps, Intact
<1> QED BY <1>1, <1>2, <1>3, SameCall DEF Pushed1, Intact, Top, Same

(***************************************************************************)
(* A step within the code of a call, and its last one.                     *)
(***************************************************************************)
LEMMA PassedTypesPassing ==
  ASSUME Control
  PROVE  Passing(PassedTypes)
<1>1. CASE op.call = "function_call_param"
  <2>1. argTypes = Append(PassedTypes, op.type) /\ Passing(argTypes) /\ op.type \in Concrete
    BY <1>1 DEF Control, WellFormed
  <2>2. PassedTypes = SubSeq(argTypes, 1, Len(argTypes) - 1) /\ argTypes \in Seq(Concrete)
    BY <1>1, <2>1 DEF PassedTypes, Passing
  <2>3. Len(argTypes) # 0
    <3>1. argTypes = <<>> => Len(argTypes) = 0
      OBVIOUS
    <3>2. Len(argTypes) = 0 => PassedTypes = <<>>
      BY <2>2
    <3>3. Append(<<>>, op.type) = <<op.type>> /\ Len(<<op.type>>) = 1
      OBVIOUS
    <3> QED BY <2>1, <3>2, <3>3
  <2>4. PassedTypes \in Seq(Concrete)
    BY <2>2, <2>3
  <2> QED BY <2>1, <2>4, PrefixesPassing
<1>2. CASE op.call = "function_call_finalize"
  BY <1>2, PrefixesPassing DEF Control, WellFormed, PassedTypes
<1>3. CASE op.call \notin {"function_call_param", "function_call_finalize"}
  BY <1>3 DEF Control, PassedTypes
<1> QED BY <1>1, <1>2, <1>3

LEMMA PassedPlaces ==
  ASSUME Control, NEW i \in 1 .. Len(PassedTypes)
  PROVE  Place(PassedTypes, i) \in ParameterRegisters
<1>1. Passing(PassedTypes)
  BY PassedTypesPassing
<1>2. PassedTypes # <<>>
  <2>1. PassedTypes = <<>> => Len(PassedTypes) = 0
    OBVIOUS
  <2> QED BY <2>1
<1>3. PICK f \in DOMAIN Signature : IsPrefix(PassedTypes, Signature[f])
  BY <1>1, <1>2 DEF Passing
<1>4. PassedTypes \in Seq(Concrete)
  BY <1>1 DEF Passing
<1> QED BY <1>3, <1>4, PlaceRegisters

LEMMA ArgumentAt ==
  \A types, i : Argument(types, i) = reg[Place(types, i)] /\ Argument(types, i)' = reg'[Place(types, i)]
BY DEF Argument, Place

\* The arguments passed stay where they are.
LEMMA KeptStays ==
  ASSUME Control, Same, Kept, heard' = heard, Spoke' <=> Spoke,
         \/ op.call = "function_call_finalize" /\ Spoke
         \/ \A i \in 1 .. Len(PassedTypes) : reg'[Place(PassedTypes, i)] = reg[Place(PassedTypes, i)]
  PROVE  Kept'
<1>1. PassedTypes' = PassedTypes /\ Callee' = Callee /\ Said' = Said /\ before' = before /\ op' = op
  BY SameCall DEF Same
<1>2. heard' = IF Spoke' THEN [function |-> Callee', args |-> Said'] ELSE before'.heard
  BY <1>1 DEF Kept
<1>3. CASE op.call = "function_call_finalize" /\ Spoke
  BY <1>1, <1>2, <1>3 DEF Kept
<1>4. CASE \A i \in 1 .. Len(PassedTypes) : reg'[Place(PassedTypes, i)] = reg[Place(PassedTypes, i)]
  <2>1. PICK types : types = PassedTypes
    OBVIOUS
  <2>2. CASE before.args = ArgumentsOf(PassedTypes)
    <3>1. \A i \in 1 .. Len(types) : Argument(types, i)' = Argument(types, i)
      BY <1>4, <2>1, ArgumentAt
    <3>2. ArgumentsOf(types)' = ArgumentsOf(types)
      BY <3>1 DEF ArgumentsOf
    <3>3. types = PassedTypes'
      BY <1>1, <2>1
    <3>4. (before.args = ArgumentsOf(PassedTypes))'
      BY <1>1, <2>1, <2>2, <3>2, <3>3 DEF ArgumentsOf
    <3> QED BY <1>2, <3>4 DEF Kept
  <2>3. CASE op.call = "function_call_finalize" /\ Spoke
    BY <1>1, <1>2, <2>3 DEF Kept
  <2> QED BY <2>2, <2>3 DEF Kept
<1> QED BY <1>3, <1>4

LEMMA ControlStays ==
  ASSUME Control, Same, code' = code, ip' \in 1 .. Len(code) + 1,
         running' \in {"running", "returned", "fault", "refused"},
         op.call = "none" \/ reg'["rbp"] = StackBase - 1
  PROVE  Control'
<1>1. op' = op /\ operands' = operands /\ argTypes' = argTypes /\ count' = count /\ PassedTypes' = PassedTypes
  BY SameCall DEF Same
<1>2. WellFormed(op)' <=> WellFormed(op)
  BY <1>1 DEF WellFormed
<1> QED BY <1>1, <1>2, Zenon DEF Control

LEMMA CarefulStays ==
  ASSUME Careful, Same, Within' => Within
  PROVE  Careful'
<1>1. op' = op /\ V(1)' = V(1)
  BY SameCall DEF Same
<1> QED BY <1>1 DEF Careful

LEMMA SlotsStay ==
  ASSUME Slots, Same
  PROVE  Slots'
<1>1. op' = op /\ operands' = operands /\ before' = before /\ count' = count /\ Base' = Base /\ \A i : A(i)' = A(i)
  BY SameCall DEF Same
<1> QED BY <1>1 DEF Slots

LEMMA Midway ==
  ASSUME IInv, Within, Same, UNCHANGED <<code, running, store>>, ip' \in 1 .. Len(code), MachineTyped',
         op.call = "none" \/ reg'["rbp"] = StackBase - 1, Kept', Points'
  PROVE  IInv'
<1>1. running' = "running" /\ Len(code') = Len(code) /\ ip' <= Len(code') /\ ~ ip' > Len(code')
  BY DEF Within, IInv, Control
<1>2. Within' /\ ~AtBoundary' /\ running' # "returned"
  BY <1>1 DEF Within, AtBoundary
<1>3. Control'
  <2>1. ip' \in 1 .. Len(code) + 1
    BY DEF IInv, Control
  <2> QED BY <1>1, <2>1, ControlStays DEF IInv
<1>4. Careful' /\ Slots'
  BY CarefulStays, SlotsStay DEF IInv
<1>5. Unassigned'
  BY DEF IInv, Unassigned, Stored, Same
<1> QED BY <1>2, <1>3, <1>4, <1>5 DEF IInv

LEMMA Finish ==
  ASSUME IInv, Within, Same, UNCHANGED <<code, running>>, ip' = Len(code) + 1, MachineTyped',
         Remains', Yields', Effects'
  PROVE  IInv'
<1>1. running' = "running" /\ Len(code') = Len(code) /\ Len(code) \in Nat /\ ip' > Len(code')
  BY DEF Within, IInv, Control
<1>2. ~Within' /\ AtBoundary' /\ running' # "returned"
  BY <1>1 DEF Within, AtBoundary
<1>3. Control'
  <2>1. ip' \in 1 .. Len(code) + 1
    BY <1>1
  <2>2. reg'["rbp"] = StackBase - 1
    BY DEF Remains
  <2> QED BY <1>1, <2>1, <2>2, ControlStays DEF IInv
<1>4. Careful' /\ Slots'
  BY <1>2, CarefulStays, SlotsStay DEF IInv
<1> QED BY <1>2, <1>3, <1>4 DEF IInv

LEMMA Stays ==
  ASSUME IInv, Within, Same, NEW how \in {"returned", "fault", "refused"}, Stop(how),
         how = "returned" => Len(mem) = 1
  PROVE  IInv'
<1>1. running' = how /\ UNCHANGED <<code, ip, reg, mem, store, st, flags, heard>>
  BY DEF Stop
<1>2. ~Within' /\ ~AtBoundary'
  BY <1>1 DEF Within, AtBoundary
<1>3. Control'
  BY <1>1, ControlStays DEF IInv, Control
<1>4. Careful' /\ Slots'
  BY <1>2, CarefulStays, SlotsStay DEF IInv
<1>5. MachineTyped'
  BY <1>1 DEF IInv, MachineTyped
<1> QED BY <1>1, <1>2, <1>3, <1>4, <1>5 DEF IInv

(***************************************************************************)
(* What most calls leave alone.                                            *)
(***************************************************************************)
LEMMA WasNames ==
  /\ Was!UNSIGNED_INT = UNSIGNED_INT /\ Was!DOUBLE = DOUBLE /\ Was!BOOL = BOOL /\ Was!CHAR = CHAR
  /\ Was!Compares = Compares /\ Was!Word = Word /\ Was!Half = Half /\ Was!NaN = NaN
  /\ \A w : Was!Real(w) = Real(w) /\ Was!Wrap(w) = Wrap(w) /\ Was!CharOf(w) = CharOf(w) /\ Was!DoubleOf(w) = DoubleOf(w)
  /\ \A o \in {"+", "-", "*", "/", "%"} : \A a, b : Was!DoubleOp(o, a, b) = DoubleOp(o, a, b)
  /\ \A f, a : Was!Result(f, a) = Result(f, a)
<1>1. /\ Was!UNSIGNED_INT = UNSIGNED_INT /\ Was!DOUBLE = DOUBLE /\ Was!BOOL = BOOL /\ Was!CHAR = CHAR
      /\ Was!Compares = Compares /\ Was!Modulus = Modulus /\ Was!NaN = NaN
  BY DEF Was!UNSIGNED_INT, UNSIGNED_INT, Was!DOUBLE, DOUBLE, Was!BOOL, BOOL, Was!CHAR, CHAR, Was!Compares, Compares,
         Was!Modulus, Modulus, Was!NaN, NaN
<1>2. Was!Word = Word /\ Was!Half = Half
  BY <1>1 DEF Was!Word, Word, Was!Half, Half
<1>3. \A w : Was!Real(w) = Real(w) /\ Was!Wrap(w) = Wrap(w) /\ Was!CharOf(w) = CharOf(w)
  BY <1>1 DEF Was!Real, Real, Was!Wrap, Wrap, Was!CharOf, CharOf
<1>4. \A w : Was!DoubleOf(w) = DoubleOf(w)
  BY <1>1, <1>2 DEF Was!DoubleOf, DoubleOf
<1>5. \A a, b : Was!Quotient(a, b) = Quotient(a, b)
  <2>1. \A n : Was!Magnitude(n) = Magnitude(n)
    BY DEF Was!Magnitude, Magnitude
  <2> QED BY <2>1, Zenon DEF Was!Quotient, Quotient
<1>6. ASSUME NEW o \in {"+", "-", "*", "/", "%"}, NEW a, NEW b
      PROVE  Was!DoubleOp(o, a, b) = DoubleOp(o, a, b)
  <2>1. Was!Real(a) = Real(a) /\ Was!Real(b) = Real(b) /\ Was!Quotient(Real(a), Real(b)) = Quotient(Real(a), Real(b))
    BY <1>3, <1>5
  <2>2. CASE o = "+"
    BY <1>1, <1>4, <2>1, <2>2 DEF Was!DoubleOp, DoubleOp
  <2>3. CASE o = "-"
    BY <1>1, <1>4, <2>1, <2>3 DEF Was!DoubleOp, DoubleOp
  <2>4. CASE o = "*"
    BY <1>1, <1>4, <2>1, <2>4 DEF Was!DoubleOp, DoubleOp
  <2>5. CASE o = "/"
    BY <1>1, <1>4, <2>1, <2>5 DEF Was!DoubleOp, DoubleOp
  <2>6. CASE o = "%"
    BY <1>1, <1>4, <2>1, <2>6 DEF Was!DoubleOp, DoubleOp
  <2> QED BY <2>2, <2>3, <2>4, <2>5, <2>6
<1>7. \A f, a : Was!Result(f, a) = Result(f, a)
  BY <1>3, <1>6 DEF Was!Result, Result
<1> QED BY <1>1, <1>2, <1>3, <1>4, <1>6, <1>7

LEMMA NothingSaid ==
  ASSUME Same, Kept', ~Callers, op.call # "function_call_param"
  PROVE  /\ ArgumentsOf(argTypes)' = Was!Passed(op, Popped)'
         /\ heard' = Was!Told(op, Popped)'
<1>1. op' = op /\ PassedTypes' = PassedTypes /\ argTypes' = argTypes /\ before' = before /\ Callers' = Callers
  BY SameCall DEF Same
<1>2. ~Spoke' /\ op.call \notin {"function_call_finalize", "debug_display"}
  BY <1>1 DEF Spoke, Callers
<1>3. PassedTypes = argTypes
  BY <1>2 DEF PassedTypes
<1>4. heard' = before.heard
  BY <1>1, <1>2 DEF Kept
<1>5. before.args = ArgumentsOf(argTypes)'
  <2>1. before'.args = ArgumentsOf(PassedTypes)'
    BY <1>1, <1>2 DEF Kept
  <2>2. PassedTypes' = argTypes'
    BY <1>1, <1>3
  <2> QED BY <1>1, <2>1, <2>2 DEF ArgumentsOf
<1>6. Was!Passed(op, Popped)' = before.args
  BY <1>1, <1>2 DEF Was!Passed
<1>7. Was!Told(op, Popped)' = before.heard
  BY <1>1, <1>2 DEF Was!Told, Callers, Was!DOUBLE, DOUBLE
<1> QED BY <1>4, <1>5, <1>6, <1>7

LEMMA EffectsStay ==
  ASSUME Same, Kept', ~Callers, Unassigned, store' = store,
         op.call \notin {"function_call_param", "store_variable", "store_value_to_pointer"}
  PROVE  Effects'
<1>1. op' = op /\ before' = before
  BY DEF Same
<1>2. Was!Assigned(op, Popped)' = before.variables
  BY <1>1 DEF Was!Assigned
<1>3. before.variables = Stored'
  BY DEF Unassigned, Stored
<1> QED BY <1>2, <1>3, NothingSaid DEF Effects

\* What the calls should push.
LEMMA ValuesOf ==
  ASSUME NEW a
  PROVE  /\ op.call = "load_i64"                 => Was!Values(op, a) = {op.n}
         /\ op.call = "load_variable"            => Was!Values(op, a) = {before.variables[op.name]}
         /\ op.call = "load_pointer_to_variable" => Was!Values(op, a) = {AddressOf[op.name]}
         /\ op.call = "load_value_from_pointer"  =>
              Was!Values(op, a) = {before.variables[v] : v \in {u \in DOMAIN VarType : AddressOf[u] = a[1]}}
         /\ op.call = "alu_not_bool"             => Was!Values(op, a) = {1 - a[1]}
         /\ op.call = "alu_or_bool"              => Was!Values(op, a) = {IF a[1] + a[2] > 0 THEN 1 ELSE 0}
         /\ op.call \in ArithmeticCalls /\ op.type = DOUBLE =>
              Was!Values(op, a) = {DoubleOp(Was!Sign[op.call], a[1], a[2])}
         /\ op.call = "alu_add" /\ op.type # DOUBLE => Was!Values(op, a) = {Wrap(a[1] + a[2])}
         /\ op.call = "alu_sub" /\ op.type # DOUBLE => Was!Values(op, a) = {Wrap(a[1] - a[2])}
         /\ op.call = "alu_multiply" /\ op.type # DOUBLE => Was!Values(op, a) = {Wrap(a[1] * a[2])}
         /\ op.call = "alu_divide" /\ op.type # DOUBLE /\ a[2] # 0 => Was!Values(op, a) = {a[1] \div a[2]}
         /\ op.call \in Compares                 => Was!Values(op, a) = Was!Compared(op.call, op.type, a[1], a[2])
         /\ op.call = "convert"                  => Was!Values(op, a) = Was!Converted(op.type, op.dest, a[1])
         /\ op.call = "function_call_finalize"   => Was!Values(op, a) = {Result(op.name, before.args)}
<1>0. DOMAIN Was!Sign = ArithmeticCalls /\ "alu_or_bool" \notin ArithmeticCalls /\ Compares \cap ArithmeticCalls = {}
      /\ \A c \in ArithmeticCalls : Was!Sign[c] \in {"+", "-", "*", "/", "%"}
  BY DEF Was!Sign, ArithmeticCalls, Compares
<1>1. /\ op.call = "load_i64"                 => Was!Values(op, a) = {op.n}
      /\ op.call = "load_variable"            => Was!Values(op, a) = {before.variables[op.name]}
      /\ op.call = "load_pointer_to_variable" => Was!Values(op, a) = {AddressOf[op.name]}
      /\ op.call = "load_value_from_pointer"  =>
           Was!Values(op, a) = {before.variables[v] : v \in {u \in DOMAIN VarType : AddressOf[u] = a[1]}}
      /\ op.call = "alu_not_bool"             => Was!Values(op, a) = {1 - a[1]}
  BY <1>0, WasNames DEF Was!Values, ArithmeticCalls, Compares
<1>2. op.call = "alu_or_bool" => Was!Values(op, a) = {IF a[1] + a[2] > 0 THEN 1 ELSE 0}
  BY <1>0, WasNames DEF Was!Values, Was!BoolOp, ArithmeticCalls, Compares
<1>4. ASSUME op.call \in ArithmeticCalls
      PROVE  Was!Values(op, a) =
               IF op.type = DOUBLE THEN {DoubleOp(Was!Sign[op.call], a[1], a[2])}
               ELSE IF op.call \in {"alu_divide", "alu_modulus"} /\ a[2] = 0 THEN {}
               ELSE {Was!IntegerOp(op.call, a[1], a[2])}
  <2>1. /\ op.call \notin {"load_i64", "load_variable", "load_pointer_to_variable", "load_value_from_pointer",
                          "alu_not_bool", "alu_and_bool", "alu_or_bool", "convert", "function_call_finalize"}
        /\ op.call \notin Compares
    BY <1>4 DEF ArithmeticCalls, Compares
  <2>2. Was!Values(op, a) =
          IF op.type = Was!DOUBLE THEN {Was!DoubleOp(Was!Sign[op.call], a[1], a[2])}
          ELSE IF op.call \in {"alu_divide", "alu_modulus"} /\ a[2] = 0 THEN {}
          ELSE {Was!IntegerOp(op.call, a[1], a[2])}
    BY <1>0, <1>4, <2>1, WasNames DEF Was!Values
  <2>3. Was!DoubleOp(Was!Sign[op.call], a[1], a[2]) = DoubleOp(Was!Sign[op.call], a[1], a[2])
    BY <1>0, <1>4, WasNames
  <2> QED BY <2>2, <2>3, WasNames
<1>5. /\ Was!IntegerOp("alu_add", a[1], a[2]) = Wrap(a[1] + a[2])
      /\ Was!IntegerOp("alu_sub", a[1], a[2]) = Wrap(a[1] - a[2])
      /\ Was!IntegerOp("alu_multiply", a[1], a[2]) = Wrap(a[1] * a[2])
      /\ Was!IntegerOp("alu_divide", a[1], a[2]) = a[1] \div a[2]
  BY WasNames DEF Was!IntegerOp
<1>6. {"alu_add", "alu_sub", "alu_multiply", "alu_divide"} \subseteq ArithmeticCalls
  BY DEF ArithmeticCalls
<1>7. op.call \in Compares => Was!Values(op, a) = Was!Compared(op.call, op.type, a[1], a[2])
  <2> SUFFICES ASSUME op.call \in Compares PROVE Was!Values(op, a) = Was!Compared(op.call, op.type, a[1], a[2])
    OBVIOUS
  <2>1. op.call \notin {"load_i64", "load_variable", "load_pointer_to_variable", "load_value_from_pointer",
                       "alu_not_bool", "alu_and_bool", "alu_or_bool", "convert", "function_call_finalize"}
        /\ op.call \notin ArithmeticCalls
    BY DEF ArithmeticCalls, Compares
  <2> QED BY <1>0, <2>1, WasNames DEF Was!Values
<1>8. op.call = "convert" => Was!Values(op, a) = Was!Converted(op.type, op.dest, a[1])
  BY <1>0, WasNames DEF Was!Values, ArithmeticCalls, Compares
<1>9. op.call = "function_call_finalize" => Was!Values(op, a) = {Result(op.name, before.args)}
  BY <1>0, WasNames DEF Was!Values, ArithmeticCalls, Compares
<1> QED BY <1>1, <1>2, <1>4, <1>5, <1>6, <1>7, <1>8, <1>9

LEMMA SameValues ==
  ASSUME Same
  PROVE  Was!Values(op, Popped)' = Was!Values(op, Popped)
<1>1. op' = op /\ before' = before /\ Popped' = Popped
  BY SameCall DEF Same
<1> QED BY <1>1, Zenon DEF Was!Values

LEMMA YieldsIf ==
  ASSUME Same, NEW w, Top' = w, Leaves(op) # <<>> => Sound(Leaves(op)[1], w),
         Defects \subseteq {"immediate"} =>
           \E v \in Was!Values(op, Popped) : Denotes(Leaves(op)[1], w) = Was!Kept(Leaves(op)[1], v)
  PROVE  Yields'
<1>1. op' = op
  BY DEF Same
<1> QED BY <1>1, SameValues DEF Yields, Was!Kept, Was!CHAR, Was!CharOf

\* What is known before an instruction is about the call whose code it is in.
Accessors == {"load_i64", "load_pointer_to_variable", "load_value_from_pointer", "store_value_to_pointer"}

LEMMA Elsewhere ==
  ASSUME Same
  PROVE  /\ ip' # 1 => AtStart'
         /\ op.call \notin Accessors => AtLoads'
         /\ ~IntegerBinop => AtIntegers'
         /\ ~DoubleBinop => AtDoubles'
         /\ op.call \notin Compares => AtCompares'
         /\ op.call # "convert" => AtConversions'
         /\ op.call # "function_call_param" => AtArguments'
         /\ op.call # "debug_display" => AtDisplays'
         /\ ~(op.call = "alu_modulus" /\ op.type = DOUBLE) => AtFmod'
         /\ ~Callers => AtSegment'
         /\ op.call # "finalize_main_procedure" => AtEnd'
<1>1. op' = op /\ IntegerBinop' = IntegerBinop /\ DoubleBinop' = DoubleBinop /\ Callers' = Callers
  BY SameCall DEF Same
<1>2. ip' # 1 => AtStart'
  BY DEF AtStart
<1>3. op.call \notin Accessors => AtLoads'
  BY <1>1 DEF AtLoads, Accessors
<1>4. ~IntegerBinop => AtIntegers'
  <2>1. ASSUME ~IntegerBinop' PROVE AtIntegers'
    BY <2>1 DEF AtIntegers
  <2> QED BY <1>1, <2>1
<1>5. ~DoubleBinop => AtDoubles'
  <2>1. ASSUME ~DoubleBinop' PROVE AtDoubles'
    BY <2>1 DEF AtDoubles
  <2> QED BY <1>1, <2>1
<1>6. op.call \notin Compares => AtCompares'
  BY <1>1 DEF AtCompares
<1>7. op.call # "convert" => AtConversions'
  BY <1>1 DEF AtConversions
<1>8. op.call # "function_call_param" => AtArguments'
  BY <1>1 DEF AtArguments
<1>9. op.call # "debug_display" => AtDisplays'
  BY <1>1 DEF AtDisplays
<1>10. ~(op.call = "alu_modulus" /\ op.type = DOUBLE) => AtFmod'
  BY <1>1 DEF AtFmod
<1>11. ~Callers => AtSegment'
  <2>1. ASSUME ~Callers' PROVE AtSegment'
    BY <2>1 DEF AtSegment
  <2> QED BY <1>1, <2>1
<1>12. op.call # "finalize_main_procedure" => AtEnd'
  BY <1>1 DEF AtEnd
<1> QED BY <1>2, <1>3, <1>4, <1>5, <1>6, <1>7, <1>8, <1>9, <1>10, <1>11, <1>12

LEMMA OnlyPoints ==
  ASSUME Same, ip' # 1
  PROVE  /\ op.call \in Accessors \cup {"load_variable", "store_variable", "alu_not_bool"} /\ AtLoads' => Points'
         /\ op.call \in ArithmeticCalls \cup Bools /\ op.type # DOUBLE /\ AtIntegers' => Points'
         /\ op.call \in Compares /\ op.type # DOUBLE /\ AtIntegers' /\ AtCompares' => Points'
         /\ op.call \in Sums /\ op.type = DOUBLE /\ AtDoubles' => Points'
         /\ op.call \in Compares /\ op.type = DOUBLE /\ AtDoubles' /\ AtCompares' => Points'
         /\ op.call = "convert" /\ AtConversions' => Points'
         /\ op.call = "function_call_param" /\ AtArguments' => Points'
         /\ op.call = "debug_display" /\ AtDisplays' /\ AtSegment' => Points'
         /\ op.call = "alu_modulus" /\ op.type = DOUBLE /\ AtFmod' /\ AtSegment' => Points'
         /\ op.call = "function_call_finalize" /\ AtSegment' => Points'
         /\ op.call = "finalize_main_procedure" /\ AtEnd' => Points'
<1>1. IntegerBinop <=> op.call \in ArithmeticCalls \cup Bools \cup Compares /\ op.type # DOUBLE
  BY DEF IntegerBinop
<1>2. DoubleBinop <=> op.call \in Sums \cup Compares /\ op.type = DOUBLE
  BY DEF DoubleBinop
<1>3. Callers <=> \/ op.call \in {"function_call_finalize", "debug_display"}
                  \/ op.call = "alu_modulus" /\ op.type = DOUBLE
  BY DEF Callers
<1> USE DEF Points
<1>4. op.call \in Accessors \cup {"load_variable", "store_variable", "alu_not_bool"} /\ AtLoads' => Points'
  BY <1>1, <1>2, <1>3, Elsewhere DEF Accessors, ArithmeticCalls, Bools, Compares, Sums
<1>5. op.call \in ArithmeticCalls \cup Bools /\ op.type # DOUBLE /\ AtIntegers' => Points'
  BY <1>1, <1>2, <1>3, Elsewhere DEF Accessors, ArithmeticCalls, Bools, Compares, Sums
<1>6. op.call \in Compares /\ op.type # DOUBLE /\ AtIntegers' /\ AtCompares' => Points'
  BY <1>1, <1>2, <1>3, Elsewhere DEF Accessors, ArithmeticCalls, Bools, Compares, Sums
<1>7. op.call \in Sums /\ op.type = DOUBLE /\ AtDoubles' => Points'
  BY <1>1, <1>2, <1>3, Elsewhere DEF Accessors, ArithmeticCalls, Bools, Compares, Sums
<1>8. op.call \in Compares /\ op.type = DOUBLE /\ AtDoubles' /\ AtCompares' => Points'
  BY <1>1, <1>2, <1>3, Elsewhere DEF Accessors, ArithmeticCalls, Bools, Compares, Sums
<1>9. op.call \in {"convert", "function_call_param", "function_call_finalize", "debug_display",
                   "finalize_main_procedure"} =>
        op.call \notin ArithmeticCalls \cup Bools \cup Compares \cup Sums \cup Accessors
  BY DEF Accessors, ArithmeticCalls, Bools, Compares, Sums
<1>10. /\ op.call = "convert" /\ AtConversions' => Points'
       /\ op.call = "function_call_param" /\ AtArguments' => Points'
       /\ op.call = "finalize_main_procedure" /\ AtEnd' => Points'
  BY <1>1, <1>2, <1>3, <1>9, Elsewhere
<1>11. /\ op.call = "debug_display" /\ AtDisplays' /\ AtSegment' => Points'
       /\ op.call = "function_call_finalize" /\ AtSegment' => Points'
  BY <1>1, <1>2, <1>3, <1>9, Elsewhere
<1>12. op.call = "alu_modulus" /\ op.type = DOUBLE /\ AtFmod' /\ AtSegment' => Points'
  BY <1>1, <1>2, <1>3, Elsewhere DEF Accessors, ArithmeticCalls, Bools, Compares, Sums
<1> QED BY <1>4, <1>5, <1>6, <1>7, <1>8, <1>10, <1>11, <1>12

(***************************************************************************)
(* One instruction of the code of a call.                                  *)
(***************************************************************************)
Undisturbed == /\ PassedTypes = <<>> \/ \A r \in ParameterRegisters : reg'[r] = reg[r]
               /\ reg'["rbp"] = reg["rbp"]

LEMMA Facts ==
  ASSUME IInv, Within, op.call # "none"
  PROVE  /\ MachineTyped /\ Control /\ WellFormed(op) /\ Careful /\ Slots /\ Unassigned /\ Kept /\ Points
         /\ code = Code(op) /\ Current = Code(op)[ip] /\ reg["rbp"] = StackBase - 1
         /\ ip \in 1 .. Len(Code(op)) /\ running = "running"
<1>1. code = Code(op) /\ reg["rbp"] = StackBase - 1 /\ WellFormed(op) /\ ip \in 1 .. Len(code) + 1
  BY DEF IInv, Control
<1>2. ip <= Len(code) /\ running = "running"
  BY DEF Within
<1>3. ip \in 1 .. Len(Code(op))
  BY <1>1, <1>2
<1> QED BY <1>1, <1>2, <1>3 DEF IInv, Current

LEMMA FewOperands ==
  ASSUME IInv, NEW d \in 0 .. Len(Expects(op)), Left(d)
  PROVE  Len(mem) + 3 <= StackBase
<1>1. Len(before.stack) = Base + Len(Expects(op)) /\ Len(before.stack) <= count /\ Base \in Nat
  BY DEF IInv, Slots
<1>2. count \in 0 .. MaxOperations
  BY DEF IInv, Control
<1>3. Len(mem) = 1 + Base + d
  BY DEF Left
<1>4. MaxOperations \in Nat /\ MaxOperations + 4 <= StackBase /\ StackBase \in Nat
  BY ProgramAssumption, MemoryAssumption
<1> QED BY <1>1, <1>2, <1>3, <1>4

LEMMA KeptIn ==
  ASSUME IInv, Within, op.call # "none", Same, heard' = heard, Spoke' <=> Spoke, Undisturbed
  PROVE  Kept'
<1>1. Control /\ Kept
  BY Facts
<1>2. \A i \in 1 .. Len(PassedTypes) : reg'[Place(PassedTypes, i)] = reg[Place(PassedTypes, i)]
  <2>1. CASE PassedTypes = <<>>
    <3>1. Len(PassedTypes) = 0
      BY <2>1
    <3> QED BY <3>1
  <2>2. CASE \A r \in ParameterRegisters : reg'[r] = reg[r]
    BY <1>1, <2>2, PassedPlaces
  <2> QED BY <2>1, <2>2 DEF Undisturbed
<1> QED BY <1>1, <1>2, KeptStays

\* Not the last instruction, and no call of a function.
LEMMA InnerStep ==
  ASSUME IInv, Within, op.call # "none", Same, Advances, store' = store, MachineTyped', Undisturbed,
         ip < Len(Code(op)), ~Callers \/ ip # Segment + 3, Points'
  PROVE  IInv'
<1>1. ip' = ip + 1 /\ UNCHANGED <<code, running, heard>>
  BY DEF Advances, Advance
<1>2. code = Code(op) /\ ip \in 1 .. Len(Code(op)) /\ reg["rbp"] = StackBase - 1
  BY Facts
<1>3. Spoke' <=> Spoke
  <2>1. Callers' = Callers /\ Segment' = Segment
    BY SameCall
  <2>2. Segment \in {1, 4, 5, 8}
    BY DEF Segment
  <2>3. ip # Segment + 3 => (ip' > Segment + 3 <=> ip > Segment + 3)
    BY <1>1, <1>2, <2>2
  <2> QED BY <2>1, <2>3 DEF Spoke
<1>4. Kept'
  BY <1>1, <1>3, KeptIn
<1>5. ip' \in 1 .. Len(code)
  BY <1>1, <1>2
<1>6. reg'["rbp"] = StackBase - 1
  BY <1>2 DEF Undisturbed
<1> QED BY <1>1, <1>4, <1>5, <1>6, Midway

\* The last one of a call that only computes.
LEMMA LastStep ==
  ASSUME IInv, Within, op.call # "none", Same, Advances, store' = store, MachineTyped', Undisturbed,
         ip = Len(Code(op)), ~Callers,
         op.call \notin {"function_call_param", "store_variable", "store_value_to_pointer"},
         Len(mem') = 1 + Base + Len(Leaves(op)), Intact(Base)', st' = <<>>, Yields'
  PROVE  IInv'
<1>1. ip' = ip + 1 /\ UNCHANGED <<code, running, heard>>
  BY DEF Advances, Advance
<1>2. code = Code(op) /\ ip \in 1 .. Len(Code(op)) /\ reg["rbp"] = StackBase - 1 /\ Unassigned
  BY Facts
<1>3. Spoke' <=> Spoke
  <2>1. Callers' = Callers
    BY SameCall
  <2> QED BY <2>1 DEF Spoke
<1>4. Kept'
  BY <1>1, <1>3, KeptIn
<1>5. Effects'
  BY <1>2, <1>4, EffectsStay
<1>6. Remains'
  <2>1. reg'["rbp"] = StackBase - 1
    BY <1>2 DEF Undisturbed
  <2>2. op' = op /\ Base' = Base
    BY SameCall DEF Same
  <2> QED BY <2>1, <2>2 DEF Remains
<1> QED BY <1>1, <1>2, <1>5, <1>6, Finish

LEMMA UndisturbedIf ==
  /\ reg' = reg => Undisturbed
  /\ \A r \in {"rax", "rbx", "r12"} : (\A q \in Registers \ {r} : reg'[q] = reg[q]) => Undisturbed
<1>1. ASSUME reg' = reg PROVE Undisturbed
  BY <1>1 DEF Undisturbed
<1>2. ASSUME NEW r \in {"rax", "rbx", "r12"}, \A q \in Registers \ {r} : reg'[q] = reg[q] PROVE Undisturbed
  <2>1. ParameterRegisters \subseteq Registers \ {r} /\ "rbp" \in Registers \ {r}
    BY RegisterNames
  <2> QED BY <1>2, <2>1 DEF Undisturbed
<1> QED BY <1>1, <1>2

LEMMA KeptDenotes ==
  ASSUME NEW t, NEW w, Sound(t, w)
  PROVE  Was!Kept(t, Denotes(t, w)) = Denotes(t, w)
<1>1. CharOf(CharOf(w)) = CharOf(w)
  BY CharOfWord DEF Sound
<1> QED BY <1>1, WasNames, TypeNumbers DEF Was!Kept, Denotes

\* The last instruction pushes the result.
LEMMA PushesResult ==
  ASSUME IInv, Within, op.call # "none", Same, ip = Len(Code(op)), ~Callers,
         op.call \notin {"function_call_param", "store_variable", "store_value_to_pointer"},
         NEW w, OnlyStack, Grows(w), MachineTyped', Left(0), st = <<>>, Len(Leaves(op)) = 1,
         Sound(Leaves(op)[1], w),
         Defects \subseteq {"immediate"} =>
           \E v \in Was!Values(op, Popped) : Denotes(Leaves(op)[1], w) = Was!Kept(Leaves(op)[1], v)
  PROVE  IInv'
<1>1. Advances /\ reg' = reg /\ store' = store /\ st' = st
  BY DEF OnlyStack
<1>2. Keeps(Len(mem)) /\ Len(mem') = Len(mem) + 1 /\ mem'[Len(mem) + 1] = w
  BY DEF Grows
<1>3. Slots
  BY DEF IInv
<1>4. Pushed1' /\ Top' = w
  BY <1>2, <1>3, LeftPushes
<1>5. Len(mem') = 1 + Base + Len(Leaves(op)) /\ Intact(Base)'
  <2>1. Base' = Base /\ Base \in Nat
    BY <1>3, SameCall DEF Slots
  <2> QED BY <1>4, <2>1 DEF Pushed1
<1>6. Yields'
  BY <1>4, YieldsIf
<1>7. Undisturbed
  BY <1>1, UndisturbedIf
<1>8. st' = <<>>
  BY <1>1
<1> QED BY <1>1, <1>5, <1>6, <1>7, <1>8, LastStep

(***************************************************************************)
(* Literals, variables and pointers.                                       *)
(***************************************************************************)
LEMMA LoadVariable ==
  ASSUME IInv, Within, Execute, Same, op.call = "load_variable"
  PROVE  IInv'
<1>1. op.call # "none" /\ ~Callers
  BY DEF Callers
<1>2. op.name \in DOMAIN VarType /\ op.type = VarType[op.name] /\ MachineTyped /\ Slots /\ Unassigned
  BY <1>1, Facts DEF WellFormed
<1>3. ip = 1 /\ Len(Code(op)) = 1 /\ Current = Push(op.name)
  BY <1>1, Facts, CodeOfLoads
<1>4. Left(0) /\ st = <<>>
  BY <1>1, <1>3, Facts, Shapes DEF Points, AtStart
<1>5. op.name \in DOMAIN AddressOf
  BY <1>2, ProgramAssumption
<1> DEFINE w == store[op.name]
<1>6. OnlyStack /\ Grows(w) /\ MachineTyped'
  BY <1>2, <1>3, <1>5, RunPushVariable
<1>7. Leaves(op) = <<op.type>>
  BY Shapes
<1>8. Sound(op.type, w)
  BY <1>2 DEF MachineTyped
<1>9. before.variables[op.name] = Denotes(op.type, w)
  BY <1>2 DEF Unassigned, Stored
<1>10. \E v \in Was!Values(op, Popped) : Denotes(op.type, w) = Was!Kept(op.type, v)
  <2>1. Was!Values(op, Popped) = {before.variables[op.name]}
    BY ValuesOf
  <2> QED BY <1>8, <1>9, <2>1, KeptDenotes
<1> HIDE DEF w
<1> QED BY <1>1, <1>3, <1>4, <1>6, <1>7, <1>8, <1>10, PushesResult

LEMMA LoadLiteral ==
  ASSUME IInv, Within, Execute, Same, op.call = "load_i64"
  PROVE  IInv'
<1>1. op.call # "none" /\ ~Callers
  BY DEF Callers
<1>2. op.n \in Word /\ op.type \in Arithmetic \cup {CHAR} /\ MachineTyped /\ Slots /\ ip \in 1 .. Len(Code(op))
  BY <1>1, Facts DEF WellFormed
<1>3. Leaves(op) = <<op.type>> /\ Expects(op) = <<>> /\ Len(<<op.type>>) = 1 /\ <<op.type>>[1] = op.type
  BY Shapes
<1>4. Sound(op.type, op.n)
  BY <1>2, TypeNumbers DEF Sound
<1>5. \E v \in Was!Values(op, Popped) : Denotes(op.type, op.n) = Was!Kept(op.type, v)
  <2>1. op.n \in Was!Values(op, Popped)
    BY ValuesOf
  <2>2. Denotes(op.type, op.n) = Was!Kept(op.type, op.n)
    BY <1>2, WasNames, TypeNumbers DEF Denotes, Was!Kept
  <2> QED BY <2>1, <2>2
<1>6. CASE Len(Code(op)) = 1 /\ Code(op)[1] = Imm("pushq", op.n, NoName)
  <2>1. ip = 1 /\ Current = Imm("pushq", op.n, NoName)
    BY <1>1, <1>2, <1>6, Facts
  <2>2. Left(0) /\ st = <<>>
    BY <1>1, <1>3, <2>1, Facts DEF Points, AtStart
  <2>3. CASE Stop("refused")
    BY <2>3, Stays
  <2>4. CASE OnlyStack /\ Grows(op.n) /\ MachineTyped'
    BY <1>1, <1>3, <1>4, <1>5, <1>6, <2>1, <2>2, <2>4, PushesResult
  <2> QED BY <1>2, <2>1, <2>3, <2>4, RunPushImmediate
<1>7. CASE Len(Code(op)) = 2 /\ Code(op)[1] = Imm("movabs", op.n, "rax") /\ Code(op)[2] = Push("rax")
  <2>1. CASE ip = 1
    <3>1. Current = Imm("movabs", op.n, "rax")
      BY <1>1, <1>7, <2>1, Facts
    <3>2. Left(0) /\ st = <<>>
      BY <1>1, <1>3, <2>1, Facts DEF Points, AtStart
    <3>3. /\ Advances /\ UNCHANGED <<mem, store, st, flags>> /\ MachineTyped'
          /\ reg'["rax"] = op.n /\ \A q \in Registers \ {"rax"} : reg'[q] = reg[q]
      BY <1>2, <3>1, RunMoveImmediate, RegisterNames
    <3>4. Left(0)' /\ st' = <<>> /\ ip' = 2 /\ op' = op
      BY <2>1, <3>2, <3>3, LeftStays DEF Advances, Advance, Same
    <3>5. AtLoads'
      BY <3>3, <3>4 DEF AtLoads
    <3>6. Points'
      BY <3>4, <3>5, OnlyPoints DEF Accessors
    <3> QED BY <1>1, <1>7, <2>1, <3>3, <3>6, InnerStep, UndisturbedIf
  <2>2. CASE ip = 2
    <3>1. Current = Push("rax")
      BY <1>1, <1>7, <2>2, Facts
    <3>2. Left(0) /\ st = <<>> /\ reg["rax"] = op.n
      BY <1>1, <2>2, Facts DEF Points, AtLoads
    <3>3. OnlyStack /\ Grows(op.n) /\ MachineTyped'
      BY <1>2, <3>1, <3>2, RunPushRegister, RegisterNames
    <3> QED BY <1>1, <1>3, <1>4, <1>5, <1>7, <2>2, <3>2, <3>3, PushesResult
  <2> QED BY <1>2, <1>7, <2>1, <2>2
<1> QED BY <1>6, <1>7, CodeOfLoads

LEMMA LoadAddress ==
  ASSUME IInv, Within, Execute, Same, op.call = "load_pointer_to_variable"
  PROVE  IInv'
<1>1. op.call # "none" /\ ~Callers
  BY DEF Callers
<1>2. /\ op.name \in DOMAIN VarType /\ op.type \in DOMAIN PointsTo /\ PointsTo[op.type] = VarType[op.name]
      /\ MachineTyped /\ Slots /\ ip \in 1 .. Len(Code(op))
  BY <1>1, Facts DEF WellFormed
<1>3. Leaves(op) = <<op.type>> /\ Expects(op) = <<>> /\ Len(<<op.type>>) = 1 /\ <<op.type>>[1] = op.type
  BY Shapes
<1>4. op.name \in DOMAIN AddressOf /\ AddressOf[op.name] \in Word
  BY <1>2, ProgramAssumption, MemoryAssumption
<1> DEFINE w == AddressOf[op.name]
<1>5. op.type \notin Concrete
  BY <1>2, TypeNumbers
<1>6. Sound(op.type, w)
  BY <1>2, <1>4, <1>5, TypeNumbers DEF Sound
<1>7. \E v \in Was!Values(op, Popped) : Denotes(op.type, w) = Was!Kept(op.type, v)
  <2>1. w \in Was!Values(op, Popped)
    BY ValuesOf
  <2>2. Denotes(op.type, w) = Was!Kept(op.type, w)
    BY <1>5, WasNames, TypeNumbers DEF Denotes, Was!Kept
  <2> QED BY <2>1, <2>2
<1>8. Len(Code(op)) = 2 /\ Code(op)[1] = Ins("leaq", op.name, "rax") /\ Code(op)[2] = Push("rax")
  BY CodeOfLoads
<1>9. CASE ip = 1
  <2>1. Current = Ins("leaq", op.name, "rax")
    BY <1>1, <1>8, <1>9, Facts
  <2>2. Left(0) /\ st = <<>>
    BY <1>1, <1>3, <1>9, Facts DEF Points, AtStart
  <2>3. /\ Advances /\ UNCHANGED <<mem, store, st, flags>> /\ MachineTyped'
        /\ reg'["rax"] = w /\ \A q \in Registers \ {"rax"} : reg'[q] = reg[q]
    BY <1>2, <1>4, <2>1, RunAddressOf, RegisterNames
  <2>4. Left(0)' /\ st' = <<>> /\ ip' = 2 /\ op' = op
    BY <1>9, <2>2, <2>3, LeftStays DEF Advances, Advance, Same
  <2>5. AtLoads'
    BY <2>3, <2>4 DEF AtLoads
  <2>6. Points'
    BY <2>4, <2>5, OnlyPoints DEF Accessors
  <2> QED BY <1>1, <1>8, <1>9, <2>3, <2>6, InnerStep, UndisturbedIf
<1>10. CASE ip = 2
  <2>1. Current = Push("rax")
    BY <1>1, <1>8, <1>10, Facts
  <2>2. Left(0) /\ st = <<>> /\ reg["rax"] = w
    BY <1>1, <1>10, Facts DEF Points, AtLoads
  <2>3. OnlyStack /\ Grows(w) /\ MachineTyped'
    BY <1>2, <2>1, <2>2, RunPushRegister, RegisterNames
  <2> QED BY <1>1, <1>3, <1>6, <1>7, <1>8, <1>10, <2>2, <2>3, PushesResult
<1> QED BY <1>2, <1>8, <1>9, <1>10

LEMMA LoadPointed ==
  ASSUME IInv, Within, Execute, Same, op.call = "load_value_from_pointer"
  PROVE  IInv'
<1>1. op.call # "none" /\ ~Callers
  BY DEF Callers
<1>2. /\ op.type \in DOMAIN PointsTo /\ op.dest = PointsTo[op.type] /\ MachineTyped /\ Slots /\ Unassigned
      /\ ip \in 1 .. Len(Code(op))
  BY <1>1, Facts DEF WellFormed
<1>3. /\ Leaves(op) = <<op.dest>> /\ Len(<<op.dest>>) = 1 /\ <<op.dest>>[1] = op.dest
      /\ Expects(op) = <<op.type>> /\ Len(<<op.type>>) = 1 /\ <<op.type>>[1] = op.type
  BY Shapes
<1>4. Len(Code(op)) = 2 /\ Code(op)[1] = PopTo("rax") /\ Code(op)[2] = Push("(%rax)")
  BY CodeOfLoads
<1>5. CASE ip = 1
  <2>1. Current = PopTo("rax")
    BY <1>1, <1>4, <1>5, Facts
  <2>2. Left(1) /\ st = <<>>
    BY <1>1, <1>3, <1>5, Facts DEF Points, AtStart
  <2>3. Len(mem) >= 2 /\ Represents(A(1), mem[Len(mem)])
    BY <1>2, <1>3, <2>2, LeftTop
  <2>4. /\ Advances /\ UNCHANGED <<store, st, flags>> /\ Shrinks(1) /\ MachineTyped'
        /\ reg'["rax"] = mem[Len(mem)] /\ \A q \in Registers \ {"rax"} : reg'[q] = reg[q]
    BY <1>2, <2>1, <2>3, RunPopRegister, RegisterNames
  <2>5. Left(0)'
    BY <1>2, <1>3, <2>2, <2>4, LeftPops
  <2>6. st' = <<>> /\ ip' = 2 /\ op' = op /\ A(1)' = A(1)
    BY <1>5, <2>2, <2>4, SameCall DEF Advances, Advance, Same
  <2>7. AtLoads'
    BY <2>3, <2>4, <2>5, <2>6 DEF AtLoads
  <2>8. Points'
    BY <2>6, <2>7, OnlyPoints DEF Accessors
  <2> QED BY <1>1, <1>4, <1>5, <2>4, <2>8, InnerStep, UndisturbedIf
<1>6. CASE ip = 2
  <2>1. Current = Push("(%rax)")
    BY <1>1, <1>4, <1>6, Facts
  <2>2. Left(0) /\ st = <<>> /\ Represents(A(1), reg["rax"])
    BY <1>1, <1>6, Facts DEF Points, AtLoads
  <2>3. CASE Stop("fault")
    BY <2>3, Stays
  <2>4. CASE IsMapped(reg["rax"]) /\ OnlyStack /\ MachineTyped' /\ Grows(store[Target(reg["rax"])])
    <3>1. PICK v \in DOMAIN AddressOf : AddressOf[v] = reg["rax"]
      BY <2>4 DEF IsMapped
    <3>2. Target(reg["rax"]) = v /\ v \in DOMAIN VarType /\ AddressOf[v] # 0
      BY <3>1, Targets, ProgramAssumption, MemoryAssumption
    <3>3. A(1).type = op.type
      BY <1>2, <1>3 DEF Slots
    <3>4. VarType[v] = op.dest
      <4>1. \E u \in DOMAIN VarType : VarType[u] = PointsTo[op.type] /\ reg["rax"] = AddressOf[u]
        BY <1>2, <2>2, <3>1, <3>2, <3>3 DEF Represents, Sound
      <4> QED BY <1>2, <3>1, <4>1, ProgramAssumption, MemoryAssumption
    <3> DEFINE w == store[v]
    <3>5. Sound(op.dest, w)
      BY <1>2, <3>2, <3>4 DEF MachineTyped
    <3>6. before.variables[v] = Denotes(op.dest, w)
      BY <1>2, <3>2, <3>4 DEF Unassigned, Stored
    <3>7. \E x \in Was!Values(op, Popped) : Denotes(op.dest, w) = Was!Kept(op.dest, x)
      <4>1. op.type \notin {BOOL, CHAR}
        BY <1>2, TypeNumbers
      <4>2. Popped[1] = reg["rax"]
        BY <1>3, <2>2, <3>3, <4>1, Meant DEF Popped, V
      <4>3. before.variables[v] \in Was!Values(op, Popped)
        BY <3>1, <3>2, <4>2, ValuesOf
      <4> QED BY <3>5, <3>6, <4>3, KeptDenotes
    <3>8. Grows(w)
      BY <2>4, <3>2
    <3> HIDE DEF w
    <3> QED BY <1>1, <1>3, <1>4, <1>6, <2>2, <2>4, <3>5, <3>7, <3>8, PushesResult
  <2> QED BY <1>2, <2>1, <2>3, <2>4, RunPushPointed
<1> QED BY <1>2, <1>4, <1>5, <1>6

(***************************************************************************)
(* Assignments.                                                            *)
(***************************************************************************)
LEMMA StoreStep ==
  ASSUME IInv, Within, op.call \in {"store_variable", "store_value_to_pointer"}, Same, Advances,
         MachineTyped', Undisturbed, ip = Len(Code(op)), Left(0)', st' = <<>>,
         Stored' = Was!Assigned(op, Popped)
  PROVE  IInv'
<1>1. op.call # "none" /\ ~Callers /\ op.call # "function_call_param"
  BY DEF Callers
<1>2. ip' = ip + 1 /\ UNCHANGED <<code, running, heard>>
  BY DEF Advances, Advance
<1>3. code = Code(op) /\ ip \in 1 .. Len(Code(op)) /\ reg["rbp"] = StackBase - 1 /\ Slots
  BY <1>1, Facts
<1>4. op' = op /\ before' = before /\ Popped' = Popped /\ Callers' = Callers /\ Base' = Base
  BY SameCall DEF Same
<1>5. Spoke' <=> Spoke
  BY <1>1, <1>4 DEF Spoke
<1>6. Kept'
  BY <1>1, <1>2, <1>5, KeptIn
<1>7. Effects'
  <2>1. Was!Assigned(op, Popped)' = Was!Assigned(op, Popped)
    BY <1>4 DEF Was!Assigned
  <2> QED BY <1>1, <1>6, <2>1, NothingSaid DEF Effects
<1>8. Leaves(op) = <<>> /\ Len(<<>>) = 0
  BY Shapes
<1>9. Yields'
  BY <1>4, <1>8 DEF Yields
<1>10. Remains'
  <2>1. reg'["rbp"] = StackBase - 1
    BY <1>3 DEF Undisturbed
  <2>2. Base \in Nat
    BY <1>3 DEF Slots
  <2>3. Len(mem') = 1 + Base' /\ Intact(Base)'
    BY <1>4, <2>2 DEF Left
  <2> QED BY <1>4, <1>8, <2>1, <2>2, <2>3 DEF Remains
<1> QED BY <1>2, <1>3, <1>7, <1>9, <1>10, Finish

LEMMA StoreVariable ==
  ASSUME IInv, Within, Execute, Same, op.call = "store_variable"
  PROVE  IInv'
<1>1. op.call # "none"
  OBVIOUS
<1>2. op.name \in DOMAIN VarType /\ op.type = VarType[op.name] /\ MachineTyped /\ Slots /\ Unassigned
  BY <1>1, Facts DEF WellFormed
<1>3. ip = 1 /\ Len(Code(op)) = 1 /\ Current = PopTo(op.name)
  BY <1>1, Facts, CodeOfLoads
<1>4. Expects(op) = <<op.type>> /\ Len(<<op.type>>) = 1 /\ <<op.type>>[1] = op.type
  BY Shapes
<1>5. Left(1) /\ st = <<>>
  BY <1>1, <1>3, <1>4, Facts DEF Points, AtStart
<1>6. Len(mem) >= 2 /\ Represents(A(1), mem[Len(mem)]) /\ A(1).type = op.type
  BY <1>2, <1>4, <1>5, LeftTop
<1> DEFINE w == mem[Len(mem)]
<1>7. Sound(op.type, w) /\ V(1) = Denotes(op.type, w)
  BY <1>6 DEF Represents, V
<1>8. op.name \in DOMAIN AddressOf
  BY <1>2, ProgramAssumption
<1>9. /\ Advances /\ UNCHANGED <<reg, st, flags>> /\ Shrinks(1) /\ MachineTyped'
      /\ store' = [store EXCEPT ![op.name] = w]
  BY <1>2, <1>3, <1>6, <1>7, <1>8, RunPopVariable
<1>10. Left(0)'
  BY <1>2, <1>4, <1>5, <1>9, LeftPops
<1> HIDE DEF w
<1>11. Stored' = Was!Assigned(op, Popped)
  <2>1. Popped[1] = V(1)
    BY <1>4 DEF Popped
  <2>2. Was!Assigned(op, Popped) = [before.variables EXCEPT ![op.name] = V(1)]
    BY <2>1 DEF Was!Assigned
  <2>3. DOMAIN store = DOMAIN VarType
    BY <1>2, ProgramAssumption DEF MachineTyped
  <2> QED BY <1>2, <1>7, <1>9, <2>2, <2>3 DEF Stored, Unassigned
<1>12. st' = <<>> /\ Undisturbed
  BY <1>5, <1>9, UndisturbedIf
<1> QED BY <1>3, <1>9, <1>10, <1>11, <1>12, StoreStep

LEMMA StorePointed ==
  ASSUME IInv, Within, Execute, Same, op.call = "store_value_to_pointer"
  PROVE  IInv'
<1>1. op.call # "none" /\ ~Callers
  BY DEF Callers
<1>2. /\ op.dest \in DOMAIN PointsTo /\ op.type = PointsTo[op.dest] /\ MachineTyped /\ Slots /\ Unassigned
      /\ ip \in 1 .. Len(Code(op))
  BY <1>1, Facts DEF WellFormed
<1>3. /\ Expects(op) = <<op.type, op.dest>> /\ Len(<<op.type, op.dest>>) = 2
      /\ <<op.type, op.dest>>[1] = op.type /\ <<op.type, op.dest>>[2] = op.dest
  BY Shapes
<1>4. /\ Len(Code(op)) = 3 /\ Code(op)[1] = PopTo("rax") /\ Code(op)[2] = PopTo("rbx")
      /\ Code(op)[3] = Ins("movq", "rbx", "(%rax)")
  BY CodeOfLoads
<1>5. CASE ip = 1
  <2>1. Current = PopTo("rax")
    BY <1>1, <1>4, <1>5, Facts
  <2>2. Left(2) /\ st = <<>>
    BY <1>1, <1>3, <1>5, Facts DEF Points, AtStart
  <2>3. Len(mem) >= 2 /\ Represents(A(2), mem[Len(mem)])
    BY <1>2, <1>3, <2>2, LeftTop
  <2>4. /\ Advances /\ UNCHANGED <<store, st, flags>> /\ Shrinks(1) /\ MachineTyped'
        /\ reg'["rax"] = mem[Len(mem)] /\ \A q \in Registers \ {"rax"} : reg'[q] = reg[q]
    BY <1>2, <2>1, <2>3, RunPopRegister, RegisterNames
  <2>5. Left(1)'
    BY <1>2, <1>3, <2>2, <2>4, LeftPops
  <2>6. st' = <<>> /\ ip' = 2 /\ op' = op /\ A(2)' = A(2)
    BY <1>5, <2>2, <2>4, SameCall DEF Advances, Advance, Same
  <2>7. AtLoads'
    BY <2>3, <2>4, <2>5, <2>6 DEF AtLoads
  <2>8. Points'
    BY <2>6, <2>7, OnlyPoints DEF Accessors
  <2> QED BY <1>1, <1>4, <1>5, <2>4, <2>8, InnerStep, UndisturbedIf
<1>6. CASE ip = 2
  <2>1. Current = PopTo("rbx")
    BY <1>1, <1>4, <1>6, Facts
  <2>2. Left(1) /\ st = <<>> /\ Represents(A(2), reg["rax"])
    BY <1>1, <1>6, Facts DEF Points, AtLoads
  <2>3. Len(mem) >= 2 /\ Represents(A(1), mem[Len(mem)])
    BY <1>2, <1>3, <2>2, LeftTop
  <2>4. /\ Advances /\ UNCHANGED <<store, st, flags>> /\ Shrinks(1) /\ MachineTyped'
        /\ reg'["rbx"] = mem[Len(mem)] /\ \A q \in Registers \ {"rbx"} : reg'[q] = reg[q]
    BY <1>2, <2>1, <2>3, RunPopRegister, RegisterNames
  <2>5. Left(0)'
    BY <1>2, <1>3, <2>2, <2>4, LeftPops
  <2>6. st' = <<>> /\ ip' = 3 /\ op' = op /\ A(2)' = A(2) /\ A(1)' = A(1)
    BY <1>6, <2>2, <2>4, SameCall DEF Advances, Advance, Same
  <2>7. reg'["rax"] = reg["rax"]
    BY <2>4, RegisterNames
  <2>8. AtLoads'
    BY <2>2, <2>3, <2>4, <2>5, <2>6, <2>7 DEF AtLoads
  <2>9. Points'
    BY <2>6, <2>8, OnlyPoints DEF Accessors
  <2> QED BY <1>1, <1>4, <1>6, <2>4, <2>9, InnerStep, UndisturbedIf
<1>7. CASE ip = 3
  <2>1. Current = Ins("movq", "rbx", "(%rax)")
    BY <1>1, <1>4, <1>7, Facts
  <2>2. Left(0) /\ st = <<>> /\ Represents(A(1), reg["rbx"]) /\ Represents(A(2), reg["rax"])
    BY <1>1, <1>7, Facts DEF Points, AtLoads
  <2>3. A(1).type = op.type /\ A(2).type = op.dest
    BY <1>2, <1>3 DEF Slots
  <2>4. V(2) = reg["rax"]
    <3>1. op.dest \notin {BOOL, CHAR}
      BY <1>2, TypeNumbers
    <3> QED BY <2>2, <2>3, <3>1, Meant DEF V
  <2>5. V(1) = Denotes(op.type, reg["rbx"]) /\ Sound(op.type, reg["rbx"])
    BY <2>2, <2>3 DEF Represents, V
  <2>6. \A v \in DOMAIN AddressOf : AddressOf[v] = reg["rax"] => VarType[v] = op.type
    <3>1. reg["rax"] = 0 \/ \E u \in DOMAIN VarType : VarType[u] = PointsTo[op.dest] /\ reg["rax"] = AddressOf[u]
      BY <1>2, <2>2, <2>3 DEF Represents, Sound
    <3> QED BY <1>2, <3>1, ProgramAssumption, MemoryAssumption
  <2>7. CASE Stop("fault")
    BY <2>7, Stays
  <2>8. CASE /\ Advances /\ UNCHANGED <<reg, mem, st, flags>> /\ MachineTyped'
             /\ IsMapped(reg["rax"]) /\ store' = [store EXCEPT ![Target(reg["rax"])] = reg["rbx"]]
    <3>1. PICK v \in DOMAIN AddressOf : AddressOf[v] = reg["rax"]
      BY <2>8 DEF IsMapped
    <3>2. Target(reg["rax"]) = v /\ v \in DOMAIN VarType
      BY <3>1, Targets, ProgramAssumption
    <3>3. Popped[1] = V(1) /\ Popped[2] = V(2)
      BY <1>3 DEF Popped
    <3>4. Was!Assigned(op, Popped) = [u \in DOMAIN VarType |-> IF AddressOf[u] = V(2) THEN V(1) ELSE before.variables[u]]
      BY <3>3 DEF Was!Assigned
    <3>5. \A u \in DOMAIN VarType : AddressOf[u] = V(2) <=> u = v
      BY <2>4, <3>1, MemoryAssumption, ProgramAssumption
    <3>6. store' = [store EXCEPT ![v] = reg["rbx"]] /\ DOMAIN store = DOMAIN VarType
      BY <1>2, <2>8, <3>2, ProgramAssumption DEF MachineTyped
    <3>7. \A u \in DOMAIN VarType : Denotes(VarType[u], store'[u]) = IF u = v THEN V(1) ELSE before.variables[u]
      BY <1>2, <2>5, <2>6, <3>1, <3>6 DEF Unassigned, Stored
    <3>8. Stored' = Was!Assigned(op, Popped)
      BY <3>4, <3>5, <3>7 DEF Stored
    <3>9. Left(0)' /\ st' = <<>> /\ Undisturbed
      BY <2>2, <2>8, LeftStays, UndisturbedIf
    <3> QED BY <1>4, <1>7, <2>8, <3>8, <3>9, StoreStep
  <2> QED BY <1>2, <2>1, <2>5, <2>6, <2>7, <2>8, RunStorePointed
<1> QED BY <1>2, <1>4, <1>5, <1>6, <1>7

\* The last instruction replaces the top of the stack.
LEMMA ReplacesTop ==
  ASSUME IInv, Within, op.call # "none", Same, ip = Len(Code(op)), ~Callers,
         op.call \notin {"function_call_param", "store_variable", "store_value_to_pointer"},
         Advances, UNCHANGED <<reg, store>>, MachineTyped', st' = <<>>,
         Left(1), Keeps(Len(mem) - 1), Len(mem') = Len(mem), Len(Leaves(op)) = 1,
         NEW w, mem'[Len(mem)] = w, Sound(Leaves(op)[1], w),
         Defects \subseteq {"immediate"} =>
           \E v \in Was!Values(op, Popped) : Denotes(Leaves(op)[1], w) = Was!Kept(Leaves(op)[1], v)
  PROVE  IInv'
<1>1. Base \in Nat /\ Base' = Base /\ before' = before
  BY SameCall DEF IInv, Slots, Same
<1>2. Len(mem) = 2 + Base
  BY <1>1 DEF Left
<1>3. Intact(Base)'
  <2>1. \A i \in 1 .. Base : Represents(before.stack[i], mem[i + 1])
    BY <1>1 DEF Left, Intact
  <2>2. \A i \in 1 .. Base : mem'[i + 1] = mem[i + 1]
    BY <1>1, <1>2 DEF Keeps
  <2> QED BY <1>1, <1>2, <2>1, <2>2 DEF Intact
<1>4. Len(mem') = 1 + Base + Len(Leaves(op)) /\ Top' = w
  BY <1>1, <1>2 DEF Top
<1>5. Yields'
  BY <1>4, YieldsIf
<1> QED BY <1>3, <1>4, <1>5, UndisturbedIf, LastStep

LEMMA Negation ==
  ASSUME IInv, Within, Execute, Same, op.call = "alu_not_bool"
  PROVE  IInv'
<1>1. op.call # "none" /\ ~Callers
  BY DEF Callers
<1>2. op.type = BOOL /\ MachineTyped /\ Slots
  BY <1>1, Facts DEF WellFormed
<1>3. ip = 1 /\ Len(Code(op)) = 1 /\ Current = Ins("notq", NoName, "(%rsp)")
  BY <1>1, Facts, CodeOfLoads
<1>4. /\ Expects(op) = <<BOOL>> /\ Leaves(op) = <<BOOL>> /\ Len(<<BOOL>>) = 1 /\ <<BOOL>>[1] = BOOL
  BY <1>2, Shapes
<1>5. Left(1) /\ st = <<>>
  BY <1>1, <1>3, <1>4, Facts DEF Points, AtStart
<1>6. Len(mem) >= 2 /\ Represents(A(1), mem[Len(mem)]) /\ A(1).type = BOOL
  BY <1>2, <1>4, <1>5, LeftTop
<1>7. \/ mem[Len(mem)] = 0 /\ V(1) = 0
      \/ mem[Len(mem)] = AllOnes /\ V(1) = 1
  BY <1>6, Meant DEF V
<1> DEFINE w == AllOnes - mem[Len(mem)]
<1>8. /\ Advances /\ UNCHANGED <<reg, store, st, flags>> /\ MachineTyped'
      /\ Keeps(Len(mem) - 1) /\ Len(mem') = Len(mem) /\ mem'[Len(mem)] = w
  BY <1>2, <1>3, <1>6, RunNot
<1>9. \/ w = AllOnes /\ V(1) = 0
      \/ w = 0 /\ V(1) = 1
  BY <1>7, ModulusFacts, WordNat
<1> HIDE DEF w
<1>10. Sound(BOOL, w)
  BY <1>9, ModulusFacts, TypeNumbers DEF Sound
<1>11. \E v \in Was!Values(op, Popped) : Denotes(BOOL, w) = Was!Kept(BOOL, v)
  <2>1. Popped[1] = V(1)
    BY <1>4 DEF Popped
  <2>2. 1 - V(1) \in Was!Values(op, Popped)
    BY <2>1, ValuesOf
  <2>3. Denotes(BOOL, w) = 1 - V(1)
    BY <1>9, ModulusFacts, TypeNumbers DEF Denotes
  <2>4. Was!Kept(BOOL, 1 - V(1)) = 1 - V(1)
    BY WasNames, TypeNumbers DEF Was!Kept
  <2> QED BY <2>2, <2>3, <2>4
<1> QED BY <1>1, <1>3, <1>4, <1>5, <1>8, <1>10, <1>11, ReplacesTop

(***************************************************************************)
(* Integers and Booleans.                                                  *)
(***************************************************************************)
LEMMA CodeOfIntegerComparison ==
  ASSUME NEW o, o.call \in Compares, o.type # DOUBLE
  PROVE  /\ Len(Code(o)) = 9
         /\ Code(o)[1] = PopTo("rbx") /\ Code(o)[2] = PopTo("rax") /\ Code(o)[3] = Ins("cmpq", "rbx", "rax")
         /\ Code(o)[4] = Tag(JumpIf[o.call], "__true", o.n)
         /\ Code(o)[5] = Imm("pushq", 0, NoName) /\ Code(o)[6] = Tag("jmp", "__next", o.n)
         /\ Code(o)[7] = Tag("label", "__true", o.n) /\ Code(o)[8] = Imm("pushq", AllOnes, NoName)
         /\ Code(o)[9] = Tag("label", "__next", o.n)
<1> DEFINE k == IF o.type = DOUBLE THEN 6 ELSE 4
<1>1. k = 4
  OBVIOUS
<1>2. /\ Len(Code(o)) = k + 5
      /\ Code(o)[1] = PopTo("rbx") /\ Code(o)[2] = PopTo("rax") /\ Code(o)[3] = Ins("cmpq", "rbx", "rax")
      /\ Code(o)[k] = Tag(JumpIf[o.call], "__true", o.n)
      /\ Code(o)[k + 1] = Imm("pushq", 0, NoName) /\ Code(o)[k + 2] = Tag("jmp", "__next", o.n)
      /\ Code(o)[k + 3] = Tag("label", "__true", o.n) /\ Code(o)[k + 4] = Imm("pushq", AllOnes, NoName)
      /\ Code(o)[k + 5] = Tag("label", "__next", o.n)
  BY CodeOfCompares, Zenon
<1> HIDE DEF k
<1>3. k + 1 = 5 /\ k + 2 = 6 /\ k + 3 = 7 /\ k + 4 = 8 /\ k + 5 = 9
  BY <1>1
<1> QED BY <1>1, <1>2, <1>3, Zenon

LEMMA CodeOfDoubleComparison ==
  ASSUME NEW o, o.call \in Compares, o.type = DOUBLE
  PROVE  /\ Len(Code(o)) = 11
         /\ Code(o)[1] = Ins("fldl", "(%rsp)", NoName) /\ Code(o)[2] = Ins("fldl", "8(%rsp)", NoName)
         /\ Code(o)[3] = Imm("addq", 2, "rsp")
         /\ Code(o)[4] = Ins("fcomip", NoName, NoName) /\ Code(o)[5] = Ins("fstp", NoName, NoName)
         /\ Code(o)[6] = Tag(JumpIf[o.call], "__true", o.n)
         /\ Code(o)[7] = Imm("pushq", 0, NoName) /\ Code(o)[8] = Tag("jmp", "__next", o.n)
         /\ Code(o)[9] = Tag("label", "__true", o.n) /\ Code(o)[10] = Imm("pushq", AllOnes, NoName)
         /\ Code(o)[11] = Tag("label", "__next", o.n)
<1> DEFINE k == IF o.type = DOUBLE THEN 6 ELSE 4
<1>1. k = 6
  OBVIOUS
<1>2. /\ Len(Code(o)) = k + 5
      /\ Code(o)[1] = Ins("fldl", "(%rsp)", NoName) /\ Code(o)[2] = Ins("fldl", "8(%rsp)", NoName)
      /\ Code(o)[3] = Imm("addq", 2, "rsp")
      /\ Code(o)[4] = Ins("fcomip", NoName, NoName) /\ Code(o)[5] = Ins("fstp", NoName, NoName)
      /\ Code(o)[k] = Tag(JumpIf[o.call], "__true", o.n)
      /\ Code(o)[k + 1] = Imm("pushq", 0, NoName) /\ Code(o)[k + 2] = Tag("jmp", "__next", o.n)
      /\ Code(o)[k + 3] = Tag("label", "__true", o.n) /\ Code(o)[k + 4] = Imm("pushq", AllOnes, NoName)
      /\ Code(o)[k + 5] = Tag("label", "__next", o.n)
  BY CodeOfCompares, Zenon
<1> HIDE DEF k
<1>3. k + 1 = 7 /\ k + 2 = 8 /\ k + 3 = 9 /\ k + 4 = 10 /\ k + 5 = 11
  BY <1>1
<1> QED BY <1>1, <1>2, <1>3, Zenon

LEMMA IntegerShapes ==
  ASSUME IInv, Within, op.call # "none", IntegerBinop
  PROVE  /\ Expects(op) = <<op.type, op.type>> /\ Len(Expects(op)) = 2 /\ ~Callers
         /\ op.type \in {UNSIGNED_INT, BOOL} /\ (op.type = BOOL <=> op.call \in Bools)
         /\ Code(op)[1] = PopTo("rbx") /\ Code(op)[2] = PopTo("rax") /\ Len(Code(op)) >= 4
         /\ op.call \notin {"function_call_param", "store_variable", "store_value_to_pointer"}
<1>1. op.call \in ArithmeticCalls \cup Bools \cup Compares /\ op.type # DOUBLE /\ WellFormed(op)
  BY Facts DEF IntegerBinop
<1>2. Expects(op) = <<op.type, op.type>> /\ Len(<<op.type, op.type>>) = 2
  BY <1>1, Shapes
<1>3. ~Callers /\ op.call \notin {"function_call_param", "store_variable", "store_value_to_pointer"}
  BY <1>1 DEF Callers, ArithmeticCalls, Bools, Compares
<1>4. op.type \in {UNSIGNED_INT, BOOL} /\ (op.type = BOOL <=> op.call \in Bools)
  BY <1>1, TypeNumbers DEF WellFormed, ArithmeticCalls, Bools, Compares
<1>5. Code(op)[1] = PopTo("rbx") /\ Code(op)[2] = PopTo("rax") /\ Len(Code(op)) >= 4
  <2>1. CASE op.call \in Compares
    <3>1. Len(Code(op)) = 9 /\ Code(op)[1] = PopTo("rbx") /\ Code(op)[2] = PopTo("rax")
      BY <1>1, <2>1, CodeOfIntegerComparison, Zenon
    <3> QED BY <3>1
  <2>2. CASE op.call \in ArithmeticCalls \cup Bools
    BY <1>1, <2>2, CodeOfIntegers DEF ArithmeticCalls, Bools
  <2> QED BY <1>1, <2>1, <2>2
<1> QED BY <1>2, <1>3, <1>4, <1>5

LEMMA IntegerPoints ==
  ASSUME Same, IntegerBinop, ip' \in {2, 3, 4, 5}, op.call \notin Compares \/ ip' \in {2, 3}, AtIntegers'
  PROVE  Points'
<1>1. op.call \in ArithmeticCalls \cup Bools \cup Compares /\ op.type # DOUBLE
  BY DEF IntegerBinop
<1>2. CASE op.call \in Compares
  <2>1. op' = op /\ Branch' = 4
    BY <1>1, <1>2, SameCall DEF Same, Branch
  <2>2. AtCompares'
    BY <1>1, <1>2, <2>1 DEF AtCompares
  <2> QED BY <1>1, <1>2, <2>2, OnlyPoints
<1>3. CASE op.call \in ArithmeticCalls \cup Bools
  BY <1>1, <1>3, OnlyPoints
<1> QED BY <1>1, <1>2, <1>3

LEMMA IntegerPops ==
  ASSUME IInv, Within, Execute, Same, op.call # "none", IntegerBinop, ip \in {1, 2}
  PROVE  IInv'
<1>1. MachineTyped /\ Slots
  BY Facts
<1>2. /\ Expects(op) = <<op.type, op.type>> /\ Len(Expects(op)) = 2 /\ ~Callers
      /\ Code(op)[1] = PopTo("rbx") /\ Code(op)[2] = PopTo("rax") /\ Len(Code(op)) >= 4
  BY IntegerShapes
<1>3. op' = op /\ IntegerBinop' /\ A(1)' = A(1) /\ A(2)' = A(2)
  BY SameCall DEF Same
<1>4. CASE ip = 1
  <2>1. Current = PopTo("rbx")
    BY <1>2, <1>4, Facts
  <2>2. Left(2) /\ st = <<>>
    BY <1>2, <1>4, Facts DEF Points, AtStart
  <2>3. Len(mem) >= 2 /\ Represents(A(2), mem[Len(mem)])
    BY <1>1, <1>2, <2>2, LeftTop
  <2>4. /\ Advances /\ UNCHANGED <<store, st, flags>> /\ Shrinks(1) /\ MachineTyped'
        /\ reg'["rbx"] = mem[Len(mem)] /\ \A q \in Registers \ {"rbx"} : reg'[q] = reg[q]
    BY <1>1, <2>1, <2>3, RunPopRegister, RegisterNames
  <2>5. Left(1)'
    BY <1>1, <1>2, <2>2, <2>4, LeftPops
  <2>6. st' = <<>> /\ ip' = 2
    BY <1>4, <2>2, <2>4 DEF Advances, Advance
  <2>7. AtIntegers'
    BY <1>3, <2>3, <2>4, <2>5, <2>6 DEF AtIntegers
  <2>8. Points'
    BY <2>6, <2>7, IntegerPoints
  <2>9. ip < Len(Code(op))
    BY <1>2, <1>4
  <2> QED BY <1>2, <2>4, <2>8, <2>9, InnerStep, UndisturbedIf
<1>5. CASE ip = 2
  <2>1. Current = PopTo("rax")
    BY <1>2, <1>5, Facts
  <2>2. Left(1) /\ st = <<>> /\ Represents(A(2), reg["rbx"])
    BY <1>5, Facts DEF Points, AtIntegers
  <2>3. Len(mem) >= 2 /\ Represents(A(1), mem[Len(mem)])
    BY <1>1, <1>2, <2>2, LeftTop
  <2>4. /\ Advances /\ UNCHANGED <<store, st, flags>> /\ Shrinks(1) /\ MachineTyped'
        /\ reg'["rax"] = mem[Len(mem)] /\ \A q \in Registers \ {"rax"} : reg'[q] = reg[q]
    BY <1>1, <2>1, <2>3, RunPopRegister, RegisterNames
  <2>5. Left(0)'
    BY <1>1, <1>2, <2>2, <2>4, LeftPops
  <2>6. st' = <<>> /\ ip' = 3
    BY <1>5, <2>2, <2>4 DEF Advances, Advance
  <2>7. reg'["rbx"] = reg["rbx"]
    BY <2>4, RegisterNames
  <2>8. AtIntegers'
    BY <1>3, <2>2, <2>3, <2>4, <2>5, <2>6, <2>7 DEF AtIntegers
  <2>9. Points'
    BY <2>6, <2>8, IntegerPoints
  <2>10. ip < Len(Code(op))
    BY <1>2, <1>5
  <2> QED BY <1>2, <2>4, <2>9, <2>10, InnerStep, UndisturbedIf
<1> QED BY <1>4, <1>5

LEMMA IntegerComputes ==
  ASSUME IInv, Within, Execute, Same, op.call \in ArithmeticCalls \cup Bools, op.type # DOUBLE,
         ip = 3 \/ (ip = 4 /\ op.call \in Divisions)
  PROVE  IInv'
<1>1. op.call # "none" /\ IntegerBinop
  BY DEF IntegerBinop, ArithmeticCalls, Bools
<1>2. MachineTyped /\ Slots /\ Control
  BY <1>1, Facts
<1>3. ~Callers /\ Len(Code(op)) >= 4
  BY <1>1, IntegerShapes
<1>4. op' = op /\ IntegerBinop' /\ A(1)' = A(1) /\ A(2)' = A(2)
  BY <1>1, SameCall DEF Same
<1>5. Left(0) /\ st = <<>> /\ Represents(A(1), reg["rax"]) /\ Represents(A(2), reg["rbx"])
  BY <1>1, Facts DEF Points, AtIntegers
<1>6. {"rax", "rbx", "rdx"} \subseteq Registers \ {"rbp", "r12"} /\ reg["rax"] \in Word /\ reg["rbx"] \in Word
  BY <1>2, RegisterNames DEF MachineTyped
<1>7. op.call \in {"alu_multiply"} \cup Divisions => PassedTypes = <<>>
  BY <1>2 DEF Control, ChangesArguments, PassedTypes, Divisions
<1>8. op.call \notin Compares
  BY DEF ArithmeticCalls, Bools, Compares
\* The instruction leaves the result in %rax, and at most %rbx and %rdx to change.
<1>9. ASSUME Advances, UNCHANGED <<mem, store, st>>, MachineTyped', Undisturbed,
             ip < Len(Code(op)), ip = (IF op.call \in Divisions THEN 4 ELSE 3),
             \E x \in Word, y \in Word :
               /\ Represents(A(1), x) /\ Represents(A(2), y) /\ (op.call \in Divisions => y # 0)
               /\ reg'["rax"] = Outcome(x, y)
      PROVE  IInv'
  <2>1. Left(0)' /\ st' = <<>>
    BY <1>5, <1>9, LeftStays
  <2>2. ip' = (IF op.call \in Divisions THEN 5 ELSE 4)
    BY <1>9 DEF Advances, Advance
  <2>3. \A x, y : Outcome(x, y)' = Outcome(x, y)
    BY <1>4 DEF Outcome
  <2>4. \E x \in Word, y \in Word :
          /\ Represents(A(1)', x) /\ Represents(A(2)', y) /\ (op'.call \in Divisions => y # 0)
          /\ reg'["rax"] = Outcome(x, y)'
    BY <1>4, <1>9, <2>3
  <2>5. AtIntegers'
    BY <1>4, <1>8, <2>1, <2>2, <2>4 DEF AtIntegers, Divisions
  <2>6. Points'
    BY <1>1, <1>8, <2>2, <2>5, IntegerPoints
  <2> QED BY <1>1, <1>3, <1>9, <2>6, InnerStep
<1>10. CASE op.call \notin Divisions
  <2>1. ip = 3 /\ ip < Len(Code(op)) /\ ip = (IF op.call \in Divisions THEN 4 ELSE 3)
    BY <1>3, <1>10
  <2>2. CASE op.call = "alu_add"
    <3>1. Current = Ins("addq", "rbx", "rax")
      BY <1>1, <2>1, <2>2, Facts, CodeOfIntegers
    <3>2. /\ Advances /\ UNCHANGED <<mem, store, st, flags>> /\ MachineTyped'
          /\ reg'["rax"] = Wrap(reg["rax"] + reg["rbx"]) /\ \A p \in Registers \ {"rax"} : reg'[p] = reg[p]
      BY <1>2, <1>6, <3>1, RunAluRegisters
    <3>3. reg'["rax"] = Outcome(reg["rax"], reg["rbx"])
      BY <2>2, <3>2 DEF Outcome, Divisions
    <3> QED BY <1>5, <1>6, <1>9, <1>10, <2>1, <3>2, <3>3, UndisturbedIf
  <2>3. CASE op.call = "alu_sub"
    <3>1. Current = Ins("subq", "rbx", "rax")
      BY <1>1, <2>1, <2>3, Facts, CodeOfIntegers
    <3>2. /\ Advances /\ UNCHANGED <<mem, store, st, flags>> /\ MachineTyped'
          /\ reg'["rax"] = Wrap(reg["rax"] - reg["rbx"]) /\ \A p \in Registers \ {"rax"} : reg'[p] = reg[p]
      BY <1>2, <1>6, <3>1, RunAluRegisters
    <3>3. reg'["rax"] = Outcome(reg["rax"], reg["rbx"])
      BY <2>3, <3>2 DEF Outcome, Divisions
    <3> QED BY <1>5, <1>6, <1>9, <1>10, <2>1, <3>2, <3>3, UndisturbedIf
  <2>4. CASE op.call = "alu_multiply"
    <3>1. Current = Ins("mulq", "rbx", NoName)
      BY <1>1, <2>1, <2>4, Facts, CodeOfIntegers
    <3>2. /\ Advances /\ UNCHANGED <<mem, store, st, flags>> /\ MachineTyped'
          /\ reg'["rax"] = Wrap(reg["rax"] * reg["rbx"]) /\ \A p \in Registers \ {"rax", "rdx"} : reg'[p] = reg[p]
      BY <1>2, <3>1, RunMultiply
    <3>3. reg'["rax"] = Outcome(reg["rax"], reg["rbx"])
      BY <2>4, <3>2 DEF Outcome, Divisions
    <3>4. Undisturbed
      BY <1>7, <2>4, <3>2, RegisterNames DEF Undisturbed
    <3> QED BY <1>5, <1>6, <1>9, <1>10, <2>1, <3>2, <3>3, <3>4
  <2>5. CASE op.call = "alu_and_bool"
    <3>1. Current = Ins("andq", "rax", "rbx")
      BY <1>1, <2>1, <2>5, Facts, CodeOfIntegers
    <3>2. /\ Advances /\ UNCHANGED <<mem, store, st, flags>> /\ MachineTyped'
          /\ \A p \in Registers \ {"rbx"} : reg'[p] = reg[p]
      BY <1>2, <1>6, <3>1, RunAluRegisters
    <3>3. reg'["rax"] = Outcome(reg["rax"], reg["rbx"])
      BY <1>6, <2>5, <3>2, RegisterNames DEF Outcome, Divisions
    <3> QED BY <1>5, <1>6, <1>9, <1>10, <2>1, <3>2, <3>3, UndisturbedIf
  <2>6. CASE op.call = "alu_or_bool"
    <3>1. Current = Ins("orq", "rbx", "rax")
      BY <1>1, <2>1, <2>6, Facts, CodeOfIntegers
    <3>2. /\ Advances /\ UNCHANGED <<mem, store, st, flags>> /\ MachineTyped'
          /\ reg'["rax"] = BitOr(reg["rax"], reg["rbx"]) /\ \A p \in Registers \ {"rax"} : reg'[p] = reg[p]
      BY <1>2, <1>6, <3>1, RunAluRegisters
    <3>3. reg'["rax"] = Outcome(reg["rax"], reg["rbx"])
      BY <2>6, <3>2 DEF Outcome, Divisions
    <3> QED BY <1>5, <1>6, <1>9, <1>10, <2>1, <3>2, <3>3, UndisturbedIf
  <2> QED BY <1>10, <2>2, <2>3, <2>4, <2>5, <2>6 DEF ArithmeticCalls, Bools, Divisions
<1>11. CASE op.call \in Divisions
  <2>1. Len(Code(op)) = 5 /\ Code(op)[3] = Imm("movq", 0, "rdx") /\ Code(op)[4] = Ins("div", "rbx", NoName)
    BY <1>11, CodeOfIntegers DEF Divisions
  <2>2. CASE ip = 3
    <3>1. Current = Imm("movq", 0, "rdx")
      BY <1>1, <2>1, <2>2, Facts
    <3>2. /\ Advances /\ UNCHANGED <<mem, store, st, flags>> /\ MachineTyped'
          /\ reg'["rdx"] = 0 /\ \A p \in Registers \ {"rdx"} : reg'[p] = reg[p]
      BY <1>2, <1>6, <3>1, RunMoveImmediate, ModulusFacts
    <3>3. Left(0)' /\ st' = <<>> /\ ip' = 4 /\ reg'["rax"] = reg["rax"] /\ reg'["rbx"] = reg["rbx"]
      BY <1>5, <1>6, <2>2, <3>2, LeftStays DEF Advances, Advance
    <3>4. AtIntegers'
      BY <1>4, <1>5, <1>11, <3>2, <3>3 DEF AtIntegers
    <3>5. Points'
      BY <1>1, <1>8, <3>3, <3>4, IntegerPoints
    <3>6. Undisturbed
      BY <1>7, <1>11, <3>2, RegisterNames DEF Undisturbed
    <3> QED BY <1>1, <1>3, <2>1, <2>2, <3>2, <3>5, <3>6, InnerStep
  <2>3. CASE ip = 4
    <3>1. Current = Ins("div", "rbx", NoName)
      BY <1>1, <2>1, <2>3, Facts
    <3>2. reg["rdx"] = 0
      BY <1>1, <1>11, <2>3, Facts DEF Points, AtIntegers
    <3>3. CASE Stop("fault")
      BY <3>3, Stays
    <3>4. CASE /\ Advances /\ UNCHANGED <<mem, store, st, flags>> /\ MachineTyped'
               /\ reg["rbx"] # 0 /\ reg'["rax"] = reg["rax"] \div reg["rbx"]
               /\ \A q \in Registers \ {"rax", "rdx"} : reg'[q] = reg[q]
      <4>1. reg'["rax"] = Outcome(reg["rax"], reg["rbx"])
        BY <1>11, <3>4 DEF Outcome, Divisions
      <4>2. Undisturbed
        BY <1>7, <1>11, <3>4, RegisterNames DEF Undisturbed
      <4> QED BY <1>5, <1>6, <1>9, <1>11, <2>1, <2>3, <3>4, <4>1, <4>2
    <3> QED BY <1>2, <3>1, <3>2, <3>3, <3>4, RunDivide
  <2> QED BY <2>2, <2>3
<1> QED BY <1>10, <1>11

LEMMA IntegerPushes ==
  ASSUME IInv, Within, Execute, Same, op.call \in ArithmeticCalls \cup Bools, op.type # DOUBLE,
         ip = IF op.call \in Divisions THEN 5 ELSE 4
  PROVE  IInv'
<1>1. op.call # "none" /\ IntegerBinop /\ op.call \notin Compares
  BY DEF IntegerBinop, ArithmeticCalls, Bools, Compares
<1>2. MachineTyped /\ Slots /\ Careful
  BY <1>1, Facts
<1>3. /\ Expects(op) = <<op.type, op.type>> /\ Len(Expects(op)) = 2 /\ ~Callers
      /\ op.type \in {UNSIGNED_INT, BOOL} /\ (op.type = BOOL <=> op.call \in Bools)
      /\ op.call \notin {"function_call_param", "store_variable", "store_value_to_pointer"}
  BY <1>1, IntegerShapes
<1>4. Leaves(op) = <<op.type>> /\ Len(Leaves(op)) = 1 /\ Leaves(op)[1] = op.type
  BY Shapes
<1>5. Left(0) /\ st = <<>>
  BY <1>1, Facts DEF Points, AtIntegers
<1>6. PICK x \in Word, y \in Word :
        /\ Represents(A(1), x) /\ Represents(A(2), y)
        /\ op.call \in Divisions => y # 0
        /\ reg["rax"] = Outcome(x, y)
  BY <1>1, Facts DEF Points, AtIntegers
<1>7. A(1).type = op.type /\ A(2).type = op.type /\ Popped[1] = V(1) /\ Popped[2] = V(2)
  BY <1>2, <1>3 DEF Slots, Popped
<1>8. reg["rax"] \in Word
  BY <1>2, RegisterNames DEF MachineTyped
<1>9. ip = Len(Code(op)) /\ Current = Push("rax")
  <2>1. CASE op.call \in Divisions
    BY <1>1, <2>1, CodeOfIntegers, Facts DEF Divisions
  <2>2. CASE op.call \notin Divisions
    BY <1>1, <2>2, CodeOfIntegers, Facts DEF Divisions, ArithmeticCalls, Bools
  <2> QED BY <2>1, <2>2
<1>10. OnlyStack /\ Grows(reg["rax"]) /\ MachineTyped'
  BY <1>2, <1>9, RunPushRegister, RegisterNames
<1>11. CASE op.type = UNSIGNED_INT
  <2>1. V(1) = x /\ V(2) = y
    BY <1>6, <1>7, <1>11, TypeNumbers, Meant DEF V
  <2>2. Sound(op.type, reg["rax"])
    BY <1>8, <1>11, TypeNumbers DEF Sound
  <2>3. ASSUME Defects \subseteq {"immediate"}
        PROVE  \E v \in Was!Values(op, Popped) : Denotes(op.type, reg["rax"]) = Was!Kept(op.type, v)
    <3>1. op.call \in {"alu_add", "alu_sub", "alu_multiply", "alu_divide"}
      BY <1>2, <1>3, <1>11, <2>3, TypeNumbers DEF Careful, ArithmeticCalls, Bools
    <3>2. op.call = "alu_divide" => V(2) # 0
      BY <1>6, <2>1 DEF Divisions
    <3>3. Was!Values(op, Popped) = {Outcome(x, y)}
      BY <1>7, <2>1, <3>1, <3>2, ValuesOf DEF Outcome, Divisions
    <3>4. Denotes(op.type, reg["rax"]) = reg["rax"] /\ Was!Kept(op.type, reg["rax"]) = reg["rax"]
      BY <1>11, TypeNumbers, WasNames DEF Denotes, Was!Kept
    <3> QED BY <1>6, <3>3, <3>4
  <2> QED BY <1>1, <1>3, <1>4, <1>5, <1>9, <1>10, <2>2, <2>3, PushesResult
<1>12. CASE op.type = BOOL
  <2>1. /\ (x = 0 /\ V(1) = 0) \/ (x = AllOnes /\ V(1) = 1)
        /\ (y = 0 /\ V(2) = 0) \/ (y = AllOnes /\ V(2) = 1)
    BY <1>6, <1>7, <1>12, Meant DEF V
  <2>2. op.call \in Bools
    BY <1>3, <1>12
  <2>3. BitOr(x, y) = IF V(1) + V(2) > 0 THEN AllOnes ELSE 0
    BY <2>1, BitwiseAssumption
  <2>4. reg["rax"] \in {0, AllOnes}
    BY <1>6, <2>1, <2>2, <2>3 DEF Outcome, Bools, Divisions
  <2>5. Sound(op.type, reg["rax"])
    BY <1>8, <1>12, <2>4, TypeNumbers DEF Sound
  <2>6. ASSUME Defects \subseteq {"immediate"}
        PROVE  \E v \in Was!Values(op, Popped) : Denotes(op.type, reg["rax"]) = Was!Kept(op.type, v)
    <3>1. op.call = "alu_or_bool"
      BY <1>2, <2>2, <2>6 DEF Careful, Bools
    <3>2. reg["rax"] = IF V(1) + V(2) > 0 THEN AllOnes ELSE 0
      BY <1>6, <2>3, <3>1 DEF Outcome, Divisions
    <3>3. Was!Values(op, Popped) = {IF V(1) + V(2) > 0 THEN 1 ELSE 0}
      BY <1>7, <3>1, ValuesOf
    <3>4. Denotes(op.type, reg["rax"]) = IF V(1) + V(2) > 0 THEN 1 ELSE 0
      BY <1>12, <3>2, ModulusFacts, TypeNumbers DEF Denotes
    <3>5. Was!Kept(op.type, Denotes(op.type, reg["rax"])) = Denotes(op.type, reg["rax"])
      BY <2>5, KeptDenotes
    <3> QED BY <3>3, <3>4, <3>5
  <2> QED BY <1>1, <1>3, <1>4, <1>5, <1>9, <1>10, <2>5, <2>6, PushesResult
<1> QED BY <1>3, <1>11, <1>12

LEMMA IntegerOperation ==
  ASSUME IInv, Within, Execute, Same, op.call \in ArithmeticCalls \cup Bools, op.type # DOUBLE
  PROVE  IInv'
<1>1. op.call # "none" /\ IntegerBinop
  BY DEF IntegerBinop, ArithmeticCalls, Bools
<1>2. ip \in 1 .. Len(Code(op))
  BY <1>1, Facts
<1>3. Len(Code(op)) = IF op.call \in Divisions THEN 5 ELSE 4
  <2>1. CASE op.call \in Divisions
    BY <1>1, <2>1, CodeOfIntegers DEF Divisions
  <2>2. CASE op.call \notin Divisions
    BY <1>1, <2>2, CodeOfIntegers DEF Divisions, ArithmeticCalls, Bools
  <2> QED BY <2>1, <2>2
<1>4. ip \in {1, 2, 3} \/ (ip = 4 /\ op.call \in Divisions) \/ ip = IF op.call \in Divisions THEN 5 ELSE 4
  BY <1>2, <1>3
<1> QED BY <1>1, <1>4, IntegerPops, IntegerComputes, IntegerPushes

(***************************************************************************)
(* Comparisons: where the jump is, it tells what the comparison yields.    *)
(***************************************************************************)
LEMMA Jumps ==
  /\ JumpIf["alu_equal"] = "je" /\ JumpIf["alu_not_equal"] = "jne"
  /\ JumpIf["alu_greater_equal"] = "jae" /\ JumpIf["alu_lower_equal"] = "jbe"
  /\ JumpIf["alu_greater"] = "ja" /\ JumpIf["alu_lower"] = "jb"
BY DEF JumpIf

LEMMA OnlyLabels ==
  ASSUME NEW o, o.call \in Compares, NEW k, k = IF o.type = DOUBLE THEN 6 ELSE 4
  PROVE  \A j \in 1 .. Len(Code(o)) : Code(o)[j].op = "label" =>
           (j = k + 3 /\ Code(o)[j].src = "__true") \/ (j = k + 5 /\ Code(o)[j].src = "__next")
<1>1. JumpIf[o.call] # "label"
  BY Jumps DEF Compares
<1>2. CASE o.type = DOUBLE
  <2>1. /\ Len(Code(o)) = 11
        /\ Code(o)[1] = Ins("fldl", "(%rsp)", NoName) /\ Code(o)[2] = Ins("fldl", "8(%rsp)", NoName)
        /\ Code(o)[3] = Imm("addq", 2, "rsp")
        /\ Code(o)[4] = Ins("fcomip", NoName, NoName) /\ Code(o)[5] = Ins("fstp", NoName, NoName)
        /\ Code(o)[6] = Tag(JumpIf[o.call], "__true", o.n)
        /\ Code(o)[7] = Imm("pushq", 0, NoName) /\ Code(o)[8] = Tag("jmp", "__next", o.n)
        /\ Code(o)[9] = Tag("label", "__true", o.n) /\ Code(o)[10] = Imm("pushq", AllOnes, NoName)
        /\ Code(o)[11] = Tag("label", "__next", o.n)
    BY <1>2, CodeOfDoubleComparison, Zenon
  <2>2. \A j \in 1 .. 11 : Code(o)[j].op = "label" => j = 9 \/ j = 11
    BY <1>1, <2>1 DEF Ins, Imm, Tag
  <2>3. Code(o)[9].src = "__true" /\ Code(o)[11].src = "__next"
    BY <2>1 DEF Tag
  <2> QED BY <1>2, <2>1, <2>2, <2>3
<1>3. CASE o.type # DOUBLE
  <2>1. /\ Len(Code(o)) = 9
        /\ Code(o)[1] = PopTo("rbx") /\ Code(o)[2] = PopTo("rax") /\ Code(o)[3] = Ins("cmpq", "rbx", "rax")
        /\ Code(o)[4] = Tag(JumpIf[o.call], "__true", o.n)
        /\ Code(o)[5] = Imm("pushq", 0, NoName) /\ Code(o)[6] = Tag("jmp", "__next", o.n)
        /\ Code(o)[7] = Tag("label", "__true", o.n) /\ Code(o)[8] = Imm("pushq", AllOnes, NoName)
        /\ Code(o)[9] = Tag("label", "__next", o.n)
    BY <1>3, CodeOfIntegerComparison, Zenon
  <2>2. \A j \in 1 .. 9 : Code(o)[j].op = "label" => j = 7 \/ j = 9
    BY <1>1, <2>1 DEF Ins, Imm, Tag, PopTo
  <2>3. Code(o)[7].src = "__true" /\ Code(o)[9].src = "__next"
    BY <2>1 DEF Tag
  <2> QED BY <1>3, <2>1, <2>2, <2>3
<1> QED BY <1>2, <1>3

LEMMA BranchCode ==
  ASSUME op.call \in Compares, NEW k, k = Branch
  PROVE  /\ k \in {4, 6} /\ Len(Code(op)) = k + 5
         /\ Code(op)[k] = Tag(JumpIf[op.call], "__true", op.n)
         /\ Code(op)[k + 1] = Imm("pushq", 0, NoName) /\ Code(op)[k + 2] = Tag("jmp", "__next", op.n)
         /\ Code(op)[k + 3] = Tag("label", "__true", op.n) /\ Code(op)[k + 4] = Imm("pushq", AllOnes, NoName)
         /\ Code(op)[k + 5] = Tag("label", "__next", op.n)
<1>1. CASE op.type = DOUBLE
  <2>1. k = 6
    BY <1>1 DEF Branch
  <2>2. /\ Len(Code(op)) = 11
        /\ Code(op)[6] = Tag(JumpIf[op.call], "__true", op.n)
        /\ Code(op)[7] = Imm("pushq", 0, NoName) /\ Code(op)[8] = Tag("jmp", "__next", op.n)
        /\ Code(op)[9] = Tag("label", "__true", op.n) /\ Code(op)[10] = Imm("pushq", AllOnes, NoName)
        /\ Code(op)[11] = Tag("label", "__next", op.n)
    BY <1>1, CodeOfDoubleComparison, Zenon
  <2> QED BY <2>1, <2>2
<1>2. CASE op.type # DOUBLE
  <2>1. k = 4
    BY <1>2 DEF Branch
  <2>2. /\ Len(Code(op)) = 9
        /\ Code(op)[4] = Tag(JumpIf[op.call], "__true", op.n)
        /\ Code(op)[5] = Imm("pushq", 0, NoName) /\ Code(op)[6] = Tag("jmp", "__next", op.n)
        /\ Code(op)[7] = Tag("label", "__true", op.n) /\ Code(op)[8] = Imm("pushq", AllOnes, NoName)
        /\ Code(op)[9] = Tag("label", "__next", op.n)
    BY <1>2, CodeOfIntegerComparison, Zenon
  <2> QED BY <2>1, <2>2
<1> QED BY <1>1, <1>2

LEMMA LabelsAt ==
  ASSUME code = Code(op), op.call \in Compares, NEW k, k = Branch
  PROVE  LabelAt("__true", op.n) = k + 3 /\ LabelAt("__next", op.n) = k + 5
<1>1. k = (IF op.type = DOUBLE THEN 6 ELSE 4) /\ k \in {4, 6}
  BY DEF Branch
<1>2. \A j \in 1 .. Len(code) : code[j].op = "label" =>
        (j = k + 3 /\ code[j].src = "__true") \/ (j = k + 5 /\ code[j].src = "__next")
  BY <1>1, OnlyLabels
<1>3. Len(code) = k + 5 /\ code[k + 3] = Tag("label", "__true", op.n) /\ code[k + 5] = Tag("label", "__next", op.n)
  BY BranchCode
<1>4. k + 3 \in 1 .. Len(code) /\ k + 5 \in 1 .. Len(code)
  BY <1>1, <1>3
<1>5. /\ code[k + 3].op = "label" /\ code[k + 3].src = "__true" /\ code[k + 3].n = op.n
      /\ code[k + 5].op = "label" /\ code[k + 5].src = "__next" /\ code[k + 5].n = op.n
  BY <1>3 DEF Tag
<1> QED BY <1>2, <1>4, <1>5 DEF LabelAt

LEMMA ComparePoints ==
  ASSUME Same, op.call \in Compares, ip' \in Nat, ip' >= Branch, AtCompares'
  PROVE  Points'
<1>1. op' = op /\ IntegerBinop' = IntegerBinop /\ DoubleBinop' = DoubleBinop
  BY SameCall DEF Same
<1>2. op.call \notin Divisions /\ op.call \notin Sums
  BY DEF Compares, Divisions, Sums
<1>3. CASE op.type = DOUBLE
  <2>1. ip' >= 6
    BY <1>3 DEF Branch
  <2>2. AtDoubles'
    BY <1>1, <1>2, <2>1 DEF AtDoubles
  <2> QED BY <1>3, <2>1, <2>2, OnlyPoints
<1>4. CASE op.type # DOUBLE
  <2>1. ip' >= 4
    BY <1>4 DEF Branch
  <2>2. AtIntegers'
    BY <1>1, <1>2, <2>1 DEF AtIntegers
  <2> QED BY <1>4, <2>1, <2>2, OnlyPoints
<1> QED BY <1>3, <1>4

LEMMA CompareShapes ==
  ASSUME IInv, Within, op.call \in Compares
  PROVE  /\ op.call # "none" /\ Expects(op) = <<op.type, op.type>> /\ Len(Expects(op)) = 2 /\ ~Callers
         /\ Leaves(op) = <<BOOL>> /\ Len(Leaves(op)) = 1 /\ op.type \in {UNSIGNED_INT, DOUBLE}
         /\ op.call \notin {"function_call_param", "store_variable", "store_value_to_pointer"}
         /\ A(1).type = op.type /\ A(2).type = op.type /\ Popped[1] = V(1) /\ Popped[2] = V(2)
         /\ ip \in 1 .. Len(Code(op)) /\ code = Code(op)
<1>1. op.call # "none" /\ ~Callers /\ op.call \notin {"function_call_param", "store_variable", "store_value_to_pointer"}
  BY DEF Callers, Compares
<1>2. op.type \in {UNSIGNED_INT, DOUBLE} /\ Slots /\ ip \in 1 .. Len(Code(op)) /\ code = Code(op)
  BY <1>1, Facts, TypeNumbers DEF WellFormed
<1>3. Expects(op) = <<op.type, op.type>> /\ Leaves(op) = <<BOOL>>
  BY Shapes
<1>4. /\ Len(<<op.type, op.type>>) = 2 /\ Len(<<BOOL>>) = 1
      /\ <<op.type, op.type>>[1] = op.type /\ <<op.type, op.type>>[2] = op.type
  OBVIOUS
<1>5. A(1).type = op.type /\ A(2).type = op.type /\ Popped[1] = V(1) /\ Popped[2] = V(2)
  BY <1>2, <1>3, <1>4 DEF Slots, Popped
<1> QED BY <1>1, <1>2, <1>3, <1>4, <1>5

\* The flags of a comparison of x and y.
LEMMA DecidesIf ==
  ASSUME Same, op.call \in Compares, NEW x \in Int, NEW y \in Int,
         Was!Compared(op.call, op.type, V(1), V(2)) = {IF Was!Holds(op.call, x, y) THEN 1 ELSE 0},
         flags'.zf <=> x = y, flags'.cf <=> x < y
  PROVE  Decides'
<1> DEFINE h == Was!Holds(op.call, x, y)
<1>1. op' = op /\ (\A k : Maybe(k)' = Maybe(k))
  BY SameCall DEF Same
<1>2. PICK c : c = op.call
  OBVIOUS
<1>3. Taken(JumpIf[op.call])' <=> h
  <2>1. JumpIf[op'.call] = JumpIf[c]
    BY <1>1, <1>2
  <2>2. CASE c = "alu_equal"
    <3>1. JumpIf[op'.call] = "je"
      BY <2>1, <2>2, Jumps
    <3>2. Taken(JumpIf[op.call])' <=> flags'.zf
      BY <3>1 DEF Taken
    <3>3. h <=> (x = y)
      BY <1>2, <2>2 DEF Was!Holds
    <3> QED BY <3>2, <3>3
  <2>3. CASE c = "alu_not_equal"
    <3>1. JumpIf[op'.call] = "jne"
      BY <2>1, <2>3, Jumps
    <3>2. Taken(JumpIf[op.call])' <=> ~flags'.zf
      BY <3>1 DEF Taken
    <3>3. h <=> (x # y)
      BY <1>2, <2>3 DEF Was!Holds
    <3> QED BY <3>2, <3>3
  <2>4. CASE c = "alu_lower"
    <3>1. JumpIf[op'.call] = "jb"
      BY <2>1, <2>4, Jumps
    <3>2. Taken(JumpIf[op.call])' <=> flags'.cf
      BY <3>1 DEF Taken
    <3>3. h <=> (x < y)
      BY <1>2, <2>4 DEF Was!Holds
    <3> QED BY <3>2, <3>3
  <2>5. CASE c = "alu_lower_equal"
    <3>1. JumpIf[op'.call] = "jbe"
      BY <2>1, <2>5, Jumps
    <3>2. Taken(JumpIf[op.call])' <=> (flags'.cf \/ flags'.zf)
      BY <3>1 DEF Taken
    <3>3. h <=> (x <= y)
      BY <1>2, <2>5 DEF Was!Holds
    <3> QED BY <3>2, <3>3
  <2>6. CASE c = "alu_greater"
    <3>1. JumpIf[op'.call] = "ja"
      BY <2>1, <2>6, Jumps
    <3>2. Taken(JumpIf[op.call])' <=> (~flags'.cf /\ ~flags'.zf)
      BY <3>1 DEF Taken
    <3>3. h <=> (x > y)
      BY <1>2, <2>6 DEF Was!Holds
    <3> QED BY <3>2, <3>3
  <2>7. CASE c = "alu_greater_equal"
    <3>1. JumpIf[op'.call] = "jae"
      BY <2>1, <2>7, Jumps
    <3>2. Taken(JumpIf[op.call])' <=> ~flags'.cf
      BY <3>1 DEF Taken
    <3>3. h <=> (x >= y)
      BY <1>2, <2>7 DEF Was!Holds
    <3> QED BY <3>2, <3>3
  <2> QED BY <1>2, <2>2, <2>3, <2>4, <2>5, <2>6, <2>7 DEF Compares
<1>4. (h => Maybe(1)) /\ (~h => Maybe(0))
  BY DEF Maybe
<1> QED BY <1>1, <1>3, <1>4 DEF Decides

LEMMA CompareIntegers ==
  ASSUME IInv, Within, Execute, Same, op.call \in Compares, op.type # DOUBLE, ip = 3
  PROVE  IInv'
<1>1. op.call # "none" /\ IntegerBinop
  BY DEF IntegerBinop, Compares
<1>2. MachineTyped /\ Slots
  BY <1>1, Facts
<1>3. ~Callers /\ op.type = UNSIGNED_INT /\ A(1).type = op.type /\ A(2).type = op.type
  BY CompareShapes
<1>4. Len(Code(op)) = 9 /\ Code(op)[3] = Ins("cmpq", "rbx", "rax")
  BY CodeOfIntegerComparison, Zenon
<1>5. Current = Ins("cmpq", "rbx", "rax")
  BY <1>1, <1>4, Facts
<1>6. Left(0) /\ st = <<>> /\ Represents(A(1), reg["rax"]) /\ Represents(A(2), reg["rbx"])
  BY <1>1, Facts DEF Points, AtIntegers
<1>7. V(1) = reg["rax"] /\ V(2) = reg["rbx"] /\ V(1) \in Int /\ V(2) \in Int
  BY <1>3, <1>6, TypeNumbers, Meant, WordNat DEF V
<1>8. /\ Advances /\ UNCHANGED <<reg, mem, store, st>> /\ MachineTyped'
      /\ flags'.zf = (reg["rax"] = reg["rbx"]) /\ flags'.cf = (reg["rax"] < reg["rbx"])
  BY <1>2, <1>5, RunCompare
<1>9. Was!Compared(op.call, op.type, V(1), V(2)) = {IF Was!Holds(op.call, V(1), V(2)) THEN 1 ELSE 0}
  BY <1>3, TypeNumbers, WasNames DEF Was!Compared
<1>10. Decides'
  <2>1. (flags'.zf <=> V(1) = V(2)) /\ (flags'.cf <=> V(1) < V(2))
    BY <1>7, <1>8
  <2> QED BY <1>7, <1>9, <2>1, DecidesIf
<1>11. Left(0)' /\ st' = <<>> /\ ip' = 4 /\ Branch' = 4 /\ op' = op
  BY <1>6, <1>8, LeftStays DEF Advances, Advance, Branch, Same
<1>12. AtCompares'
  BY <1>10, <1>11 DEF AtCompares
<1>13. Branch = 4
  BY DEF Branch
<1>14. Points'
  BY <1>11, <1>12, <1>13, ComparePoints
<1> QED BY <1>1, <1>3, <1>4, <1>8, <1>14, InnerStep, UndisturbedIf

\* The jumps of a comparison: only the instruction pointer changes.
LEMMA BranchJumps ==
  ASSUME IInv, Within, Same, op.call \in Compares, ip >= Branch,
         UNCHANGED <<code, running, reg, mem, store, st, flags, heard>>, MachineTyped',
         ip' \in 2 .. Len(code), ip' >= Branch, AtCompares'
  PROVE  IInv'
<1>1. op.call # "none" /\ ~Callers
  BY CompareShapes
<1>2. Points'
  BY ComparePoints
<1>3. Spoke' <=> Spoke
  BY <1>1, SameCall DEF Spoke
<1>4. Kept'
  BY <1>1, <1>3, KeptIn, UndisturbedIf
<1>5. reg'["rbp"] = StackBase - 1
  BY <1>1, Facts
<1> QED BY <1>2, <1>4, <1>5, Midway

LEMMA BranchFirst ==
  ASSUME IInv, Within, Execute, Same, op.call \in Compares, ip \in {Branch, Branch + 2}
  PROVE  IInv'
<1>1. op.call # "none" /\ ip \in 1 .. Len(Code(op)) /\ code = Code(op)
  BY CompareShapes
<1>2. MachineTyped
  BY <1>1, Facts
<1>3. PICK k : k = Branch
  OBVIOUS
<1>4. k \in {4, 6} /\ k = (IF op.type = DOUBLE THEN 6 ELSE 4) /\ op' = op /\ Branch' = k
  BY <1>3, SameCall DEF Branch, Same
<1>5. /\ Len(Code(op)) = k + 5
      /\ Code(op)[k] = Tag(JumpIf[op.call], "__true", op.n) /\ Code(op)[k + 2] = Tag("jmp", "__next", op.n)
  BY <1>3, BranchCode
<1>6. LabelAt("__true", op.n) = k + 3 /\ LabelAt("__next", op.n) = k + 5
  BY <1>1, <1>3, LabelsAt
<1>7. \A i : Maybe(i)' = Maybe(i)
  BY SameCall
<1>8. CASE ip = k
  <2>1. Current = Tag(JumpIf[op.call], "__true", op.n)
    BY <1>1, <1>5, <1>8, Facts
  <2>2. JumpIf[op.call] \in {"jmp", "je", "jne", "jb", "jae", "jbe", "ja"}
    BY Jumps DEF Compares
  <2>3. Left(0) /\ st = <<>> /\ Decides
    BY <1>1, <1>3, <1>8, Facts DEF Points, AtCompares
  <2>4. /\ UNCHANGED <<code, running, reg, mem, store, st, flags, heard>> /\ MachineTyped'
        /\ ip' = IF Taken(JumpIf[op.call]) THEN k + 3 ELSE k + 1
    <3>1. /\ UNCHANGED <<code, running, reg, mem, store, st, flags, heard>> /\ MachineTyped'
          /\ ip' = IF Taken(JumpIf[op.call]) THEN LabelAt("__true", op.n) ELSE ip + 1
      BY <1>2, <2>1, <2>2, RunJump
    <3> QED BY <1>6, <1>8, <3>1
  <2>5. Left(0)' /\ st' = <<>>
    BY <2>3, <2>4, LeftStays
  <2>6. (ip' = k + 3 /\ Maybe(1)) \/ (ip' = k + 1 /\ Maybe(0))
    BY <2>3, <2>4 DEF Decides
  <2>7. AtCompares'
    BY <1>4, <1>7, <2>5, <2>6 DEF AtCompares
  <2> QED BY <1>1, <1>3, <1>4, <1>5, <1>8, <2>4, <2>6, <2>7, BranchJumps
<1>9. CASE ip = k + 2
  <2>1. Current = Tag("jmp", "__next", op.n)
    BY <1>1, <1>5, <1>9, Facts
  <2>2. Pushed1 /\ st = <<>> /\ mem[Base + 2] = 0 /\ Maybe(0)
    BY <1>1, <1>3, <1>9, Facts DEF Points, AtCompares
  <2>3. Taken("jmp")
    BY DEF Taken
  <2>4. /\ UNCHANGED <<code, running, reg, mem, store, st, flags, heard>> /\ MachineTyped'
        /\ ip' = k + 5
    BY <1>2, <1>6, <2>1, <2>3, RunJump
  <2>5. Pushed1' /\ st' = <<>> /\ (mem[Base + 2])' = 0
    BY <2>2, <2>4, LeftStays, SameCall
  <2>6. AtCompares'
    BY <1>4, <1>7, <2>2, <2>4, <2>5 DEF AtCompares
  <2> QED BY <1>1, <1>3, <1>4, <1>5, <1>9, <2>4, <2>6, BranchJumps
<1> QED BY <1>3, <1>8, <1>9

LEMMA BranchPushes ==
  ASSUME IInv, Within, Execute, Same, op.call \in Compares, ip \in {Branch + 1, Branch + 4}
  PROVE  IInv'
<1>1. op.call # "none" /\ ip \in 1 .. Len(Code(op)) /\ code = Code(op) /\ ~Callers
  BY CompareShapes
<1>2. MachineTyped /\ Slots
  BY <1>1, Facts
<1>3. PICK k : k = Branch
  OBVIOUS
<1>4. k \in {4, 6} /\ k = (IF op.type = DOUBLE THEN 6 ELSE 4) /\ op' = op /\ Branch' = k
  BY <1>3, SameCall DEF Branch, Same
<1>5. /\ Len(Code(op)) = k + 5
      /\ Code(op)[k + 1] = Imm("pushq", 0, NoName) /\ Code(op)[k + 4] = Imm("pushq", AllOnes, NoName)
  BY <1>3, BranchCode
<1>6. \A i : Maybe(i)' = Maybe(i)
  BY SameCall
<1>7. PICK n : n = IF ip = k + 1 THEN 0 ELSE AllOnes
  OBVIOUS
<1>8. Current = Imm("pushq", n, NoName) /\ n \in Word
  BY <1>1, <1>3, <1>4, <1>5, <1>7, Facts, ModulusFacts
<1>9. (ip = k + 1 /\ Maybe(0)) \/ (ip = k + 4 /\ Maybe(1))
  BY <1>1, <1>3, <1>4, Facts DEF Points, AtCompares
<1>10. Left(0) /\ st = <<>>
  BY <1>1, <1>3, <1>4, Facts DEF Points, AtCompares
<1>11. CASE Stop("refused")
  BY <1>11, Stays
<1>12. CASE OnlyStack /\ Grows(n) /\ MachineTyped'
  <2>1. Pushed1' /\ Top' = n
    <3>1. Keeps(Len(mem)) /\ Len(mem') = Len(mem) + 1 /\ mem'[Len(mem')] = n
      BY <1>12 DEF Grows
    <3> QED BY <1>2, <1>10, <3>1, LeftPushes
  <2>2. st' = <<>> /\ ip' = ip + 1 /\ Advances /\ UNCHANGED <<reg, store>>
    BY <1>10, <1>12 DEF OnlyStack, Advances, Advance
  <2>3. AtCompares'
    BY <1>4, <1>6, <1>7, <1>9, <2>1, <2>2, ModulusFacts DEF AtCompares, Top
  <2>4. Points'
    BY <1>3, <1>4, <1>9, <2>2, <2>3, ComparePoints
  <2>5. ip < Len(Code(op))
    BY <1>4, <1>5, <1>9
  <2> QED BY <1>1, <1>12, <2>2, <2>4, <2>5, InnerStep, UndisturbedIf
<1> QED BY <1>2, <1>8, <1>11, <1>12, RunPushImmediate

LEMMA BranchLabels ==
  ASSUME IInv, Within, Execute, Same, op.call \in Compares, ip \in {Branch + 3, Branch + 5}
  PROVE  IInv'
<1>1. /\ op.call # "none" /\ ip \in 1 .. Len(Code(op)) /\ code = Code(op) /\ ~Callers
      /\ op.call \notin {"function_call_param", "store_variable", "store_value_to_pointer"}
      /\ Leaves(op) = <<BOOL>> /\ Len(Leaves(op)) = 1 /\ Popped[1] = V(1) /\ Popped[2] = V(2)
  BY CompareShapes
<1>2. MachineTyped /\ Slots
  BY <1>1, Facts
<1>3. PICK k : k = Branch
  OBVIOUS
<1>4. k \in {4, 6} /\ k = (IF op.type = DOUBLE THEN 6 ELSE 4) /\ op' = op /\ Branch' = k
  BY <1>3, SameCall DEF Branch, Same
<1>5. /\ Len(Code(op)) = k + 5
      /\ Code(op)[k + 3] = Tag("label", "__true", op.n) /\ Code(op)[k + 5] = Tag("label", "__next", op.n)
  BY <1>3, BranchCode
<1>6. \A i : Maybe(i)' = Maybe(i)
  BY SameCall
<1>7. /\ Advances /\ UNCHANGED <<reg, mem, store, st, flags>> /\ MachineTyped'
  BY <1>1, <1>2, <1>3, <1>5, Facts, RunLabel
<1>8. CASE ip = k + 3
  <2>1. Left(0) /\ st = <<>> /\ Maybe(1)
    BY <1>1, <1>3, <1>4, <1>8, Facts DEF Points, AtCompares
  <2>2. Left(0)' /\ st' = <<>> /\ ip' = k + 4
    <3>1. ip' = k + 3 + 1
      BY <1>7, <1>8 DEF Advances, Advance
    <3> QED BY <1>4, <1>7, <2>1, <3>1, LeftStays
  <2>3. AtCompares'
    BY <1>4, <1>6, <2>1, <2>2 DEF AtCompares
  <2>4. Points'
    BY <1>3, <1>4, <2>2, <2>3, ComparePoints
  <2> QED BY <1>1, <1>4, <1>5, <1>7, <1>8, <2>4, InnerStep, UndisturbedIf
<1>9. CASE ip = k + 5
  <2>1. /\ Pushed1 /\ st = <<>>
        /\ \/ Top = 0 /\ Maybe(0)
           \/ Top = AllOnes /\ Maybe(1)
    BY <1>1, <1>3, <1>4, <1>9, Facts DEF Points, AtCompares, Top
  <2>2. Pushed1' /\ Top' = Top
    BY <1>7, <2>1, LeftStays, SameCall DEF Top
  <2>3. Sound(Leaves(op)[1], Top)
    BY <1>1, <2>1, ModulusFacts, TypeNumbers DEF Sound
  <2>4. \E v \in Was!Values(op, Popped) : Denotes(Leaves(op)[1], Top) = Was!Kept(Leaves(op)[1], v)
    <3>1. Was!Values(op, Popped) = Was!Compared(op.call, op.type, V(1), V(2))
      BY <1>1, ValuesOf
    <3>2. Denotes(BOOL, 0) = 0 /\ Denotes(BOOL, AllOnes) = 1
      BY ModulusFacts, TypeNumbers DEF Denotes
    <3>3. \A v : Was!Kept(BOOL, v) = v
      BY WasNames, TypeNumbers DEF Was!Kept
    <3> QED BY <1>1, <2>1, <3>1, <3>2, <3>3 DEF Maybe
  <2>5. Yields'
    BY <2>2, <2>3, <2>4, YieldsIf
  <2>6. Base' = Base /\ Base \in Nat
    BY <1>2, SameCall DEF Slots
  <2>7. Len(mem') = 1 + Base + Len(Leaves(op)) /\ Intact(Base)' /\ st' = <<>>
    BY <1>1, <1>7, <2>1, <2>2, <2>6 DEF Pushed1
  <2> QED BY <1>1, <1>5, <1>7, <1>9, <2>5, <2>7, LastStep, UndisturbedIf
<1> QED BY <1>3, <1>8, <1>9

LEMMA BranchOperation ==
  ASSUME IInv, Within, Execute, Same, op.call \in Compares, ip >= Branch
  PROVE  IInv'
<1>1. PICK k : k = Branch
  OBVIOUS
<1>2. k \in {4, 6} /\ k = (IF op.type = DOUBLE THEN 6 ELSE 4) /\ ip \in 1 .. Len(Code(op))
  BY <1>1, CompareShapes DEF Branch
<1>3. Len(Code(op)) = k + 5
  BY <1>1, BranchCode
<1>4. ip \in {k, k + 1, k + 2, k + 3, k + 4, k + 5}
  BY <1>1, <1>2, <1>3
<1> QED BY <1>1, <1>4, BranchFirst, BranchPushes, BranchLabels

LEMMA IntegerComparison ==
  ASSUME IInv, Within, Execute, Same, op.call \in Compares, op.type # DOUBLE
  PROVE  IInv'
<1>1. ip \in 1 .. Len(Code(op)) /\ op.call # "none" /\ IntegerBinop
  BY CompareShapes DEF IntegerBinop
<1>2. ip \in {1, 2} \/ ip = 3 \/ ip >= Branch
  BY <1>1 DEF Branch
<1> QED BY <1>1, <1>2, IntegerPops, CompareIntegers, BranchOperation
=============================================================================
