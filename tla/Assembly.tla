------------------------------ MODULE Assembly ------------------------------
(***************************************************************************)
(* The assembly each method of CodeGen writes (codegen.cpp).               *)
(*                                                                         *)
(* An instruction is its mnemonic with a source and a destination: names   *)
(* of registers or variables, "(%rsp)" and the like for memory, "$" for    *)
(* the immediate n; a jump and a label have a name and a tag n.            *)
(***************************************************************************)
EXTENDS CodeGenCalls, Words

Ins(op, src, dst) == [op |-> op, src |-> src, dst |-> dst, n |-> 0]
Imm(op, n, dst)   == [op |-> op, src |-> "$", dst |-> dst, n |-> n]
Tag(op, label, n) == [op |-> op, src |-> label, dst |-> NoName, n |-> n]
Push(src) == Ins("pushq", src, NoName)
PopTo(dst) == Ins("popq", NoName, dst)

\* Formats of printf, by the label that debug_display passes.
Format == [llu |-> 1, c |-> 2, f |-> 3]

RegularRegisters == <<"rdi", "rsi", "rdx", "rcx", "r8", "r9">>
FloatRegisters   == <<"xmm0", "xmm1", "xmm2", "xmm3", "xmm4", "xmm5", "xmm6", "xmm7">>

\* function_call_register, for the argument that is the n-th of its class from 0.
ArgumentRegister(type, n) ==
  IF IsRegular(type) THEN RegularRegisters[n + 1] ELSE FloatRegisters[n + 1]

-----------------------------------------------------------------------------
(* Operands *)

\* A value whose upper half is not zero goes through a register.
LoadI64(value) ==
  IF value \div 2 ^ ImmBits # 0
    THEN <<Imm("movabs", value, "rax"), Push("rax")>>
    ELSE <<Imm("pushq", value, NoName)>>

\* (A variant: the pointer is pushed, not what it points to.)
LoadPointerAgain == <<PopTo("rax"), Push("rax")>>

LoadValueFromPointer == <<PopTo("rax"), Push("(%rax)")>>

StoreValueToPointer == <<PopTo("rax"), PopTo("rbx"), Ins("movq", "rbx", "(%rax)")>>

\* (A variant: the operands are loaded in the order they were pushed.)
LoadBinopSwapped(type) ==
  IF type = DOUBLE
    THEN <<Ins("fldl", "8(%rsp)", NoName), Ins("fldl", "(%rsp)", NoName), Imm("addq", 2, "rsp")>>
    ELSE <<PopTo("rax"), PopTo("rbx")>>

LoadBinop(type) ==
  IF type = DOUBLE
    THEN <<Ins("fldl", "(%rsp)", NoName), Ins("fldl", "8(%rsp)", NoName), Imm("addq", 2, "rsp")>>
    ELSE <<PopTo("rbx"), PopTo("rax")>>

StoreF64 == <<Imm("addq", -1, "rsp"), Ins("fstpl", NoName, "(%rsp)")>>

AluF64(instruction) == LoadBinop(DOUBLE) \o <<Ins(instruction, NoName, NoName)>> \o StoreF64

AluAndBool == LoadBinop(BOOL) \o <<Ins("andq", "rax", "rbx"), Push("rax")>>
AluOrBool  == LoadBinop(BOOL) \o <<Ins("orq", "rbx", "rax"), Push("rax")>>
AluNotBool == <<Ins("notq", NoName, "(%rsp)")>>

AluAddSub(integer, double, type) ==
  IF type = DOUBLE THEN AluF64(double)
  ELSE LoadBinop(type) \o <<Ins(integer, "rbx", "rax"), Push("rax")>>

AluMultiply(type) ==
  IF type = DOUBLE THEN AluF64("fmulp")
  ELSE LoadBinop(type) \o <<Ins("mulq", "rbx", NoName), Push("rax")>>

\* Quotient to %rax, remainder to %rdx, and %rax is pushed (for / and for %).
DivideInteger == <<Imm("movq", 0, "rdx"), Ins("div", "rbx", NoName), Push("rax")>>

AluDivide(type) ==
  IF type = DOUBLE THEN AluF64("fdivp") ELSE LoadBinop(type) \o DivideInteger

-----------------------------------------------------------------------------
(* Calls *)

\* (A variant: the stack pointer is not rounded.)
AlignStackNothing == <<Ins("movq", "rsp", "r12"), Imm("andq_low", 0, "r12")>>

\* %r12 keeps the lower nibble of %rsp, which is rounded down.
AlignStack == <<Ins("movq", "rsp", "r12"), Imm("andq_low", 0, "r12"), Imm("andq_high", 0, "rsp")>>

\* (A variant: the stack pointer stays rounded.)
UnalignStackNothing == <<>>
UnalignStack == <<Ins("orq", "r12", "rsp")>>

\* (A variant: a Boolean is passed as the word that represents it.)
CallParamUnmasked(type, n) ==
  LET register == ArgumentRegister(type, n)
  IN IF type \in Floating THEN <<Ins("movsd", "(%rsp)", register), Imm("addq", 1, "rsp")>>
     ELSE <<PopTo(register)>>

CallParam(type, n) ==
  LET register == ArgumentRegister(type, n)
  IN CASE type = BOOL     -> <<PopTo(register), Imm("andq", 1, register)>>
       [] IsFloat(type)   -> <<Ins("movsd", "(%rsp)", register), Imm("addq", 1, "rsp")>>
       [] OTHER           -> <<PopTo(register)>>

CallFinalize(name, variadic, float_count, return_type) ==
  (IF variadic THEN <<Imm("movb", float_count, "rax")>> ELSE <<>>)
  \o AlignStack \o <<Tag("call", name, 0)>> \o UnalignStack
  \o CASE return_type = VOID   -> <<>>
       [] IsFloat(return_type) -> <<Imm("addq", -1, "rsp"), Ins("movsd", "xmm0", "(%rsp)")>>
       [] OTHER                -> <<Push("rax")>>

\* (A variant: a value that is not an integer is displayed without its %al.)
DebugDisplayNoFloats(type) ==
  <<Imm("leaq", CASE type = CHAR -> Format.c [] type = DOUBLE -> Format.f [] OTHER -> Format.llu, "rdi")>>
  \o CallParam(type, IF type = DOUBLE THEN 0 ELSE 1)
  \o CallFinalize("printf", TRUE, 0, VOID)

\* The format is the first regular argument, the value the next one of its class.
DebugDisplay(type) ==
  <<Imm("leaq", CASE type = CHAR -> Format.c [] type = DOUBLE -> Format.f [] OTHER -> Format.llu, "rdi")>>
  \o CallParam(type, IF type = DOUBLE THEN 0 ELSE 1)
  \o CallFinalize("printf", TRUE, IF type = DOUBLE THEN 1 ELSE 0, VOID)

\* (A variant: the operands of fmod stay the way they are pushed.)
SwapNothing == <<>>

\* Swaps the arguments of fmod, which are popped last first.
SwapFloats == <<Ins("pxor", "xmm0", "xmm1"), Ins("pxor", "xmm1", "xmm0"), Ins("pxor", "xmm0", "xmm1")>>

\* % on doubles is a call of fmod.
AluModulus(type) ==
  IF type = DOUBLE
    THEN CallParam(DOUBLE, 0) \o CallParam(DOUBLE, 1) \o SwapFloats
         \o CallFinalize("fmod", FALSE, 2, DOUBLE)
    ELSE LoadBinop(type) \o DivideInteger

-----------------------------------------------------------------------------
(* Comparisons, conversions, jumps *)

JumpIf == [alu_equal |-> "je", alu_not_equal |-> "jne", alu_greater_equal |-> "jae",
           alu_lower_equal |-> "jbe", alu_greater |-> "ja", alu_lower |-> "jb"]

\* (A variant: the second operand stays on the x87 stack.)
CompareLeaky(type) ==
  IF type = DOUBLE THEN <<Ins("fcomip", NoName, NoName)>> ELSE <<Ins("cmpq", "rbx", "rax")>>

CompareOperands(type) ==
  IF type = DOUBLE THEN <<Ins("fcomip", NoName, NoName), Ins("fstp", NoName, NoName)>>
  ELSE <<Ins("cmpq", "rbx", "rax")>>

\* TRUE is a word of ones.
AluCompare(call, type, tag) ==
  LoadBinop(type) \o CompareOperands(type) \o
  <<Tag(JumpIf[call], "__true", tag), Imm("pushq", 0, NoName), Tag("jmp", "__next", tag),
    Tag("label", "__true", tag), Imm("pushq", AllOnes, NoName), Tag("label", "__next", tag)>>

\* Integers and characters need no code; neither does any type to itself.
ConvertCode(source, destination) ==
  CASE source = DOUBLE /\ destination \in Integral -> <<Ins("fldl", "(%rsp)", NoName), Ins("fistpq", NoName, "(%rsp)")>>
    [] source \in Integral /\ destination = DOUBLE -> <<Ins("fildq", "(%rsp)", NoName), Ins("fstpl", NoName, "(%rsp)")>>
    [] OTHER -> <<>>

PostCheck(label, tag) ==
  <<PopTo("rax"), Ins("test", "rax", "rax"), Tag("jz", label, tag)>>

\* (A variant: the operands are in the order of Intel syntax.)
ForPostCheckIntel(variable, tag) ==
  <<PopTo("rax"), Ins("cmpq", "rax", variable), Tag("jl", "__next", tag)>>

\* The loop is left if the value popped is below the variable.
ForPostCheck(variable, tag) ==
  <<PopTo("rax"), Ins("cmpq", variable, "rax"), Tag("jl", "__next", tag)>>

\* (A variant: the label after the loop is before its jump back.)
ForFinalizeLabelFirst(variable, tag) ==
  <<Imm("addq", 1, variable), Tag("label", "__next", tag), Tag("jmp", "__for", tag)>>

ForFinalize(variable, tag) ==
  <<Imm("addq", 1, variable), Tag("jmp", "__for", tag), Tag("label", "__next", tag)>>

StatementCode(op) ==
  CASE op.call = "statement_if_post_check"       -> PostCheck("__false", op.n) \o <<Tag("label", "__true", op.n)>>
    [] op.call = "statement_if_with_else"        -> <<Tag("jmp", "__next", op.n), Tag("label", "__false", op.n)>>
    [] op.call = "statement_if_without_else"     -> <<Tag("label", "__false", op.n)>>
    [] op.call = "statement_if_finalize"         -> <<Tag("label", "__next", op.n)>>
    [] op.call = "statement_while_prepare"       -> <<Tag("label", "__while", op.n)>>
    [] op.call = "statement_while_post_check"    -> PostCheck("__next", op.n)
    [] op.call = "statement_while_finalize"      -> <<Tag("jmp", "__while", op.n), Tag("label", "__next", op.n)>>
    [] op.call = "statement_for_post_assignment" -> <<Tag("label", "__for", op.n)>>
    [] op.call = "statement_for_post_check"      -> ForPostCheck(op.name, op.n)
    [] op.call = "statement_for_finalize"        -> ForFinalize(op.name, op.n)

-----------------------------------------------------------------------------
\* (A variant: the top of the stack is saved in a register that other code uses.)
BeginMainInRbx == <<Ins("movq", "rsp", "rbx")>>

BeginMain == <<Ins("movq", "rsp", "rbp")>>

\* (A variant: what is left on the stack stays there.)
FinalizeMainAsIs == <<Ins("ret", NoName, NoName)>>

FinalizeMain == <<Ins("movq", "rbp", "rsp"), Ins("ret", NoName, NoName)>>

(***************************************************************************)
(* The code of a call.  The Op of load_i64 has the value in n, one of      *)
(* function_call_param the index of the argument in its class, one of a    *)
(* comparison or a statement the label tag.                                *)
(***************************************************************************)
Code(op) ==
  CASE op.call = "load_variable"            -> <<Push(op.name)>>
    [] op.call = "load_i64"                 -> LoadI64(op.n)
    [] op.call = "load_pointer_to_variable" -> <<Ins("leaq", op.name, "rax"), Push("rax")>>
    [] op.call = "load_value_from_pointer"  -> LoadValueFromPointer
    [] op.call = "store_variable"           -> <<PopTo(op.name)>>
    [] op.call = "store_value_to_pointer"   -> StoreValueToPointer
    [] op.call = "alu_and_bool"             -> AluAndBool
    [] op.call = "alu_or_bool"              -> AluOrBool
    [] op.call = "alu_not_bool"             -> AluNotBool
    [] op.call = "alu_add"                  -> AluAddSub("addq", "faddp", op.type)
    [] op.call = "alu_sub"                  -> AluAddSub("subq", "fsubp", op.type)
    [] op.call = "alu_multiply"             -> AluMultiply(op.type)
    [] op.call = "alu_divide"               -> AluDivide(op.type)
    [] op.call = "alu_modulus"              -> AluModulus(op.type)
    [] op.call \in Compares                 -> AluCompare(op.call, op.type, op.n)
    [] op.call = "convert"                  -> ConvertCode(op.type, op.dest)
    [] op.call = "function_call_param"      -> CallParam(op.type, op.n)
    [] op.call = "function_call_finalize"   -> CallFinalize(op.name, FALSE, 0, op.type)
    [] op.call = "debug_display"            -> DebugDisplay(op.type)
    [] op.call = "finalize_main_procedure"  -> FinalizeMain
    [] OTHER                                -> StatementCode(op)
=============================================================================
