------------------------- MODULE ArgumentRegisters -------------------------
(***************************************************************************)
(* Arguments in registers.  function_call_param moves an argument to its   *)
(* register as soon as its expression is compiled, before the expressions  *)
(* of the next arguments: what those generate must leave it alone.         *)
(***************************************************************************)
EXTENDS ParserProps, FiniteSets

Regular(i) == <<"regular", i>>  \* %rdi, %rsi, %rdx, %rcx, %r8, %r9
Xmm(i)     == <<"xmm", i>>      \* %xmm0 ... %xmm7

Registers == {Regular(i) : i \in 0 .. NumRegular - 1} \cup {Xmm(i) : i \in 0 .. NumFloat - 1}

RDX == Regular(2)

(***************************************************************************)
(* The argument registers that the code of a call changes.  A C function   *)
(* (a foreign one, fmod, printf) may change all of them: the System V ABI  *)
(* preserves none over a call.                                             *)
(***************************************************************************)
Writes(op) ==
  CASE op.call = "function_call_param" ->
         {IF IsRegular(op.type) THEN Regular(op.n) ELSE Xmm(op.n)}
    [] op.call \in {"function_call_finalize", "debug_display"} -> Registers
    [] op.call = "alu_modulus" /\ op.type = DOUBLE             -> Registers
    [] op.call \in {"alu_multiply", "alu_divide", "alu_modulus"} /\ op.type = UNSIGNED_INT ->
         {RDX}
    [] OTHER -> {}

\* The registers that hold arguments of the call the activation f is compiling.
Loaded(f) ==
  IF f.at \in InACall
    THEN {Regular(i) : i \in 0 .. f.regs - 1} \cup {Xmm(i) : i \in 0 .. f.xmms - 1}
    ELSE {}

(***************************************************************************)
(* The arguments of a call that is still being compiled stay in their      *)
(* registers until its function_call_finalize.                             *)
(***************************************************************************)
ArgumentsSurvive ==
  [][\A i \in 1 .. Len(frames) :
       i \in 1 .. Len(frames') => Writes(emitted') \cap Loaded(frames[i]) = {}]_vars

\* The register the System V ABI assigns to the i-th of some parameters.
AbiRegister(params, i) ==
  LET before(class(_)) == {j \in 1 .. i - 1 : class(params[j])}
  IN IF IsRegular(params[i]) THEN Regular(Cardinality(before(IsRegular)))
                             ELSE Xmm(Cardinality(before(IsFloat)))

(***************************************************************************)
(* The counters of a FunctionCall assign to every argument the register    *)
(* of the System V ABI, also when the calls its arguments make, which have *)
(* counters of their own, are compiled in between.                         *)
(***************************************************************************)
ArgumentsFollowABI ==
  [][pc = "return" /\ emitted'.call = "function_call_param" =>
       Writes(emitted') = {AbiRegister(FunParams[Top.name], Top.n + 1)}]_vars
=============================================================================
