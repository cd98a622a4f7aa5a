--------------------------------- MODULE X86 ---------------------------------
(***************************************************************************)
(* The processor, as far as the generated code uses it, the memory, and    *)
(* the functions the code calls.  None of this is in the repository: it is *)
(* the System V ABI and the instruction set that codegen.cpp relies on.    *)
(*                                                                         *)
(* The run-time stack is `mem`, bottom first; an address in it is counted  *)
(* in words, so the 16-byte alignment of the ABI is being even.  What is   *)
(* below the stack pointer is not kept.                                    *)
(***************************************************************************)
EXTENDS Assembly, FiniteSets

CONSTANTS
  StackBase,  \* address above the return address, aligned
  AddressOf,  \* variables -> the word that is their address, never 0
  Signature,  \* functions -> types of their parameters
  Returns,    \* functions -> type of what they return, or VOID
  Junk,       \* what a called function may leave in the registers it may change
  BitAnd(_, _), BitOr(_, _), BitXor(_, _)  \* on words and addresses, bit by bit

VARIABLES
  code,    \* the instructions to run
  ip,      \* index of the next one
  reg,     \* registers but %rsp and %rip
  mem,     \* the run-time stack
  store,   \* variables -> word
  st,      \* x87 stack, %st(0) first
  flags,   \* set by the last comparison
  heard,   \* history: the last call, as the function called understands it
  running  \* "running", "returned", "fault" (an exception of the processor) or
           \* "refused" (the assembler has no such instruction)

machine == <<code, ip, reg, mem, store, st, flags, heard, running>>

ParameterRegisters ==
  {RegularRegisters[i] : i \in DOMAIN RegularRegisters} \cup {FloatRegisters[i] : i \in DOMAIN FloatRegisters}
CallerSaved == {"rax"} \cup ParameterRegisters
CalleeSaved == {"rbx", "rbp", "r12"}
Registers   == CallerSaved \cup CalleeSaved

\* Operands of instructions that are neither registers nor variables.
OtherOperands == {NoName, "$", "rsp", "(%rsp)", "8(%rsp)", "(%rax)"}

ASSUME BitwiseAssumption ==
  /\ \A a, b \in Word : /\ BitAnd(a, b) \in Word /\ BitOr(a, b) \in Word /\ BitXor(a, b) \in Word
                       /\ BitXor(a, b) = BitXor(b, a) /\ BitXor(BitXor(a, b), b) = a
  /\ BitAnd(0, 1) = 0 /\ BitAnd(AllOnes, 1) = 1
  /\ \A a, b \in {0, AllOnes} : BitOr(a, b) = IF a = b THEN a ELSE AllOnes
  /\ \A a \in 0 .. StackBase : a % 2 = 0 => BitOr(a, 0) = a /\ BitOr(a, 1) = a + 1

ASSUME MemoryAssumption ==
  /\ StackBase \in Nat /\ StackBase % 2 = 0
  /\ DOMAIN AddressOf \cap (Registers \cup OtherOperands) = {}
  /\ \A v \in DOMAIN AddressOf : AddressOf[v] \in Word \ {0}
  /\ \A u, v \in DOMAIN AddressOf : AddressOf[u] = AddressOf[v] => u = v
  /\ Junk \subseteq Word

\* All arguments are passed in registers.
Passable(types) ==
  /\ Cardinality({k \in DOMAIN types : ~IsFloat(types[k])}) <= Len(RegularRegisters)
  /\ Cardinality({k \in DOMAIN types : IsFloat(types[k])}) <= Len(FloatRegisters)

ASSUME SignatureAssumption ==
  /\ DOMAIN Returns = DOMAIN Signature
  /\ \A f \in DOMAIN Signature :
       /\ f \notin {"printf", "fmod"} /\ Signature[f] \in Seq(Concrete) /\ Passable(Signature[f])
       /\ CanReturn(Returns[f])

ReturnAddress == 0
NoCall   == [function |-> NoName, args |-> <<>>]
NoFlags  == [zf |-> FALSE, cf |-> FALSE, lt |-> FALSE]

Rsp == StackBase - Len(mem)

\* Moving %rsp drops words, or makes room for some.
StackAt(address) ==
  IF address >= Rsp THEN SubSeq(mem, 1, StackBase - address)
  ELSE mem \o [i \in 1 .. Rsp - address |-> 0]

\* The variable a pointer points to; 0 is mapped to nothing.
Target(address)   == CHOOSE v \in DOMAIN AddressOf : AddressOf[v] = address
IsMapped(address) == \E v \in DOMAIN AddressOf : AddressOf[v] = address

Read(ins, operand) ==
  CASE operand = "$"         -> ins.n
    [] operand = "rsp"       -> Rsp
    [] operand = "(%rsp)"    -> mem[Len(mem)]
    [] operand = "8(%rsp)"   -> mem[Len(mem) - 1]
    [] operand = "(%rax)"    -> store[Target(reg["rax"])]
    [] operand \in Registers -> reg[operand]
    [] OTHER                 -> store[operand]

\* Writes w to a register, a variable or memory.
Put(operand, w) ==
  /\ reg' = IF operand \in Registers THEN [reg EXCEPT ![operand] = w] ELSE reg
  /\ store' = CASE operand = "(%rax)"        -> [store EXCEPT ![Target(reg["rax"])] = w]
                [] operand \in DOMAIN store -> [store EXCEPT ![operand] = w]
                [] OTHER                    -> store
Write(operand, w) ==
  /\ Put(operand, w)
  /\ mem' = CASE operand = "rsp"    -> StackAt(w)
              [] operand = "(%rsp)" -> [mem EXCEPT ![Len(mem)] = w]
              [] OTHER              -> mem

-----------------------------------------------------------------------------
Current == code[ip]
Runs(ops) == running = "running" /\ ip <= Len(code) /\ Current.op \in ops
Advance == ip' = ip + 1 /\ UNCHANGED <<code, running>>
Stop(how) == running' = how /\ UNCHANGED <<code, ip, reg, mem, store, st, flags, heard>>

\* An access through %rax faults where nothing is mapped.
Accesses == "(%rax)" \in {Current.src, Current.dst} => IsMapped(reg["rax"])

Move ==
  /\ Runs({"movq", "movabs", "movb", "movsd", "leaq"})
  /\ \/ ~Accesses /\ Stop("fault")
     \/ /\ Accesses
        /\ Write(Current.dst, IF Current.op = "leaq" /\ Current.src # "$"
                                THEN AddressOf[Current.src] ELSE Read(Current, Current.src))
        /\ Advance /\ UNCHANGED <<st, flags, heard>>

\* pushq has no immediate of more than ImmBits bits, and extends its sign.
PushWord ==
  /\ Runs({"pushq"})
  /\ LET w == Read(Current, Current.src)
     IN \/ Current.src = "$" /\ w # SignExtend(w, ImmBits) /\ Stop("refused")
        \/ ~Accesses /\ Stop("fault")
        \/ /\ Current.src = "$" => w = SignExtend(w, ImmBits)
           /\ Accesses
           /\ mem' = Append(mem, w)
           /\ Advance /\ UNCHANGED <<reg, store, st, flags, heard>>

PopWord ==
  /\ Runs({"popq"})
  /\ Put(Current.dst, mem[Len(mem)])
  /\ mem' = SubSeq(mem, 1, Len(mem) - 1)
  /\ Advance /\ UNCHANGED <<st, flags, heard>>

Alu(op, a, b) ==
  CASE op = "addq"      -> IF Current.dst = "rsp" THEN a + b ELSE Wrap(a + b)
    [] op = "subq"      -> Wrap(a - b)
    [] op = "andq"      -> BitAnd(a, b)
    [] op = "orq"       -> BitOr(a, b)
    [] op = "pxor"      -> BitXor(a, b)
    [] op = "notq"      -> AllOnes - a
    [] op = "andq_low"  -> a % 2
    [] op = "andq_high" -> a - (a % 2)

Arithmetics ==
  /\ Runs({"addq", "subq", "andq", "orq", "pxor", "notq", "andq_low", "andq_high"})
  /\ LET b == IF Current.src = NoName THEN 0 ELSE Read(Current, Current.src)
     IN Write(Current.dst, Alu(Current.op, Read(Current, Current.dst), b))
  /\ Advance /\ UNCHANGED <<st, flags, heard>>

Multiply ==
  /\ Runs({"mulq"})
  /\ LET product == reg["rax"] * reg[Current.src]
     IN reg' = [reg EXCEPT !["rax"] = Wrap(product), !["rdx"] = product \div Modulus]
  /\ Advance /\ UNCHANGED <<mem, store, st, flags, heard>>

\* %rdx:%rax is divided; a quotient that does not fit is an error, as zero is.
Divide ==
  /\ Runs({"div"})
  /\ LET numerator == reg["rdx"] * Modulus + reg["rax"]
         divisor == reg[Current.src]
     IN \/ (divisor = 0 \/ numerator >= divisor * Modulus) /\ Stop("fault")
        \/ /\ divisor # 0 /\ numerator < divisor * Modulus
           /\ reg' = [reg EXCEPT !["rax"] = numerator \div divisor,
                                 !["rdx"] = numerator % divisor]
           /\ Advance /\ UNCHANGED <<mem, store, st, flags, heard>>

\* cmpq src, dst compares dst with src, both ways.
Compare ==
  /\ Runs({"cmpq", "test"})
  /\ LET a == Read(Current, Current.dst)
         b == IF Current.op = "test" THEN 0 ELSE Read(Current, Current.src)
     IN flags' = [zf |-> a = b, cf |-> a < b, lt |-> Signed(a) < Signed(b)]
  /\ Advance /\ UNCHANGED <<reg, mem, store, st, heard>>

Taken(op) ==
  CASE op = "jmp"         -> TRUE
    [] op \in {"je", "jz"} -> flags.zf
    [] op = "jne"         -> ~flags.zf
    [] op = "jb"          -> flags.cf
    [] op = "jae"         -> ~flags.cf
    [] op = "jbe"         -> flags.cf \/ flags.zf
    [] op = "ja"          -> ~flags.cf /\ ~flags.zf
    [] op = "jl"          -> flags.lt

LabelAt(name, tag) ==
  CHOOSE k \in 1 .. Len(code) : code[k].op = "label" /\ code[k].src = name /\ code[k].n = tag

Jump ==
  /\ Runs({"jmp", "je", "jz", "jne", "jb", "jae", "jbe", "ja", "jl"})
  /\ ip' = IF Taken(Current.op) THEN LabelAt(Current.src, Current.n) ELSE ip + 1
  /\ UNCHANGED <<code, running, reg, mem, store, st, flags, heard>>

Label ==
  /\ Runs({"label"})
  /\ Advance /\ UNCHANGED <<reg, mem, store, st, flags, heard>>

-----------------------------------------------------------------------------
(* x87: in AT&T syntax the reversed subtraction and division are those     *)
(* without r, so fsubp computes %st(0) - %st(1).                           *)

X87Load ==
  /\ Runs({"fldl", "fildq"})
  /\ LET w == Read(Current, Current.src)
     IN st' = <<IF Current.op = "fildq" THEN DoubleOf(Signed(w)) ELSE w>> \o st
  /\ Advance /\ UNCHANGED <<reg, mem, store, flags, heard>>

\* fistpq stores the most negative integer for a double that is not one.
X87Store ==
  /\ Runs({"fstpl", "fistpq"})
  /\ Write(Current.dst, IF Current.op = "fstpl" THEN st[1]
                        ELSE IF st[1] = NaN THEN Half ELSE Wrap(Real(st[1])))
  /\ st' = Tail(st)
  /\ Advance /\ UNCHANGED <<flags, heard>>

X87Sign == [faddp |-> "+", fsubp |-> "-", fmulp |-> "*", fdivp |-> "/"]

X87Arithmetic ==
  /\ Runs(DOMAIN X87Sign)
  /\ st' = <<DoubleOp(X87Sign[Current.op], st[1], st[2])>> \o SubSeq(st, 3, Len(st))
  /\ Advance /\ UNCHANGED <<reg, mem, store, flags, heard>>

\* An unordered comparison sets both flags.
X87Compare ==
  /\ Runs({"fcomip", "fstp"})
  /\ st' = Tail(st)
  /\ flags' = IF Current.op = "fstp" THEN flags
              ELSE IF NaN \in {st[1], st[2]} THEN [flags EXCEPT !.zf = TRUE, !.cf = TRUE]
              ELSE [flags EXCEPT !.zf = Real(st[1]) = Real(st[2]), !.cf = Real(st[1]) < Real(st[2])]
  /\ Advance /\ UNCHANGED <<reg, mem, store, heard>>

-----------------------------------------------------------------------------
(* Functions *)

\* The i-th argument, in the next register of its class.
Argument(types, i) ==
  LET before == {k \in 1 .. i - 1 : IsFloat(types[k]) = IsFloat(types[i])}
  IN reg[ArgumentRegister(types[i], Cardinality(before))]

\* A function reads as much of a register as its parameter has bits.
Received(type, w) == IF type = CHAR THEN CharOf(w) ELSE w

\* printf reads %xmm0 only if %al says that there is an argument there.
Printed ==
  CASE reg["rdi"] = Format.llu -> <<UNSIGNED_INT, reg["rsi"]>>
    [] reg["rdi"] = Format.c   -> <<CHAR, CharOf(reg["rsi"])>>
    [] reg["rdi"] = Format.f   -> <<DOUBLE, IF reg["rax"] > 0 THEN reg["xmm0"] ELSE 0>>
    [] OTHER                   -> <<VOID, 0>>

Parameters(function) == IF function = "fmod" THEN <<DOUBLE, DOUBLE>> ELSE Signature[function]

Heard(function) ==
  IF function = "printf" THEN Printed
  ELSE [i \in 1 .. Len(Parameters(function)) |->
          Received(Parameters(function)[i], Argument(Parameters(function), i))]

\* Where a function leaves its result: nowhere, if it has none.
ReturnType(function) ==
  CASE function = "printf" -> VOID [] function = "fmod" -> DOUBLE [] OTHER -> Returns[function]
ResultRegister(type) == IF IsFloat(type) THEN "xmm0" ELSE "rax"

\* A called function keeps the registers of its caller that it has to keep.
Call ==
  /\ Runs({"call"})
  /\ LET args == Heard(Current.src)
     IN \E junk \in Junk :
          /\ heard' = [function |-> Current.src, args |-> args]
          /\ reg' = [r \in Registers |->
                       CASE ReturnType(Current.src) # VOID /\ r = ResultRegister(ReturnType(Current.src)) ->
                              Result(Current.src, args)
                         [] r \in CalleeSaved -> reg[r]
                         [] OTHER -> junk]
  /\ Advance /\ UNCHANGED <<mem, store, st, flags>>

Return ==
  /\ Runs({"ret"})
  /\ Stop("returned")

Execute ==
  \/ Move \/ PushWord \/ PopWord \/ Arithmetics \/ Multiply \/ Divide
  \/ Compare \/ Jump \/ Label
  \/ X87Load \/ X87Store \/ X87Arithmetic \/ X87Compare
  \/ Call \/ Return

\* main is called with an aligned stack: its return address is on top of it.
Entered(instructions) ==
  /\ code = instructions
  /\ ip = 1
  /\ reg = [r \in Registers |-> IF r \in CalleeSaved THEN 1 ELSE 0]
  /\ mem = <<ReturnAddress>>
  /\ store = [v \in DOMAIN AddressOf |-> 0]
  /\ st = <<>>
  /\ flags = NoFlags
  /\ heard = NoCall
  /\ running = "running"
=============================================================================
