----------------------------- MODULE LoopProofs -----------------------------
(***************************************************************************)
(* Proofs about whole programs with FOR and WHILE on the processor: each   *)
(* iteration leaves the stack as it found it, and a loop visits the values *)
(* from its first bound to its second, for all words and numbers of        *)
(* iterations.                                                             *)
(***************************************************************************)
EXTENDS LoopMachine, SequenceTheorems, TLAPS

LEMMA RegisterNames ==
  /\ ParameterRegisters = {"rdi", "rsi", "rdx", "rcx", "r8", "r9", "xmm0", "xmm1", "xmm2", "xmm3",
                           "xmm4", "xmm5", "xmm6", "xmm7"}
  /\ Registers = ParameterRegisters \cup {"rax", "rbx", "rbp", "r12"}
  /\ \A r \in Registers : r \notin {NoName, "$", "rsp", "(%rsp)", "8(%rsp)", "(%rax)"} /\ r \notin DOMAIN AddressOf
  /\ \A v \in DOMAIN AddressOf : v \notin {NoName, "$", "rsp", "(%rsp)", "8(%rsp)", "(%rax)"} /\ v \notin Registers
<1>1. {RegularRegisters[i] : i \in DOMAIN RegularRegisters} = {"rdi", "rsi", "rdx", "rcx", "r8", "r9"}
  <2>1. DOMAIN RegularRegisters = 1 .. 6
    BY DEF RegularRegisters
  <2> QED BY <2>1 DEF RegularRegisters
<1>2. {FloatRegisters[i] : i \in DOMAIN FloatRegisters} =
        {"xmm0", "xmm1", "xmm2", "xmm3", "xmm4", "xmm5", "xmm6", "xmm7"}
  <2>1. DOMAIN FloatRegisters = 1 .. 8
    BY DEF FloatRegisters
  <2> QED BY <2>1 DEF FloatRegisters
<1>3. ParameterRegisters = {"rdi", "rsi", "rdx", "rcx", "r8", "r9", "xmm0", "xmm1", "xmm2", "xmm3",
                           "xmm4", "xmm5", "xmm6", "xmm7"}
  BY <1>1, <1>2 DEF ParameterRegisters
<1>4. Registers = ParameterRegisters \cup {"rax", "rbx", "rbp", "r12"}
  BY DEF Registers, CallerSaved, CalleeSaved
<1>5. \A r \in Registers : r # NoName
  BY <1>3, <1>4, Zenon DEF NoName
<1>6. \A r \in Registers : r \notin {"$", "rsp", "(%rsp)", "8(%rsp)", "(%rax)"}
  BY <1>3, <1>4
<1>7. \A v \in DOMAIN AddressOf : v \notin Registers \cup OtherOperands
  BY MemoryAssumption
<1> QED BY <1>3, <1>4, <1>5, <1>6, <1>7 DEF OtherOperands

-----------------------------------------------------------------------------
(***************************************************************************)
(* The code of the calls, and where it is in the program.                  *)
(***************************************************************************)
LEMMA Fields ==
  ASSUME NEW c, NEW t, NEW v, NEW k
  PROVE  /\ OpOf(c, t).call = c /\ OpOf(c, t).type = t
         /\ OpNamed(c, t, v).call = c /\ OpNamed(c, t, v).type = t /\ OpNamed(c, t, v).name = v
         /\ OpTag(c, k).call = c /\ OpTag(c, k).n = k
         /\ [OpOf(c, t) EXCEPT !.n = k].call = c /\ [OpOf(c, t) EXCEPT !.n = k].type = t
         /\ [OpOf(c, t) EXCEPT !.n = k].n = k
         /\ [OpTag(c, k) EXCEPT !.name = v].call = c /\ [OpTag(c, k) EXCEPT !.name = v].n = k
         /\ [OpTag(c, k) EXCEPT !.name = v].name = v
BY DEF OpOf, OpNamed, OpTag, NoOp

LEMMA TypeNumbers ==
  /\ UNSIGNED_INT \notin {DOUBLE, BOOL, CHAR, VOID} /\ ~IsFloat(UNSIGNED_INT) /\ IsRegular(UNSIGNED_INT)
BY DEF UNSIGNED_INT, DOUBLE, BOOL, CHAR, VOID, IsFloat, IsRegular, Integral, Floating

\* The instructions of these programs.
Mnemonics    == {"movq", "movabs", "movb", "leaq", "pushq", "popq", "addq", "andq_low", "andq_high", "orq",
                 "cmpq", "test", "jmp", "jz", "jl", "jbe", "label", "call", "ret"}
Operands     == Registers \cup OtherOperands \cup DOMAIN AddressOf
                \cup {"__for", "__while", "__true", "__next", "printf"}
Instructions == [op : Mnemonics, src : Operands, dst : Operands, n : Int]

LEMMA Typed ==
  /\ \A o \in Mnemonics, s, d \in Operands : Ins(o, s, d) \in Instructions
  /\ \A o \in Mnemonics, d \in Operands, k \in Int : Imm(o, k, d) \in Instructions
  /\ \A o \in Mnemonics, s \in Operands, k \in Int : Tag(o, s, k) \in Instructions
  /\ \A s \in Operands : Push(s) \in Instructions /\ PopTo(s) \in Instructions
<1>1. NoName \in Operands /\ "$" \in Operands
  BY Zenon DEF Operands, OtherOperands
<1> HIDE DEF Operands
<1>2. {"pushq", "popq"} \subseteq Mnemonics
  BY DEF Mnemonics
<1> QED BY <1>1, <1>2 DEF Ins, Imm, Tag, Push, PopTo, Instructions

\* The operands with names.
LEMMA Named ==
  /\ {"rax", "rbx", "rbp", "r12", "rdi", "rsi", "rsp", "__for", "__while", "__true", "__next", "printf", NoName}
       \subseteq Operands
  /\ DOMAIN AddressOf \subseteq Operands
BY RegisterNames, Zenon DEF Operands, OtherOperands

\* What the methods for calls write, instruction by instruction.
LEMMA VariableCode ==
  ASSUME NEW v
  PROVE  Load(v) = <<Push(v)>> /\ Store(v) = <<PopTo(v)>>
<1>1. PICK o : o = OpNamed("load_variable", UNSIGNED_INT, v)
  OBVIOUS
<1>2. Code(o) = <<Push(v)>>
  <2>1. o.call = "load_variable" /\ o.name = v
    BY <1>1, Fields
  <2> QED BY <2>1 DEF Code, Compares
<1>3. PICK q : q = OpNamed("store_variable", UNSIGNED_INT, v)
  OBVIOUS
<1>4. Code(q) = <<PopTo(v)>>
  <2>1. q.call = "store_variable" /\ q.name = v
    BY <1>3, Fields
  <2> QED BY <2>1 DEF Code, Compares
<1> QED BY <1>1, <1>2, <1>3, <1>4 DEF Load, Store

LEMMA MarkCode ==
  ASSUME NEW v, NEW t
  PROVE  /\ Mark("statement_for_post_assignment", t) = <<Tag("label", "__for", t)>>
         /\ ForMark("statement_for_post_check", v, t) = ForPostCheck(v, t)
         /\ ForMark("statement_for_finalize", v, t) = ForFinalize(v, t)
         /\ Mark("statement_while_prepare", t) = <<Tag("label", "__while", t)>>
         /\ Mark("statement_while_post_check", t) = PostCheck("__next", t)
         /\ Mark("statement_while_finalize", t) = <<Tag("jmp", "__while", t), Tag("label", "__next", t)>>
<1>1. ASSUME NEW o, o.call \in {"statement_for_post_assignment", "statement_for_post_check", "statement_for_finalize",
                                "statement_while_prepare", "statement_while_post_check", "statement_while_finalize"}
      PROVE  Code(o) = StatementCode(o)
  BY <1>1 DEF Code, Compares
<1>2. Mark("statement_for_post_assignment", t) = <<Tag("label", "__for", t)>>
  <2>1. PICK o : o = OpTag("statement_for_post_assignment", t)
    OBVIOUS
  <2>2. o.call = "statement_for_post_assignment" /\ o.n = t
    BY <2>1, Fields
  <2>3. StatementCode(o) = <<Tag("label", "__for", t)>>
    BY <2>2 DEF StatementCode
  <2> QED BY <1>1, <2>1, <2>2, <2>3 DEF Mark
<1>3. ForMark("statement_for_post_check", v, t) = ForPostCheck(v, t)
  <2>1. PICK o : o = [OpTag("statement_for_post_check", t) EXCEPT !.name = v]
    OBVIOUS
  <2>2. o.call = "statement_for_post_check" /\ o.n = t /\ o.name = v
    BY <2>1, Fields
  <2>3. StatementCode(o) = ForPostCheck(v, t)
    BY <2>2 DEF StatementCode
  <2>4. Code(o) = ForPostCheck(v, t)
    BY <1>1, <2>2, <2>3
  <2> QED BY ONLY <2>1, <2>4, Zenon DEF ForMark
<1>4. ForMark("statement_for_finalize", v, t) = ForFinalize(v, t)
  <2>1. PICK o : o = [OpTag("statement_for_finalize", t) EXCEPT !.name = v]
    OBVIOUS
  <2>2. o.call = "statement_for_finalize" /\ o.n = t /\ o.name = v
    BY <2>1, Fields
  <2>3. StatementCode(o) = ForFinalize(v, t)
    BY <2>2 DEF StatementCode
  <2>4. Code(o) = ForFinalize(v, t)
    BY <1>1, <2>2, <2>3
  <2> QED BY ONLY <2>1, <2>4, Zenon DEF ForMark
<1>5. Mark("statement_while_prepare", t) = <<Tag("label", "__while", t)>>
  <2>1. PICK o : o = OpTag("statement_while_prepare", t)
    OBVIOUS
  <2>2. o.call = "statement_while_prepare" /\ o.n = t
    BY <2>1, Fields
  <2>3. StatementCode(o) = <<Tag("label", "__while", t)>>
    BY <2>2 DEF StatementCode
  <2> QED BY <1>1, <2>1, <2>2, <2>3 DEF Mark
<1>6. Mark("statement_while_post_check", t) = PostCheck("__next", t)
  <2>1. PICK o : o = OpTag("statement_while_post_check", t)
    OBVIOUS
  <2>2. o.call = "statement_while_post_check" /\ o.n = t
    BY <2>1, Fields
  <2>3. StatementCode(o) = PostCheck("__next", t)
    BY <2>2 DEF StatementCode
  <2> QED BY <1>1, <2>1, <2>2, <2>3 DEF Mark
<1>7. Mark("statement_while_finalize", t) = <<Tag("jmp", "__while", t), Tag("label", "__next", t)>>
  <2>1. PICK o : o = OpTag("statement_while_finalize", t)
    OBVIOUS
  <2>2. o.call = "statement_while_finalize" /\ o.n = t
    BY <2>1, Fields
  <2>3. StatementCode(o) = <<Tag("jmp", "__while", t), Tag("label", "__next", t)>>
    BY <2>2 DEF StatementCode
  <2> QED BY <1>1, <2>1, <2>2, <2>3 DEF Mark
<1> QED BY <1>2, <1>3, <1>4, <1>5, <1>6, <1>7

-----------------------------------------------------------------------------
(***************************************************************************)
(* The processor.                                                          *)
(***************************************************************************)
LEMMA Dispatch ==
  ASSUME Execute
  PROVE  /\ running = "running" /\ ip <= Len(code)
         /\ Current.op \in {"movq", "movabs", "movb", "movsd", "leaq"} => Move
         /\ Current.op = "pushq" => PushWord
         /\ Current.op = "popq" => PopWord
         /\ Current.op \in {"addq", "subq", "andq", "orq", "pxor", "notq", "andq_low", "andq_high"} => Arithmetics
         /\ Current.op = "mulq" => Multiply
         /\ Current.op = "div" => Divide
         /\ Current.op \in {"cmpq", "test"} => Compare
         /\ Current.op \in {"jmp", "je", "jz", "jne", "jb", "jae", "jbe", "ja", "jl"} => Jump
         /\ Current.op = "label" => Label
         /\ Current.op \in {"fldl", "fildq"} => X87Load
         /\ Current.op \in {"fstpl", "fistpq"} => X87Store
         /\ Current.op \in {"faddp", "fsubp", "fmulp", "fdivp"} => X87Arithmetic
         /\ Current.op \in {"fcomip", "fstp"} => X87Compare
         /\ Current.op = "call" => Call
         /\ Current.op = "ret" => Return
<1>1. DOMAIN X87Sign = {"faddp", "fsubp", "fmulp", "fdivp"}
  BY DEF X87Sign
<1>2. CASE Move
  BY <1>2 DEF Move, Runs
<1>3. CASE PushWord
  BY <1>3 DEF PushWord, Runs
<1>4. CASE PopWord
  BY <1>4 DEF PopWord, Runs
<1>5. CASE Arithmetics
  BY <1>5 DEF Arithmetics, Runs
<1>6. CASE Multiply
  BY <1>6 DEF Multiply, Runs
<1>7. CASE Divide
  BY <1>7 DEF Divide, Runs
<1>8. CASE Compare
  BY <1>8 DEF Compare, Runs
<1>9. CASE Jump
  BY <1>9 DEF Jump, Runs
<1>10. CASE Label
  BY <1>10 DEF Label, Runs
<1>11. CASE X87Load
  BY <1>11 DEF X87Load, Runs
<1>12. CASE X87Store
  BY <1>12 DEF X87Store, Runs
<1>13. CASE X87Arithmetic
  BY <1>1, <1>13 DEF X87Arithmetic, Runs
<1>14. CASE X87Compare
  BY <1>14 DEF X87Compare, Runs
<1>15. CASE Call
  BY <1>15 DEF Call, Runs
<1>16. CASE Return
  BY <1>16 DEF Return, Runs
<1> QED BY <1>2, <1>3, <1>4, <1>5, <1>6, <1>7, <1>8, <1>9, <1>10, <1>11, <1>12, <1>13,
           <1>14, <1>15, <1>16 DEF Execute

LEMMA Reads ==
  ASSUME NEW ins
  PROVE  /\ Read(ins, "$") = ins.n
         /\ Read(ins, "rsp") = Rsp
         /\ Read(ins, "(%rsp)") = mem[Len(mem)]
         /\ Read(ins, "8(%rsp)") = mem[Len(mem) - 1]
         /\ Read(ins, "(%rax)") = store[Target(reg["rax"])]
         /\ \A r \in Registers : Read(ins, r) = reg[r]
         /\ \A v \in DOMAIN AddressOf : Read(ins, v) = store[v]
<1>1. \A r \in Registers : r \notin {"$", "rsp", "(%rsp)", "8(%rsp)", "(%rax)"}
  BY RegisterNames
<1>2. \A v \in DOMAIN AddressOf : v \notin {"$", "rsp", "(%rsp)", "8(%rsp)", "(%rax)"} /\ v \notin Registers
  BY RegisterNames
<1>3. {"$", "rsp", "(%rsp)", "8(%rsp)", "(%rax)"} \cap Registers = {}
  BY <1>1
<1> QED BY <1>1, <1>2, <1>3 DEF Read


\* What no instruction of these programs touches, and what the next state has of it.
Shape ==
  /\ reg = [r \in Registers |-> reg[r]]
  /\ store = [v \in DOMAIN AddressOf |-> store[v]]

Onward == ip' = ip + 1 /\ UNCHANGED <<code, running>>

\* The value of a register or a variable.
Held(s) == IF s \in Registers THEN reg[s] ELSE store[s]

LEMMA ReadsHeld ==
  ASSUME NEW ins, NEW s \in Registers \cup DOMAIN AddressOf
  PROVE  Read(ins, s) = Held(s) /\ s \notin {"$", "(%rax)", "rsp"}
BY Reads, RegisterNames DEF Held

LEMMA PushHeld ==
  ASSUME Execute, NEW s \in Registers \cup DOMAIN AddressOf, Current = Push(s)
  PROVE  Onward /\ mem' = Append(mem, Held(s)) /\ UNCHANGED <<reg, store, flags, heard>>
<1>1. Current.op = "pushq" /\ Current.src = s /\ Current.dst = NoName
  BY DEF Push, Ins
<1>2. PushWord
  BY <1>1, Dispatch
<1>3. s \notin {"$", "(%rax)"} /\ Read(Current, s) = Held(s)
  BY ReadsHeld
<1>4. NoName # "(%rax)"
  BY Zenon DEF NoName
<1>5. Accesses
  BY <1>1, <1>3, <1>4 DEF Accesses
<1> QED BY <1>1, <1>2, <1>3, <1>5 DEF PushWord, Advance, Onward

\* A number the assembler has no instruction for ends the program.
LEMMA PushImmediate ==
  ASSUME Execute, NEW w, Current = Imm("pushq", w, NoName)
  PROVE  \/ running' = "refused" /\ UNCHANGED <<code, reg, store>>
         \/ Onward /\ mem' = Append(mem, w) /\ UNCHANGED <<reg, store, flags, heard>>
<1>1. Current.op = "pushq" /\ Current.src = "$" /\ Current.dst = NoName /\ Current.n = w
  BY DEF Imm
<1>2. PushWord
  BY <1>1, Dispatch
<1>3. Read(Current, "$") = w
  BY <1>1, Reads
<1>4. NoName # "(%rax)"
  BY Zenon DEF NoName
<1>5. Accesses
  BY <1>1, <1>4 DEF Accesses
<1> QED BY <1>1, <1>2, <1>3, <1>5 DEF PushWord, Advance, Onward, Stop

LEMMA PopRegister ==
  ASSUME Execute, Shape, NEW r \in Registers, Current = PopTo(r)
  PROVE  /\ Onward /\ mem' = SubSeq(mem, 1, Len(mem) - 1)
         /\ reg' = [reg EXCEPT ![r] = mem[Len(mem)]] /\ UNCHANGED <<store, flags, heard>>
<1>1. Current.op = "popq" /\ Current.dst = r
  BY DEF PopTo, Ins
<1>2. PopWord
  BY <1>1, Dispatch
<1>3. r # "(%rax)" /\ r \notin DOMAIN store
  BY RegisterNames DEF Shape
<1>4. Put(r, mem[Len(mem)])
  BY <1>1, <1>2 DEF PopWord
<1>5. reg' = [reg EXCEPT ![r] = mem[Len(mem)]] /\ store' = store
  BY <1>3, <1>4 DEF Put
<1> QED BY <1>2, <1>5 DEF PopWord, Advance, Onward

LEMMA PopVariable ==
  ASSUME Execute, Shape, NEW v \in DOMAIN AddressOf, Current = PopTo(v)
  PROVE  /\ Onward /\ mem' = SubSeq(mem, 1, Len(mem) - 1)
         /\ store' = [store EXCEPT ![v] = mem[Len(mem)]] /\ UNCHANGED <<reg, flags, heard>>
<1>1. Current.op = "popq" /\ Current.dst = v
  BY DEF PopTo, Ins
<1>2. PopWord
  BY <1>1, Dispatch
<1>3. v # "(%rax)" /\ v \notin Registers /\ v \in DOMAIN store
  BY RegisterNames DEF Shape
<1>4. Put(v, mem[Len(mem)])
  BY <1>1, <1>2 DEF PopWord
<1>5. store' = [store EXCEPT ![v] = mem[Len(mem)]] /\ reg' = reg
  BY <1>3, <1>4 DEF Put
<1> QED BY <1>2, <1>5 DEF PopWord, Advance, Onward

LEMMA MoveImmediate ==
  ASSUME Execute, Shape, NEW r \in Registers, NEW w, NEW op \in {"movabs", "movb", "leaq"}, Current = Imm(op, w, r)
  PROVE  Onward /\ reg' = [reg EXCEPT ![r] = w] /\ UNCHANGED <<mem, store, flags, heard>>
<1>1. Current.op = op /\ Current.src = "$" /\ Current.dst = r /\ Current.n = w
  BY DEF Imm
<1>2. Move
  BY <1>1, Dispatch
<1>3. Read(Current, "$") = w
  BY <1>1, Reads
<1>4. r \notin {"(%rax)", "(%rsp)", "rsp"} /\ r \notin DOMAIN store
  BY RegisterNames DEF Shape
<1>5. Accesses
  BY <1>1, <1>4 DEF Accesses
<1>6. Write(r, w) /\ Advance /\ UNCHANGED <<st, flags, heard>>
  BY <1>1, <1>2, <1>3, <1>5 DEF Move
<1>7. reg' = [reg EXCEPT ![r] = w] /\ store' = store /\ mem' = mem
  BY <1>4, <1>6 DEF Write, Put
<1> QED BY <1>6, <1>7 DEF Advance, Onward

LEMMA SaveStackPointer ==
  ASSUME Execute, Shape, Current = Ins("movq", "rsp", "r12")
  PROVE  Onward /\ reg' = [reg EXCEPT !["r12"] = Rsp] /\ UNCHANGED <<mem, store, flags, heard>>
<1>1. Current.op = "movq" /\ Current.src = "rsp" /\ Current.dst = "r12"
  BY DEF Ins
<1>2. Move
  BY <1>1, Dispatch
<1>3. Read(Current, "rsp") = Rsp
  BY Reads
<1>4. "r12" \in Registers /\ "r12" \notin DOMAIN store
  BY RegisterNames DEF Shape
<1>5. Accesses
  BY <1>1 DEF Accesses
<1>6. Write("r12", Rsp) /\ Advance /\ UNCHANGED <<st, flags, heard>>
  BY <1>1, <1>2, <1>3, <1>5 DEF Move
<1>7. reg' = [reg EXCEPT !["r12"] = Rsp] /\ store' = store /\ mem' = mem
  BY <1>4, <1>6 DEF Write, Put
<1> QED BY <1>6, <1>7 DEF Advance, Onward

LEMMA RestoreStackPointer ==
  ASSUME Execute, Shape, Current = Ins("movq", "rbp", "rsp")
  PROVE  Onward /\ UNCHANGED <<reg, store, heard>>
<1>1. Current.op = "movq" /\ Current.src = "rbp" /\ Current.dst = "rsp"
  BY DEF Ins
<1>2. Move
  BY <1>1, Dispatch
<1>3. "rsp" \notin Registers /\ "rsp" \notin DOMAIN store
  BY RegisterNames DEF Shape
<1>4. Accesses
  BY <1>1 DEF Accesses
<1>5. PICK w : Write("rsp", w) /\ Advance /\ UNCHANGED <<st, flags, heard>>
  BY <1>1, <1>2, <1>4 DEF Move
<1>6. reg' = reg /\ store' = store
  BY <1>3, <1>5 DEF Write, Put
<1> QED BY <1>5, <1>6 DEF Advance, Onward

\* What an arithmetic instruction writes, and where.
LEMMA ArithmeticStep ==
  ASSUME Execute, Current.op \in {"addq", "andq_low", "andq_high", "orq"}, Current.src # NoName
  PROVE  /\ Onward /\ UNCHANGED <<flags, heard>>
         /\ Write(Current.dst, Alu(Current.op, Read(Current, Current.dst), Read(Current, Current.src)))
<1>1. Arithmetics
  BY Dispatch
<1> QED BY <1>1 DEF Arithmetics, Advance, Onward

LEMMA LowBit ==
  ASSUME Execute, Shape, Current = Imm("andq_low", 0, "r12")
  PROVE  Onward /\ reg' = [reg EXCEPT !["r12"] = reg["r12"] % 2] /\ UNCHANGED <<mem, store, flags, heard>>
<1>1. Current.op = "andq_low" /\ Current.src = "$" /\ Current.dst = "r12"
  BY DEF Imm
<1>2. "$" # NoName /\ "r12" \in Registers /\ "r12" \notin DOMAIN store
  <2>1. "$" # NoName
    BY Zenon DEF NoName
  <2> QED BY <2>1, RegisterNames DEF Shape
<1>3. Read(Current, "r12") = reg["r12"]
  BY <1>2, Reads
<1>4. \A b : Alu("andq_low", reg["r12"], b) = reg["r12"] % 2
  BY DEF Alu
<1>5. Onward /\ UNCHANGED <<flags, heard>> /\ Write("r12", reg["r12"] % 2)
  BY <1>1, <1>2, <1>3, <1>4, ArithmeticStep
<1> QED BY <1>2, <1>5 DEF Write, Put

LEMMA RoundDown ==
  ASSUME Execute, Shape, Current = Imm("andq_high", 0, "rsp")
  PROVE  Onward /\ mem' = StackAt(Rsp - (Rsp % 2)) /\ UNCHANGED <<reg, store, flags, heard>>
<1>1. Current.op = "andq_high" /\ Current.src = "$" /\ Current.dst = "rsp"
  BY DEF Imm
<1>2. "$" # NoName
  BY Zenon DEF NoName
<1>3. "rsp" \notin Registers /\ "rsp" \notin DOMAIN store
  BY RegisterNames DEF Shape
<1>4. Read(Current, "rsp") = Rsp
  BY Reads
<1>5. \A b : Alu("andq_high", Rsp, b) = Rsp - (Rsp % 2)
  BY DEF Alu
<1>6. Onward /\ UNCHANGED <<flags, heard>> /\ Write("rsp", Rsp - (Rsp % 2))
  BY <1>1, <1>2, <1>4, <1>5, ArithmeticStep
<1> QED BY <1>3, <1>6 DEF Write, Put

LEMMA OrBack ==
  ASSUME Execute, Shape, Current = Ins("orq", "r12", "rsp")
  PROVE  Onward /\ mem' = StackAt(BitOr(Rsp, reg["r12"])) /\ UNCHANGED <<reg, store, flags, heard>>
<1>1. Current.op = "orq" /\ Current.src = "r12" /\ Current.dst = "rsp"
  BY DEF Ins
<1>2. "r12" # NoName /\ "r12" \in Registers
  BY RegisterNames
<1>3. "rsp" \notin Registers /\ "rsp" \notin DOMAIN store
  BY RegisterNames DEF Shape
<1>4. Read(Current, "rsp") = Rsp /\ Read(Current, "r12") = reg["r12"]
  BY <1>2, Reads
<1>5. Alu("orq", Rsp, reg["r12"]) = BitOr(Rsp, reg["r12"])
  BY DEF Alu
<1>6. Onward /\ UNCHANGED <<flags, heard>> /\ Write("rsp", BitOr(Rsp, reg["r12"]))
  BY <1>1, <1>2, <1>4, <1>5, ArithmeticStep
<1> QED BY <1>3, <1>6 DEF Write, Put

LEMMA AddToVariable ==
  ASSUME Execute, Shape, NEW v \in DOMAIN AddressOf, Current = Imm("addq", 1, v)
  PROVE  Onward /\ store' = [store EXCEPT ![v] = Wrap(store[v] + 1)] /\ UNCHANGED <<mem, reg, flags, heard>>
<1>1. Current.op = "addq" /\ Current.src = "$" /\ Current.dst = v /\ Current.n = 1
  BY DEF Imm
<1>2. "$" # NoName
  BY Zenon DEF NoName
<1>3. v \notin {"rsp", "(%rsp)", "(%rax)"} /\ v \notin Registers /\ v \in DOMAIN store
  BY RegisterNames DEF Shape
<1>4. Read(Current, v) = store[v] /\ Read(Current, "$") = 1
  BY <1>1, Reads
<1>5. Alu("addq", store[v], 1) = Wrap(store[v] + 1)
  BY <1>1, <1>3 DEF Alu
<1>6. Onward /\ UNCHANGED <<flags, heard>> /\ Write(v, Wrap(store[v] + 1))
  BY <1>1, <1>2, <1>4, <1>5, ArithmeticStep
<1> QED BY <1>3, <1>6 DEF Write, Put

LEMMA AddRegisters ==
  ASSUME Execute, Shape, Current = Ins("addq", "rbx", "rax")
  PROVE  Onward /\ reg' = [reg EXCEPT !["rax"] = Wrap(reg["rax"] + reg["rbx"])] /\ UNCHANGED <<mem, store, flags, heard>>
<1>1. Current.op = "addq" /\ Current.src = "rbx" /\ Current.dst = "rax"
  BY DEF Ins
<1>2. "rbx" # NoName /\ "rbx" \in Registers /\ "rax" \in Registers /\ "rax" \notin DOMAIN store
  BY RegisterNames DEF Shape
<1>3. Read(Current, "rax") = reg["rax"] /\ Read(Current, "rbx") = reg["rbx"]
  BY <1>2, Reads
<1>4. Alu("addq", reg["rax"], reg["rbx"]) = Wrap(reg["rax"] + reg["rbx"])
  BY <1>1 DEF Alu
<1>5. Onward /\ UNCHANGED <<flags, heard>> /\ Write("rax", Wrap(reg["rax"] + reg["rbx"]))
  BY <1>1, <1>2, <1>3, <1>4, ArithmeticStep
<1> QED BY <1>2, <1>5 DEF Write, Put

LEMMA CompareStep ==
  ASSUME Execute, NEW s \in Registers \cup DOMAIN AddressOf, Current = Ins("cmpq", s, "rax")
  PROVE  /\ Onward /\ UNCHANGED <<reg, mem, store, heard>>
         /\ flags' = [zf |-> reg["rax"] = Held(s), cf |-> reg["rax"] < Held(s), lt |-> Signed(reg["rax"]) < Signed(Held(s))]
<1>1. Current.op = "cmpq" /\ Current.src = s /\ Current.dst = "rax"
  BY DEF Ins
<1>2. Compare
  BY <1>1, Dispatch
<1>3. "rax" \in Registers
  BY RegisterNames
<1>4. Read(Current, "rax") = reg["rax"] /\ Read(Current, s) = Held(s)
  BY <1>3, Reads, ReadsHeld
<1> QED BY <1>1, <1>2, <1>4 DEF Compare, Advance, Onward

LEMMA TestStep ==
  ASSUME Execute, Current = Ins("test", "rax", "rax")
  PROVE  Onward /\ UNCHANGED <<reg, mem, store, heard>> /\ flags'.zf = (reg["rax"] = 0)
<1>1. Current.op = "test" /\ Current.src = "rax" /\ Current.dst = "rax"
  BY DEF Ins
<1>2. Compare
  BY <1>1, Dispatch
<1>3. "rax" \in Registers
  BY RegisterNames
<1>4. Read(Current, "rax") = reg["rax"]
  BY <1>3, Reads
<1> QED BY <1>1, <1>2, <1>4 DEF Compare, Advance, Onward

LEMMA JumpStep ==
  ASSUME Execute, NEW op \in {"jmp", "jz", "jl", "jbe"}, NEW name, NEW t, Current = Tag(op, name, t)
  PROVE  /\ ip' = IF Taken(op) THEN LabelAt(name, t) ELSE ip + 1
         /\ UNCHANGED <<code, running, reg, mem, store, flags, heard>>
<1>1. Current.op = op /\ Current.src = name /\ Current.n = t
  BY DEF Tag
<1>2. Jump
  BY <1>1, Dispatch
<1> QED BY <1>1, <1>2 DEF Jump

LEMMA LabelStep ==
  ASSUME Execute, NEW name, NEW t, Current = Tag("label", name, t)
  PROVE  Onward /\ UNCHANGED <<reg, mem, store, flags, heard>>
<1>1. Current.op = "label"
  BY DEF Tag
<1>2. Label
  BY <1>1, Dispatch
<1> QED BY <1>2 DEF Label, Advance, Onward

LEMMA ReturnStep ==
  ASSUME Execute, Current = Ins("ret", NoName, NoName)
  PROVE  running' = "returned" /\ UNCHANGED <<code, reg, store>>
<1>1. Current.op = "ret"
  BY DEF Ins
<1>2. Return
  BY <1>1, Dispatch
<1> QED BY <1>2 DEF Return, Stop

\* printf with the format of an INTEGER prints the second argument.
LEMMA CallStep ==
  ASSUME Execute, Current = Tag("call", "printf", 0), reg["rdi"] = 1
  PROVE  /\ Onward /\ UNCHANGED <<mem, store, flags>>
         /\ heard'.args[2] = reg["rsi"]
         /\ reg' = [r \in Registers |-> reg'[r]] /\ reg'["r12"] = reg["r12"]
<1>1. Current.op = "call" /\ Current.src = "printf"
  BY DEF Tag
<1>2. Call
  BY <1>1, Dispatch
<1>3. Heard("printf") = <<UNSIGNED_INT, reg["rsi"]>>
  BY DEF Heard, Printed, Format
<1>4. ReturnType("printf") = VOID
  BY DEF ReturnType
<1>5. "r12" \in CalleeSaved /\ "r12" \in Registers
  BY DEF CalleeSaved, Registers
<1>6. PICK junk : /\ heard' = [function |-> "printf", args |-> <<UNSIGNED_INT, reg["rsi"]>>]
                  /\ reg' = [r \in Registers |-> IF r \in CalleeSaved THEN reg[r] ELSE junk]
  <2>1. PICK junk \in Junk :
          /\ heard' = [function |-> Current.src, args |-> Heard(Current.src)]
          /\ reg' = [r \in Registers |->
                       CASE ReturnType(Current.src) # VOID /\ r = ResultRegister(ReturnType(Current.src)) ->
                              Result(Current.src, Heard(Current.src))
                         [] r \in CalleeSaved -> reg[r]
                         [] OTHER -> junk]
    BY <1>2 DEF Call
  <2> QED BY <1>1, <1>3, <1>4, <2>1
<1>7. Onward /\ UNCHANGED <<mem, store, flags>>
  BY <1>2 DEF Call, Advance, Onward
<1>8. heard'.args[2] = reg["rsi"]
  BY <1>6
<1> QED BY <1>5, <1>6, <1>7, <1>8

-----------------------------------------------------------------------------
(***************************************************************************)
(* Pieces of the programs: the code at index k, and what holds in it.      *)
(***************************************************************************)
LEMMA Stacks ==
  ASSUME NEW a, NEW x
  PROVE  /\ Append(<<a>>, x) = <<a, x>> /\ <<a, x>>[Len(<<a, x>>)] = x
         /\ SubSeq(<<a, x>>, 1, Len(<<a, x>>) - 1) = <<a>>
<1> DEFINE S == {a, x}
<1>1. <<a>> \in Seq(S) /\ <<a, x>> \in Seq(S)
  OBVIOUS
<1>2. Append(<<a>>, x) = <<a, x>>
  <2>1. Append(<<a>>, x) \in Seq(S) /\ <<a, x>> \in Seq(S) /\ Len(Append(<<a>>, x)) = 2 /\ Len(<<a, x>>) = 2
    BY <1>1
  <2>2. Append(<<a>>, x)[1] = <<a, x>>[1] /\ Append(<<a>>, x)[2] = <<a, x>>[2]
    BY <1>1
  <2>3. Len(Append(<<a>>, x)) = Len(<<a, x>>) /\ \A i \in 1 .. Len(Append(<<a>>, x)) : Append(<<a>>, x)[i] = <<a, x>>[i]
    BY <2>1, <2>2
  <2> HIDE DEF S
  <2> QED BY <2>1, <2>3, SeqEqual, Zenon
<1>3. SubSeq(<<a, x>>, 1, 1) = <<a>>
  <2>1. SubSeq(<<a, x>>, 1, 1) \in Seq(S) /\ <<a>> \in Seq(S) /\ Len(SubSeq(<<a, x>>, 1, 1)) = 1 /\ Len(<<a>>) = 1
    BY <1>1
  <2>2. SubSeq(<<a, x>>, 1, 1)[1] = <<a>>[1]
    BY <1>1
  <2>3. Len(SubSeq(<<a, x>>, 1, 1)) = Len(<<a>>) /\ \A i \in 1 .. Len(SubSeq(<<a, x>>, 1, 1)) : SubSeq(<<a, x>>, 1, 1)[i] = <<a>>[i]
    BY <2>1, <2>2
  <2> HIDE DEF S
  <2> QED BY <2>1, <2>3, SeqEqual, Zenon
<1> QED BY <1>2, <1>3

LEMMA Grown ==
  ASSUME NEW a, NEW x, NEW y
  PROVE  Append(<<a, x>>, y) = <<a, x, y>>
<1> DEFINE S == {a, x, y}
<1>1. <<a, x>> \in Seq(S) /\ <<a, x, y>> \in Seq(S)
  OBVIOUS
<1>2. Append(<<a, x>>, y) = <<a, x, y>>
  <2>1. Append(<<a, x>>, y) \in Seq(S) /\ <<a, x, y>> \in Seq(S) /\ Len(Append(<<a, x>>, y)) = 3 /\ Len(<<a, x, y>>) = 3
    BY <1>1
  <2>2. Append(<<a, x>>, y)[1] = <<a, x, y>>[1] /\ Append(<<a, x>>, y)[2] = <<a, x, y>>[2] /\ Append(<<a, x>>, y)[3] = <<a, x, y>>[3]
    BY <1>1
  <2>3. Len(Append(<<a, x>>, y)) = Len(<<a, x, y>>) /\ \A i \in 1 .. Len(Append(<<a, x>>, y)) : Append(<<a, x>>, y)[i] = <<a, x, y>>[i]
    BY <2>1, <2>2
  <2> HIDE DEF S
  <2> QED BY <2>1, <2>3, SeqEqual, Zenon
<1> QED BY <1>2

LEMMA Shrunk ==
  ASSUME NEW a, NEW x, NEW y
  PROVE  SubSeq(<<a, x, y>>, 1, Len(<<a, x, y>>) - 1) = <<a, x>> /\ <<a, x, y>>[Len(<<a, x, y>>)] = y
<1> DEFINE S == {a, x, y}
<1>1. <<a, x>> \in Seq(S) /\ <<a, x, y>> \in Seq(S)
  OBVIOUS
<1>2. SubSeq(<<a, x, y>>, 1, 2) = <<a, x>>
  <2>1. SubSeq(<<a, x, y>>, 1, 2) \in Seq(S) /\ <<a, x>> \in Seq(S) /\ Len(SubSeq(<<a, x, y>>, 1, 2)) = 2 /\ Len(<<a, x>>) = 2
    BY <1>1
  <2>2. SubSeq(<<a, x, y>>, 1, 2)[1] = <<a, x>>[1] /\ SubSeq(<<a, x, y>>, 1, 2)[2] = <<a, x>>[2]
    BY <1>1
  <2>3. Len(SubSeq(<<a, x, y>>, 1, 2)) = Len(<<a, x>>) /\ \A i \in 1 .. Len(SubSeq(<<a, x, y>>, 1, 2)) : SubSeq(<<a, x, y>>, 1, 2)[i] = <<a, x>>[i]
    BY <2>1, <2>2
  <2> HIDE DEF S
  <2> QED BY <2>1, <2>3, SeqEqual, Zenon
<1> QED BY <1>2

\* The steps that are not calls display nothing.
Quiet == UNCHANGED <<program, shown, code, store, running>> /\ Shape'

LEMMA QuietStep ==
  ASSUME Run, Shape, Current.op # "call", UNCHANGED <<code, store, running>>,
         \/ reg' = reg
         \/ \E r, w : reg' = [reg EXCEPT ![r] = w]
  PROVE  Quiet
<1>1. shown' = shown /\ program' = program
  BY DEF Run, Runs
<1>2. Shape'
  BY DEF Shape
<1> QED BY <1>1, <1>2 DEF Quiet

Width(w) == IF w \div 2 ^ ImmBits # 0 THEN 2 ELSE 1

LiteralAt(k, w) ==
  IF w \div 2 ^ ImmBits # 0 THEN code[k] = Imm("movabs", w, "rax") /\ code[k + 1] = Push("rax")
  ELSE code[k] = Imm("pushq", w, NoName)

InLiteral(k, w, below) ==
  \/ ip = k /\ mem = below
  \/ Width(w) = 2 /\ ip = k + 1 /\ mem = below /\ reg["rax"] = w

LEMMA LiteralStep ==
  ASSUME Run, Shape, NEW k \in Nat, NEW w, NEW below, LiteralAt(k, w), InLiteral(k, w, below)
  PROVE  \/ running' = "refused" /\ UNCHANGED <<program, shown, code>>
         \/ Quiet /\ InLiteral(k, w, below)'
         \/ Quiet /\ ip' = k + Width(w) /\ mem' = Append(below, w)
<1>1. Execute
  BY DEF Run
<1>2. "rax" \in Registers
  BY RegisterNames
<1>3. CASE w \div 2 ^ ImmBits # 0 /\ ip = k
  <2>1. Current = Imm("movabs", w, "rax")
    BY <1>3 DEF LiteralAt, Current
  <2>2. Onward /\ reg' = [reg EXCEPT !["rax"] = w] /\ UNCHANGED <<mem, store>>
    BY <1>1, <1>2, <2>1, MoveImmediate
  <2>3. Current.op # "call"
    BY <2>1 DEF Imm
  <2>4. Quiet
    BY <2>2, <2>3, QuietStep DEF Onward
  <2>5. reg'["rax"] = w
    BY <1>2, <2>2 DEF Shape
  <2>6. mem = below
    BY <1>3 DEF InLiteral
  <2> QED BY <1>3, <2>2, <2>4, <2>5, <2>6 DEF InLiteral, Onward, Width
<1>4. CASE w \div 2 ^ ImmBits # 0 /\ ip = k + 1
  <2>1. Current = Push("rax")
    BY <1>4 DEF LiteralAt, Current
  <2>2. Onward /\ mem' = Append(mem, Held("rax")) /\ UNCHANGED <<reg, store>>
    BY <1>1, <1>2, <2>1, PushHeld
  <2>3. Current.op # "call"
    BY <2>1 DEF Push, Ins
  <2>4. Quiet
    BY <2>2, <2>3, QuietStep DEF Onward
  <2>5. mem = below /\ reg["rax"] = w
    BY <1>4 DEF InLiteral
  <2> QED BY <1>2, <1>4, <2>2, <2>4, <2>5 DEF Onward, Width, Held
<1>5. CASE ~(w \div 2 ^ ImmBits # 0)
  <2>1. Current = Imm("pushq", w, NoName) /\ ip = k /\ mem = below
    BY <1>5 DEF LiteralAt, InLiteral, Current, Width
  <2>2. Current.op # "call"
    BY <2>1 DEF Imm
  <2>3. shown' = shown /\ program' = program
    BY <2>2 DEF Run, Runs
  <2>4. CASE running' = "refused" /\ UNCHANGED <<code, reg, store>>
    BY <2>3, <2>4
  <2>5. CASE Onward /\ mem' = Append(mem, w) /\ UNCHANGED <<reg, store>>
    <3>1. Quiet
      BY <2>2, <2>5, QuietStep DEF Onward
    <3> QED BY <1>5, <2>1, <2>5, <3>1 DEF Onward, Width
  <2>6. \/ running' = "refused" /\ UNCHANGED <<code, reg, store>>
        \/ Onward /\ mem' = Append(mem, w) /\ UNCHANGED <<reg, store, flags, heard>>
    BY <1>1, <2>1, PushImmediate
  <2> QED BY <2>4, <2>5, <2>6
<1> QED BY <1>3, <1>4, <1>5 DEF InLiteral, Width

\* DISPLAY of the value of a variable: up to its call, and after it.
ShowAt(k, v) ==
  /\ code[k] = Push(v) /\ code[k + 1] = Imm("leaq", 1, "rdi") /\ code[k + 2] = PopTo("rsi")
  /\ code[k + 3] = Imm("movb", 0, "rax") /\ code[k + 4] = Ins("movq", "rsp", "r12")
  /\ code[k + 5] = Imm("andq_low", 0, "r12") /\ code[k + 6] = Imm("andq_high", 0, "rsp")
  /\ code[k + 7] = Tag("call", "printf", 0) /\ code[k + 8] = Ins("orq", "r12", "rsp")

InShow(k, v) ==
  \/ ip = k /\ mem = <<ReturnAddress>>
  \/ ip = k + 1 /\ mem = <<ReturnAddress, store[v]>>
  \/ ip = k + 2 /\ mem = <<ReturnAddress, store[v]>> /\ reg["rdi"] = 1
  \/ ip = k + 3 /\ mem = <<ReturnAddress>> /\ reg["rdi"] = 1 /\ reg["rsi"] = store[v]
  \/ ip = k + 4 /\ mem = <<ReturnAddress>> /\ reg["rdi"] = 1 /\ reg["rsi"] = store[v]
  \/ ip = k + 5 /\ mem = <<ReturnAddress>> /\ reg["rdi"] = 1 /\ reg["rsi"] = store[v] /\ reg["r12"] = StackBase - 1
  \/ ip = k + 6 /\ mem = <<ReturnAddress>> /\ reg["rdi"] = 1 /\ reg["rsi"] = store[v] /\ reg["r12"] = 1
  \/ ip = k + 7 /\ mem = <<ReturnAddress, 0>> /\ reg["rdi"] = 1 /\ reg["rsi"] = store[v] /\ reg["r12"] = 1

InShown(k) == ip = k + 8 /\ mem = <<ReturnAddress, 0>> /\ reg["r12"] = 1

\* The stack pointer is odd where a statement begins.
LEMMA Aligned ==
  /\ mem = <<ReturnAddress>> => /\ Rsp = StackBase - 1 /\ (StackBase - 1) % 2 = 1
                                /\ StackAt(StackBase - 2) = <<ReturnAddress, 0>>
  /\ mem = <<ReturnAddress, 0>> => /\ BitOr(Rsp, 1) = StackBase - 1
                                   /\ StackAt(StackBase - 1) = <<ReturnAddress>>
<1>1. StackBase \in Nat /\ StackBase >= 4 /\ StackBase % 2 = 0 /\ (StackBase - 1) % 2 = 1 /\ (StackBase - 2) % 2 = 0
  <2>1. StackBase \in Nat /\ StackBase >= 4 /\ StackBase % 2 = 0
    BY MemoryAssumption, LoopsAssumption
  <2> QED BY <2>1
<1>2. ASSUME mem = <<ReturnAddress>>
      PROVE  /\ Rsp = StackBase - 1
             /\ StackAt(StackBase - 2) = <<ReturnAddress, 0>>
  <2>1. Rsp = StackBase - 1
    BY <1>1, <1>2 DEF Rsp
  <2>2. StackAt(StackBase - 2) = <<ReturnAddress>> \o [i \in 1 .. 1 |-> 0]
    <3>1. ~(StackBase - 2 >= StackBase - 1) /\ StackBase - 1 - (StackBase - 2) = 1
      BY <1>1
    <3> QED BY <1>2, <2>1, <3>1 DEF StackAt
  <2>3. <<ReturnAddress>> \o [i \in 1 .. 1 |-> 0] = <<ReturnAddress, 0>>
    <3>1. [i \in 1 .. 1 |-> 0] \in Seq(Int) /\ <<ReturnAddress>> \in Seq(Int) /\ <<ReturnAddress, 0>> \in Seq(Int)
      BY DEF ReturnAddress
    <3>2. /\ <<ReturnAddress>> \o [i \in 1 .. 1 |-> 0] \in Seq(Int)
          /\ Len(<<ReturnAddress>> \o [i \in 1 .. 1 |-> 0]) = Len(<<ReturnAddress, 0>>)
          /\ \A i \in 1 .. Len(<<ReturnAddress>> \o [j \in 1 .. 1 |-> 0]) :
               (<<ReturnAddress>> \o [j \in 1 .. 1 |-> 0])[i] = <<ReturnAddress, 0>>[i]
      BY <3>1
    <3> QED BY <3>1, <3>2, SeqEqual, Zenon
  <2> QED BY <2>1, <2>2, <2>3
<1>3. ASSUME mem = <<ReturnAddress, 0>>
      PROVE  /\ BitOr(Rsp, 1) = StackBase - 1
             /\ StackAt(StackBase - 1) = <<ReturnAddress>>
  <2>1. Rsp = StackBase - 2
    BY <1>1, <1>3 DEF Rsp
  <2>2. BitOr(StackBase - 2, 1) = StackBase - 1
    <3>1. StackBase - 2 \in 0 .. StackBase /\ (StackBase - 2) + 1 = StackBase - 1
      BY <1>1
    <3>2. BitOr(StackBase - 2, 1) = (StackBase - 2) + 1
      BY <1>1, <3>1, BitwiseAssumption
    <3> QED BY <3>1, <3>2
  <2>3. StackAt(StackBase - 1) = SubSeq(<<ReturnAddress, 0>>, 1, 1)
    <3>1. StackBase - 1 >= StackBase - 2 /\ StackBase - (StackBase - 1) = 1
      BY <1>1
    <3> QED BY <1>3, <2>1, <3>1 DEF StackAt
  <2>4. SubSeq(<<ReturnAddress, 0>>, 1, Len(<<ReturnAddress, 0>>) - 1) = <<ReturnAddress>>
    BY Stacks
  <2> QED BY <2>1, <2>2, <2>3, <2>4
<1> QED BY <1>1, <1>2, <1>3

LEMMA ShowStep ==
  ASSUME Run, Shape, NEW k \in Nat, NEW v \in DOMAIN AddressOf, ShowAt(k, v), InShow(k, v)
  PROVE  \/ Quiet /\ InShow(k, v)'
         \/ /\ UNCHANGED <<program, code, store, running>> /\ Shape'
            /\ InShown(k)' /\ shown' = Append(shown, store[v])
<1>1. Execute
  BY DEF Run
<1>2. {"rax", "rdi", "rsi", "r12"} \subseteq Registers /\ v \notin Registers
  BY RegisterNames
<1>3. Held(v) = store[v]
  BY <1>2 DEF Held
<1>4. CASE ip = k /\ mem = <<ReturnAddress>>
  <2>1. Current = Push(v)
    BY <1>4 DEF ShowAt, Current
  <2>2. Onward /\ UNCHANGED store /\ mem' = Append(mem, Held(v)) /\ reg' = reg
    BY <1>1, <1>2, <2>1, PushHeld
  <2>3. Onward /\ UNCHANGED store /\ mem' = <<ReturnAddress, store[v]>> /\ reg' = reg
    <3>1. Append(<<ReturnAddress>>, store[v]) = <<ReturnAddress, store[v]>>
      BY Stacks
    <3> QED BY <1>4, <1>3, <2>2, <3>1
  <2>4. Current.op # "call"
    BY <2>1 DEF Push, Ins
  <2>5. Quiet
    BY <2>3, <2>4, QuietStep DEF Onward
  <2> QED BY <1>2, <1>4, <2>3, <2>5 DEF InShow, Onward, Shape
<1>5. CASE ip = k + 1 /\ mem = <<ReturnAddress, store[v]>>
  <2>1. Current = Imm("leaq", 1, "rdi")
    BY <1>5 DEF ShowAt, Current
  <2>3. Onward /\ UNCHANGED store /\ mem' = mem /\ reg' = [reg EXCEPT !["rdi"] = 1]
    BY <1>1, <1>2, <2>1, MoveImmediate
  <2>4. Current.op # "call"
    BY <2>1 DEF Imm
  <2>5. Quiet
    BY <2>3, <2>4, QuietStep DEF Onward
  <2> QED BY <1>2, <1>5, <2>3, <2>5 DEF InShow, Onward, Shape
<1>6. CASE ip = k + 2 /\ mem = <<ReturnAddress, store[v]>> /\ reg["rdi"] = 1
  <2>1. Current = PopTo("rsi")
    BY <1>6 DEF ShowAt, Current
  <2>2. Onward /\ UNCHANGED store /\ mem' = SubSeq(mem, 1, Len(mem) - 1) /\ reg' = [reg EXCEPT !["rsi"] = mem[Len(mem)]]
    BY <1>1, <1>2, <2>1, PopRegister
  <2>3. Onward /\ UNCHANGED store /\ mem' = <<ReturnAddress>> /\ reg' = [reg EXCEPT !["rsi"] = store[v]]
    <3>1. SubSeq(<<ReturnAddress, store[v]>>, 1, Len(<<ReturnAddress, store[v]>>) - 1) = <<ReturnAddress>>
      BY Stacks
    <3> QED BY <1>6, <1>3, <2>2, <3>1
  <2>4. Current.op # "call"
    BY <2>1 DEF PopTo, Ins
  <2>5. Quiet
    BY <2>3, <2>4, QuietStep DEF Onward
  <2> QED BY <1>2, <1>6, <2>3, <2>5 DEF InShow, Onward, Shape
<1>7. CASE ip = k + 3 /\ mem = <<ReturnAddress>> /\ reg["rdi"] = 1 /\ reg["rsi"] = store[v]
  <2>1. Current = Imm("movb", 0, "rax")
    BY <1>7 DEF ShowAt, Current
  <2>3. Onward /\ UNCHANGED store /\ mem' = mem /\ reg' = [reg EXCEPT !["rax"] = 0]
    BY <1>1, <1>2, <2>1, MoveImmediate
  <2>4. Current.op # "call"
    BY <2>1 DEF Imm
  <2>5. Quiet
    BY <2>3, <2>4, QuietStep DEF Onward
  <2> QED BY <1>2, <1>7, <2>3, <2>5 DEF InShow, Onward, Shape
<1>8. CASE ip = k + 4 /\ mem = <<ReturnAddress>> /\ reg["rdi"] = 1 /\ reg["rsi"] = store[v]
  <2>1. Current = Ins("movq", "rsp", "r12")
    BY <1>8 DEF ShowAt, Current
  <2>2. Rsp = StackBase - 1
    BY <1>8, Aligned
  <2>3. Onward /\ UNCHANGED store /\ mem' = mem /\ reg' = [reg EXCEPT !["r12"] = StackBase - 1]
    BY <1>1, <2>1, <2>2, SaveStackPointer
  <2>4. Current.op # "call"
    BY <2>1 DEF Ins
  <2>5. Quiet
    BY <2>3, <2>4, QuietStep DEF Onward
  <2> QED BY <1>2, <1>8, <2>3, <2>5 DEF InShow, Onward, Shape
<1>9. CASE ip = k + 5 /\ mem = <<ReturnAddress>> /\ reg["rdi"] = 1 /\ reg["rsi"] = store[v] /\ reg["r12"] = StackBase - 1
  <2>1. Current = Imm("andq_low", 0, "r12")
    BY <1>9 DEF ShowAt, Current
  <2>2. (StackBase - 1) % 2 = 1
    BY <1>9, Aligned
  <2>3. Onward /\ UNCHANGED store /\ mem' = mem /\ reg' = [reg EXCEPT !["r12"] = 1]
    <3>1. reg["r12"] % 2 = 1
      BY <1>9, <2>2
    <3> QED BY <1>1, <2>1, <3>1, LowBit
  <2>4. Current.op # "call"
    BY <2>1 DEF Imm
  <2>5. Quiet
    BY <2>3, <2>4, QuietStep DEF Onward
  <2> QED BY <1>2, <1>9, <2>3, <2>5 DEF InShow, Onward, Shape
<1>10. CASE ip = k + 6 /\ mem = <<ReturnAddress>> /\ reg["rdi"] = 1 /\ reg["rsi"] = store[v] /\ reg["r12"] = 1
  <2>1. Current = Imm("andq_high", 0, "rsp")
    BY <1>10 DEF ShowAt, Current
  <2>2. Onward /\ UNCHANGED store /\ mem' = StackAt(Rsp - (Rsp % 2)) /\ reg' = reg
    BY <1>1, <2>1, RoundDown
  <2>3. Onward /\ UNCHANGED store /\ mem' = <<ReturnAddress, 0>> /\ reg' = reg
    <3>1. Rsp = StackBase - 1 /\ (StackBase - 1) % 2 = 1 /\ StackAt(StackBase - 2) = <<ReturnAddress, 0>>
      BY <1>10, Aligned
    <3>2. (StackBase - 1) - 1 = StackBase - 2
      BY MemoryAssumption
    <3> QED BY <2>2, <3>1, <3>2
  <2>4. Current.op # "call"
    BY <2>1 DEF Imm
  <2>5. Quiet
    BY <2>3, <2>4, QuietStep DEF Onward
  <2> QED BY <1>2, <1>10, <2>3, <2>5 DEF InShow, Onward, Shape
<1>11. CASE ip = k + 7 /\ mem = <<ReturnAddress, 0>> /\ reg["rdi"] = 1 /\ reg["rsi"] = store[v] /\ reg["r12"] = 1
  <2>1. Current = Tag("call", "printf", 0)
    BY <1>11 DEF ShowAt, Current
  <2>2. /\ Onward /\ UNCHANGED <<mem, store>> /\ heard'.args[2] = store[v]
        /\ reg' = [r \in Registers |-> reg'[r]] /\ reg'["r12"] = 1
    BY <1>1, <1>11, <2>1, CallStep
  <2>3. Runs({"call"})
    <3>1. Current.op = "call"
      BY <2>1 DEF Tag
    <3> QED BY <1>1, <3>1, Dispatch DEF Runs
  <2>4. shown' = Append(shown, store[v]) /\ program' = program
    BY <2>2, <2>3 DEF Run
  <2>5. Shape'
    BY <2>2 DEF Shape
  <2> QED BY <1>11, <2>2, <2>4, <2>5 DEF InShown, Onward
<1> QED BY <1>4, <1>5, <1>6, <1>7, <1>8, <1>9, <1>10, <1>11 DEF InShow

LEMMA ShownStep ==
  ASSUME Run, Shape, NEW k \in Nat, NEW v, ShowAt(k, v), InShown(k)
  PROVE  Quiet /\ ip' = k + 9 /\ mem' = <<ReturnAddress>>
<1>1. Execute
  BY DEF Run
<1>2. Current = Ins("orq", "r12", "rsp") /\ mem = <<ReturnAddress, 0>> /\ reg["r12"] = 1 /\ ip = k + 8
  BY DEF ShowAt, InShown, Current
<1>3. Onward /\ mem' = StackAt(BitOr(Rsp, 1)) /\ UNCHANGED <<reg, store>>
  BY <1>1, <1>2, OrBack
<1>4. mem' = <<ReturnAddress>>
  BY <1>2, <1>3, Aligned
<1>5. Current.op # "call"
  BY <1>2 DEF Ins
<1>6. Quiet
  BY <1>3, <1>5, QuietStep DEF Onward
<1> QED BY <1>2, <1>3, <1>4, <1>6 DEF Onward

\* v := v + 1, with its sum at index q.
IncrementAt(k, q, v) ==
  /\ q = k + 1 + Width(1) /\ code[k] = Push(v) /\ LiteralAt(k + 1, 1)
  /\ code[q] = PopTo("rbx") /\ code[q + 1] = PopTo("rax") /\ code[q + 2] = Ins("addq", "rbx", "rax")
  /\ code[q + 3] = Push("rax") /\ code[q + 4] = PopTo(v)

InIncrement(k, q, v) ==
  \/ ip = k /\ mem = <<ReturnAddress>>
  \/ InLiteral(k + 1, 1, <<ReturnAddress, store[v]>>)
  \/ ip = q /\ mem = <<ReturnAddress, store[v], 1>>
  \/ ip = q + 1 /\ mem = <<ReturnAddress, store[v]>> /\ reg["rbx"] = 1
  \/ ip = q + 2 /\ mem = <<ReturnAddress>> /\ reg["rbx"] = 1 /\ reg["rax"] = store[v]
  \/ ip = q + 3 /\ mem = <<ReturnAddress>> /\ reg["rax"] = Wrap(store[v] + 1)
  \/ ip = q + 4 /\ mem = <<ReturnAddress, Wrap(store[v] + 1)>>

LEMMA IncrementStep ==
  ASSUME Run, Shape, NEW k \in Nat, NEW q \in Nat, NEW v \in DOMAIN AddressOf,
         IncrementAt(k, q, v), InIncrement(k, q, v)
  PROVE  \/ running' = "refused" /\ UNCHANGED <<program, shown, code>>
         \/ Quiet /\ InIncrement(k, q, v)'
         \/ /\ UNCHANGED <<program, shown, code, running>> /\ Shape'
            /\ ip' = q + 5 /\ mem' = <<ReturnAddress>> /\ store' = [store EXCEPT ![v] = Wrap(store[v] + 1)]
<1>1. Execute
  BY DEF Run
<1>2. {"rax", "rbx"} \subseteq Registers /\ v \notin Registers /\ v \in DOMAIN store
  BY RegisterNames DEF Shape
<1>3. Held(v) = store[v] /\ Held("rax") = reg["rax"]
  BY <1>2 DEF Held
<1>4. CASE ip = k /\ mem = <<ReturnAddress>>
  <2>1. Current = Push(v)
    BY <1>4 DEF IncrementAt, Current
  <2>2. Onward /\ UNCHANGED store /\ mem' = Append(mem, Held(v)) /\ reg' = reg
    BY <1>1, <1>2, <2>1, PushHeld
  <2>3. Onward /\ UNCHANGED store /\ mem' = <<ReturnAddress, store[v]>> /\ reg' = reg
    <3>1. Append(<<ReturnAddress>>, store[v]) = <<ReturnAddress, store[v]>>
      BY Stacks
    <3> QED BY <1>2, <1>3, <1>4, <2>2, <3>1
  <2>4. Current.op # "call"
    BY <2>1 DEF Push, Ins
  <2>5. Quiet
    BY <2>3, <2>4, QuietStep DEF Onward
  <2> QED BY <1>2, <1>3, <1>4, <2>3, <2>5 DEF InIncrement, InLiteral, Onward, Shape
<1>5. CASE InLiteral(k + 1, 1, <<ReturnAddress, store[v]>>)
  <2>1. k + 1 \in Nat /\ LiteralAt(k + 1, 1)
    BY DEF IncrementAt
  <2>2. \/ running' = "refused" /\ UNCHANGED <<program, shown, code>>
        \/ Quiet /\ InLiteral(k + 1, 1, <<ReturnAddress, store[v]>>)'
        \/ Quiet /\ ip' = k + 1 + Width(1) /\ mem' = Append(<<ReturnAddress, store[v]>>, 1)
    <3>1. PICK below : below = <<ReturnAddress, store[v]>>
      OBVIOUS
    <3>2. InLiteral(k + 1, 1, below)
      BY <1>5, <3>1
    <3>3. \/ running' = "refused" /\ UNCHANGED <<program, shown, code>>
          \/ Quiet /\ InLiteral(k + 1, 1, below)'
          \/ Quiet /\ ip' = k + 1 + Width(1) /\ mem' = Append(below, 1)
      BY <2>1, <3>2, LiteralStep
    <3> QED BY <3>1, <3>3 DEF InLiteral, Quiet
  <2>3. Append(<<ReturnAddress, store[v]>>, 1) = <<ReturnAddress, store[v], 1>>
    <3>1. PICK one : one = 1
      OBVIOUS
    <3>2. Append(<<ReturnAddress, store[v]>>, one) = <<ReturnAddress, store[v], one>>
      BY Grown
    <3> QED BY <3>1, <3>2
  <2>4. q = k + 1 + Width(1)
    BY DEF IncrementAt
  <2> QED BY <2>2, <2>3, <2>4 DEF InIncrement, Quiet
<1>6. CASE ip = q /\ mem = <<ReturnAddress, store[v], 1>>
  <2>1. Current = PopTo("rbx")
    BY <1>6 DEF IncrementAt, Current
  <2>2. Onward /\ UNCHANGED store /\ mem' = SubSeq(mem, 1, Len(mem) - 1) /\ reg' = [reg EXCEPT !["rbx"] = mem[Len(mem)]]
    BY <1>1, <1>2, <2>1, PopRegister
  <2>3. Onward /\ UNCHANGED store /\ mem' = <<ReturnAddress, store[v]>> /\ reg' = [reg EXCEPT !["rbx"] = 1]
    <3>1. SubSeq(<<ReturnAddress, store[v], 1>>, 1, Len(<<ReturnAddress, store[v], 1>>) - 1) = <<ReturnAddress, store[v]>> /\ <<ReturnAddress, store[v], 1>>[Len(<<ReturnAddress, store[v], 1>>)] = 1
      <4>1. PICK one : one = 1
        OBVIOUS
      <4>2. SubSeq(<<ReturnAddress, store[v], one>>, 1, Len(<<ReturnAddress, store[v], one>>) - 1) = <<ReturnAddress, store[v]>> /\ <<ReturnAddress, store[v], one>>[Len(<<ReturnAddress, store[v], one>>)] = one
        BY Shrunk
      <4> QED BY <4>1, <4>2
    <3> QED BY <1>2, <1>3, <1>6, <2>2, <3>1
  <2>4. Current.op # "call"
    BY <2>1 DEF PopTo, Ins
  <2>5. Quiet
    BY <2>3, <2>4, QuietStep DEF Onward
  <2> QED BY <1>2, <1>3, <1>6, <2>3, <2>5 DEF InIncrement, Onward, Shape
<1>7. CASE ip = q + 1 /\ mem = <<ReturnAddress, store[v]>> /\ reg["rbx"] = 1
  <2>1. Current = PopTo("rax")
    BY <1>7 DEF IncrementAt, Current
  <2>2. Onward /\ UNCHANGED store /\ mem' = SubSeq(mem, 1, Len(mem) - 1) /\ reg' = [reg EXCEPT !["rax"] = mem[Len(mem)]]
    BY <1>1, <1>2, <2>1, PopRegister
  <2>3. Onward /\ UNCHANGED store /\ mem' = <<ReturnAddress>> /\ reg' = [reg EXCEPT !["rax"] = store[v]]
    <3>1. SubSeq(<<ReturnAddress, store[v]>>, 1, Len(<<ReturnAddress, store[v]>>) - 1) = <<ReturnAddress>> /\ <<ReturnAddress, store[v]>>[Len(<<ReturnAddress, store[v]>>)] = store[v]
      BY Stacks
    <3> QED BY <1>2, <1>3, <1>7, <2>2, <3>1
  <2>4. Current.op # "call"
    BY <2>1 DEF PopTo, Ins
  <2>5. Quiet
    BY <2>3, <2>4, QuietStep DEF Onward
  <2> QED BY <1>2, <1>3, <1>7, <2>3, <2>5 DEF InIncrement, Onward, Shape
<1>8. CASE ip = q + 2 /\ mem = <<ReturnAddress>> /\ reg["rbx"] = 1 /\ reg["rax"] = store[v]
  <2>1. Current = Ins("addq", "rbx", "rax")
    BY <1>8 DEF IncrementAt, Current
  <2>2. Onward /\ UNCHANGED store /\ mem' = mem /\ reg' = [reg EXCEPT !["rax"] = Wrap(reg["rax"] + reg["rbx"])]
    BY <1>1, <1>2, <2>1, AddRegisters
  <2>3. Onward /\ UNCHANGED store /\ mem' = mem /\ reg' = [reg EXCEPT !["rax"] = Wrap(store[v] + 1)]
    BY <1>2, <1>3, <1>8, <2>2
  <2>4. Current.op # "call"
    BY <2>1 DEF Ins
  <2>5. Quiet
    BY <2>3, <2>4, QuietStep DEF Onward
  <2> QED BY <1>2, <1>3, <1>8, <2>3, <2>5 DEF InIncrement, Onward, Shape
<1>9. CASE ip = q + 3 /\ mem = <<ReturnAddress>> /\ reg["rax"] = Wrap(store[v] + 1)
  <2>1. Current = Push("rax")
    BY <1>9 DEF IncrementAt, Current
  <2>2. Onward /\ UNCHANGED store /\ mem' = Append(mem, Held("rax")) /\ reg' = reg
    BY <1>1, <1>2, <2>1, PushHeld
  <2>3. Onward /\ UNCHANGED store /\ mem' = <<ReturnAddress, Wrap(store[v] + 1)>> /\ reg' = reg
    <3>1. Append(<<ReturnAddress>>, Wrap(store[v] + 1)) = <<ReturnAddress, Wrap(store[v] + 1)>>
      BY Stacks
    <3> QED BY <1>2, <1>3, <1>9, <2>2, <3>1
  <2>4. Current.op # "call"
    BY <2>1 DEF Push, Ins
  <2>5. Quiet
    BY <2>3, <2>4, QuietStep DEF Onward
  <2> QED BY <1>2, <1>3, <1>9, <2>3, <2>5 DEF InIncrement, Onward, Shape
<1>10. CASE ip = q + 4 /\ mem = <<ReturnAddress, Wrap(store[v] + 1)>>
  <2>1. Current = PopTo(v)
    BY <1>10 DEF IncrementAt, Current
  <2>2. Onward /\ UNCHANGED reg /\ mem' = SubSeq(mem, 1, Len(mem) - 1) /\ store' = [store EXCEPT ![v] = mem[Len(mem)]]
    BY <1>1, <1>2, <2>1, PopVariable
  <2>3. Onward /\ UNCHANGED reg /\ mem' = <<ReturnAddress>> /\ store' = [store EXCEPT ![v] = Wrap(store[v] + 1)]
    <3>1. SubSeq(<<ReturnAddress, Wrap(store[v] + 1)>>, 1, Len(<<ReturnAddress, Wrap(store[v] + 1)>>) - 1) = <<ReturnAddress>> /\ <<ReturnAddress, Wrap(store[v] + 1)>>[Len(<<ReturnAddress, Wrap(store[v] + 1)>>)] = Wrap(store[v] + 1)
      BY Stacks
    <3> QED BY <1>2, <1>3, <1>10, <2>2, <3>1
  <2>4. Current.op # "call"
    BY <2>1 DEF PopTo, Ins
  <2>5. UNCHANGED <<program, shown>> /\ Shape'
    BY <2>3, <2>4 DEF Run, Runs, Shape
  <2> QED BY <1>2, <1>3, <1>10, <2>3, <2>5 DEF InIncrement, Onward
<1> QED BY <1>4, <1>5, <1>6, <1>7, <1>8, <1>9, <1>10 DEF InIncrement

\* The condition v <= w of a loop, with its comparison at index q and its exit to the
\* label "__next" of tag x.
ConditionCode(k, q, v, w, t, x) ==
  /\ q = k + 1 + Width(w) /\ code[k] = Push(v) /\ LiteralAt(k + 1, w)
  /\ code[q] = PopTo("rbx") /\ code[q + 1] = PopTo("rax") /\ code[q + 2] = Ins("cmpq", "rbx", "rax")
  /\ code[q + 3] = Tag("jbe", "__true", t) /\ code[q + 4] = Imm("pushq", 0, NoName) /\ code[q + 5] = Tag("jmp", "__next", t)
  /\ code[q + 6] = Tag("label", "__true", t) /\ code[q + 7] = Imm("pushq", AllOnes, NoName)
  /\ code[q + 8] = Tag("label", "__next", t)
  /\ code[q + 9] = PopTo("rax") /\ code[q + 10] = Ins("test", "rax", "rax") /\ code[q + 11] = Tag("jz", "__next", x)

ConditionAt(k, q, v, w, t, x) ==
  /\ ConditionCode(k, q, v, w, t, x)
  /\ LabelAt("__true", t) = q + 6 /\ LabelAt("__next", t) = q + 8

Verdict(v, w) == IF store[v] <= w THEN AllOnes ELSE 0

InCondition(k, q, v, w) ==
  \/ ip = k /\ mem = <<ReturnAddress>>
  \/ InLiteral(k + 1, w, <<ReturnAddress, store[v]>>)
  \/ ip = q /\ mem = <<ReturnAddress, store[v], w>>
  \/ ip = q + 1 /\ mem = <<ReturnAddress, store[v]>> /\ reg["rbx"] = w
  \/ ip = q + 2 /\ mem = <<ReturnAddress>> /\ reg["rbx"] = w /\ reg["rax"] = store[v]
  \/ ip = q + 3 /\ mem = <<ReturnAddress>> /\ (flags.cf \/ flags.zf <=> store[v] <= w)
  \/ ip = q + 4 /\ mem = <<ReturnAddress>> /\ ~(store[v] <= w)
  \/ ip = q + 5 /\ mem = <<ReturnAddress, 0>> /\ ~(store[v] <= w)
  \/ ip = q + 6 /\ mem = <<ReturnAddress>> /\ store[v] <= w
  \/ ip = q + 7 /\ mem = <<ReturnAddress>> /\ store[v] <= w
  \/ ip = q + 8 /\ mem = <<ReturnAddress, Verdict(v, w)>>
  \/ ip = q + 9 /\ mem = <<ReturnAddress, Verdict(v, w)>>
  \/ ip = q + 10 /\ mem = <<ReturnAddress>> /\ reg["rax"] = Verdict(v, w)
  \/ ip = q + 11 /\ mem = <<ReturnAddress>> /\ (flags.zf <=> ~(store[v] <= w))

LEMMA ConditionStep ==
  ASSUME Run, Shape, NEW k \in Nat, NEW q \in Nat, NEW v \in DOMAIN AddressOf, NEW w \in Word, NEW t, NEW x,
         store[v] \in Word, ConditionAt(k, q, v, w, t, x), InCondition(k, q, v, w)
  PROVE  \/ running' = "refused" /\ UNCHANGED <<program, shown, code>>
         \/ Quiet /\ InCondition(k, q, v, w)'
         \/ /\ Quiet /\ mem' = <<ReturnAddress>>
            /\ ip' = IF store[v] <= w THEN q + 12 ELSE LabelAt("__next", x)
<1>1. Execute
  BY DEF Run
<1>2. {"rax", "rbx"} \subseteq Registers /\ v \notin Registers /\ v \in DOMAIN store
  BY RegisterNames DEF Shape
<1>3. Held(v) = store[v] /\ Held("rbx") = reg["rbx"]
  BY <1>2 DEF Held
<1>4. CASE ip = k /\ mem = <<ReturnAddress>>
  <2>1. Current = Push(v)
    BY <1>4 DEF ConditionAt, ConditionCode, Current
  <2>2. Onward /\ UNCHANGED store /\ mem' = Append(mem, Held(v)) /\ reg' = reg
    BY <1>1, <1>2, <2>1, PushHeld
  <2>3. Onward /\ UNCHANGED store /\ mem' = <<ReturnAddress, store[v]>> /\ reg' = reg
    <3>1. Append(<<ReturnAddress>>, store[v]) = <<ReturnAddress, store[v]>>
      BY Stacks
    <3> QED BY <1>2, <1>3, <1>4, <2>2, <3>1
  <2>4. Current.op # "call"
    BY <2>1 DEF Push, Ins
  <2>5. Quiet
    BY <2>3, <2>4, QuietStep DEF Onward
  <2> QED BY <1>2, <1>3, <1>4, <2>3, <2>5 DEF InCondition, InLiteral, Onward, Shape
<1>5. CASE InLiteral(k + 1, w, <<ReturnAddress, store[v]>>)
  <2>1. k + 1 \in Nat /\ LiteralAt(k + 1, w)
    BY DEF ConditionAt, ConditionCode
  <2>2. \/ running' = "refused" /\ UNCHANGED <<program, shown, code>>
        \/ Quiet /\ InLiteral(k + 1, w, <<ReturnAddress, store[v]>>)'
        \/ Quiet /\ ip' = k + 1 + Width(w) /\ mem' = Append(<<ReturnAddress, store[v]>>, w)
    <3>1. PICK below : below = <<ReturnAddress, store[v]>>
      OBVIOUS
    <3>2. InLiteral(k + 1, w, below)
      BY <1>5, <3>1
    <3>3. \/ running' = "refused" /\ UNCHANGED <<program, shown, code>>
          \/ Quiet /\ InLiteral(k + 1, w, below)'
          \/ Quiet /\ ip' = k + 1 + Width(w) /\ mem' = Append(below, w)
      BY <2>1, <3>2, LiteralStep
    <3> QED BY <3>1, <3>3 DEF InLiteral, Quiet
  <2>3. Append(<<ReturnAddress, store[v]>>, w) = <<ReturnAddress, store[v], w>>
    BY Grown
  <2>4. q = k + 1 + Width(w)
    BY DEF ConditionAt, ConditionCode
  <2> QED BY <2>2, <2>3, <2>4 DEF InCondition, Quiet
<1>6. CASE ip = q /\ mem = <<ReturnAddress, store[v], w>>
  <2>1. Current = PopTo("rbx")
    BY <1>6 DEF ConditionAt, ConditionCode, Current
  <2>2. Onward /\ UNCHANGED store /\ mem' = SubSeq(mem, 1, Len(mem) - 1) /\ reg' = [reg EXCEPT !["rbx"] = mem[Len(mem)]]
    BY <1>1, <1>2, <2>1, PopRegister
  <2>3. Onward /\ UNCHANGED store /\ mem' = <<ReturnAddress, store[v]>> /\ reg' = [reg EXCEPT !["rbx"] = w]
    <3>1. SubSeq(<<ReturnAddress, store[v], w>>, 1, Len(<<ReturnAddress, store[v], w>>) - 1) = <<ReturnAddress, store[v]>> /\ <<ReturnAddress, store[v], w>>[Len(<<ReturnAddress, store[v], w>>)] = w
      BY Shrunk
    <3> QED BY <1>2, <1>3, <1>6, <2>2, <3>1
  <2>4. Current.op # "call"
    BY <2>1 DEF PopTo, Ins
  <2>5. Quiet
    BY <2>3, <2>4, QuietStep DEF Onward
  <2> QED BY <1>2, <1>3, <1>6, <2>3, <2>5 DEF InCondition, Onward, Shape
<1>7. CASE ip = q + 1 /\ mem = <<ReturnAddress, store[v]>> /\ reg["rbx"] = w
  <2>1. Current = PopTo("rax")
    BY <1>7 DEF ConditionAt, ConditionCode, Current
  <2>2. Onward /\ UNCHANGED store /\ mem' = SubSeq(mem, 1, Len(mem) - 1) /\ reg' = [reg EXCEPT !["rax"] = mem[Len(mem)]]
    BY <1>1, <1>2, <2>1, PopRegister
  <2>3. Onward /\ UNCHANGED store /\ mem' = <<ReturnAddress>> /\ reg' = [reg EXCEPT !["rax"] = store[v]]
    <3>1. SubSeq(<<ReturnAddress, store[v]>>, 1, Len(<<ReturnAddress, store[v]>>) - 1) = <<ReturnAddress>> /\ <<ReturnAddress, store[v]>>[Len(<<ReturnAddress, store[v]>>)] = store[v]
      BY Stacks
    <3> QED BY <1>2, <1>3, <1>7, <2>2, <3>1
  <2>4. Current.op # "call"
    BY <2>1 DEF PopTo, Ins
  <2>5. Quiet
    BY <2>3, <2>4, QuietStep DEF Onward
  <2> QED BY <1>2, <1>3, <1>7, <2>3, <2>5 DEF InCondition, Onward, Shape
<1>8. CASE ip = q + 2 /\ mem = <<ReturnAddress>> /\ reg["rbx"] = w /\ reg["rax"] = store[v]
  <2>1. Current = Ins("cmpq", "rbx", "rax")
    BY <1>8 DEF ConditionAt, ConditionCode, Current
  <2>2. Onward /\ UNCHANGED <<store, reg, mem>> /\ flags'.zf = (store[v] = w) /\ flags'.cf = (store[v] < w)
    BY <1>1, <1>2, <1>3, <1>8, <2>1, CompareStep
  <2>3. Onward /\ UNCHANGED <<store, reg, mem>> /\ (flags'.cf \/ flags'.zf <=> store[v] <= w)
    <3>1. store[v] \in Int /\ w \in Int
      BY PowersAssumption DEF Word, Modulus
    <3>2. (store[v] < w \/ store[v] = w) <=> store[v] <= w
      BY <3>1
    <3> QED BY <2>2, <3>2
  <2>4. Current.op # "call"
    BY <2>1 DEF Ins
  <2>5. Quiet
    BY <2>3, <2>4, QuietStep DEF Onward
  <2> QED BY <1>2, <1>8, <2>3, <2>5 DEF InCondition, Onward
<1>9. CASE ip = q + 3 /\ mem = <<ReturnAddress>> /\ (flags.cf \/ flags.zf <=> store[v] <= w)
  <2>1. Current = Tag("jbe", "__true", t)
    BY <1>9 DEF ConditionAt, ConditionCode, Current
  <2>2. /\ ip' = IF Taken("jbe") THEN LabelAt("__true", t) ELSE ip + 1
        /\ UNCHANGED <<code, running, reg, mem, store>>
    BY <1>1, <2>1, JumpStep
  <2>3. /\ ip' = IF store[v] <= w THEN q + 6 ELSE q + 4
        /\ UNCHANGED <<code, running, reg, mem, store>>
    <3>1. Taken("jbe") <=> store[v] <= w
      BY <1>9 DEF Taken
    <3>2. LabelAt("__true", t) = q + 6
      BY DEF ConditionAt, ConditionCode
    <3> QED BY <1>9, <2>2, <3>1, <3>2
  <2>4. Current.op # "call"
    BY <2>1 DEF Tag
  <2>5. Quiet
    BY <2>3, <2>4, QuietStep DEF Onward
  <2> QED BY <1>2, <1>9, <2>3, <2>5 DEF InCondition, Onward
<1>10. CASE ip = q + 4 /\ mem = <<ReturnAddress>> /\ ~(store[v] <= w)
  <2>1. Current = Imm("pushq", 0, NoName)
    BY <1>10 DEF ConditionAt, ConditionCode, Current
  <2>2. \/ running' = "refused" /\ UNCHANGED <<code, reg, store>>
        \/ Onward /\ mem' = Append(mem, 0) /\ UNCHANGED <<reg, store>>
    BY <1>1, <2>1, PushImmediate
  <2>3. Append(<<ReturnAddress>>, 0) = <<ReturnAddress, 0>>
    BY Stacks
  <2>4. Current.op # "call"
    BY <2>1 DEF Imm
  <2>5. UNCHANGED <<program, shown>>
    BY <2>4 DEF Run, Runs
  <2>6. CASE Onward /\ mem' = Append(mem, 0) /\ UNCHANGED <<reg, store>>
    <3>1. Quiet
      BY <2>4, <2>6, QuietStep DEF Onward
    <3> QED BY <1>10, <2>3, <2>6, <3>1 DEF InCondition, Onward, Verdict
  <2> QED BY <2>2, <2>5, <2>6
<1>11. CASE ip = q + 5 /\ mem = <<ReturnAddress, 0>> /\ ~(store[v] <= w)
  <2>1. Current = Tag("jmp", "__next", t)
    BY <1>11 DEF ConditionAt, ConditionCode, Current
  <2>2. /\ ip' = IF Taken("jmp") THEN LabelAt("__next", t) ELSE ip + 1
        /\ UNCHANGED <<code, running, reg, mem, store>>
    BY <1>1, <2>1, JumpStep
  <2>3. ip' = q + 8 /\ UNCHANGED <<code, running, reg, mem, store>>
    <3>1. Taken("jmp")
      BY DEF Taken
    <3>2. LabelAt("__next", t) = q + 8
      BY DEF ConditionAt, ConditionCode
    <3> QED BY <2>2, <3>1, <3>2
  <2>4. Current.op # "call"
    BY <2>1 DEF Tag
  <2>5. Quiet
    BY <2>3, <2>4, QuietStep DEF Onward
  <2> QED BY <1>2, <1>11, <2>3, <2>5 DEF InCondition, Onward, Verdict
<1>12. CASE ip = q + 6 /\ mem = <<ReturnAddress>> /\ store[v] <= w
  <2>1. Current = Tag("label", "__true", t)
    BY <1>12 DEF ConditionAt, ConditionCode, Current
  <2>3. Onward /\ UNCHANGED <<store, reg, mem>>
    BY <1>1, <2>1, LabelStep
  <2>4. Current.op # "call"
    BY <2>1 DEF Tag
  <2>5. Quiet
    BY <2>3, <2>4, QuietStep DEF Onward
  <2> QED BY <1>2, <1>12, <2>3, <2>5 DEF InCondition, Onward
<1>13. CASE ip = q + 7 /\ mem = <<ReturnAddress>> /\ store[v] <= w
  <2>1. Current = Imm("pushq", AllOnes, NoName)
    BY <1>13 DEF ConditionAt, ConditionCode, Current
  <2>2. \/ running' = "refused" /\ UNCHANGED <<code, reg, store>>
        \/ Onward /\ mem' = Append(mem, AllOnes) /\ UNCHANGED <<reg, store>>
    BY <1>1, <2>1, PushImmediate
  <2>3. Append(<<ReturnAddress>>, AllOnes) = <<ReturnAddress, AllOnes>>
    BY Stacks
  <2>4. Current.op # "call"
    BY <2>1 DEF Imm
  <2>5. UNCHANGED <<program, shown>>
    BY <2>4 DEF Run, Runs
  <2>6. CASE Onward /\ mem' = Append(mem, AllOnes) /\ UNCHANGED <<reg, store>>
    <3>1. Quiet
      BY <2>4, <2>6, QuietStep DEF Onward
    <3> QED BY <1>13, <2>3, <2>6, <3>1 DEF InCondition, Onward, Verdict
  <2> QED BY <2>2, <2>5, <2>6
<1>14. CASE ip = q + 8 /\ mem = <<ReturnAddress, Verdict(v, w)>>
  <2>1. Current = Tag("label", "__next", t)
    BY <1>14 DEF ConditionAt, ConditionCode, Current
  <2>3. Onward /\ UNCHANGED <<store, reg, mem>>
    BY <1>1, <2>1, LabelStep
  <2>4. Current.op # "call"
    BY <2>1 DEF Tag
  <2>5. Quiet
    BY <2>3, <2>4, QuietStep DEF Onward
  <2> QED BY <1>2, <1>14, <2>3, <2>5 DEF InCondition, Onward, Verdict
<1>15. CASE ip = q + 9 /\ mem = <<ReturnAddress, Verdict(v, w)>>
  <2>1. Current = PopTo("rax")
    BY <1>15 DEF ConditionAt, ConditionCode, Current
  <2>2. Onward /\ UNCHANGED store /\ mem' = SubSeq(mem, 1, Len(mem) - 1) /\ reg' = [reg EXCEPT !["rax"] = mem[Len(mem)]]
    BY <1>1, <1>2, <2>1, PopRegister
  <2>3. Onward /\ UNCHANGED store /\ mem' = <<ReturnAddress>> /\ reg' = [reg EXCEPT !["rax"] = Verdict(v, w)]
    <3>1. SubSeq(<<ReturnAddress, Verdict(v, w)>>, 1, Len(<<ReturnAddress, Verdict(v, w)>>) - 1) = <<ReturnAddress>> /\ <<ReturnAddress, Verdict(v, w)>>[Len(<<ReturnAddress, Verdict(v, w)>>)] = Verdict(v, w)
      BY Stacks
    <3> QED BY <1>2, <1>3, <1>15, <2>2, <3>1
  <2>4. Current.op # "call"
    BY <2>1 DEF PopTo, Ins
  <2>5. Quiet
    BY <2>3, <2>4, QuietStep DEF Onward
  <2> QED BY <1>2, <1>3, <1>15, <2>3, <2>5 DEF InCondition, Verdict, Onward, Shape
<1>16. CASE ip = q + 10 /\ mem = <<ReturnAddress>> /\ reg["rax"] = Verdict(v, w)
  <2>1. Current = Ins("test", "rax", "rax")
    BY <1>16 DEF ConditionAt, ConditionCode, Current
  <2>2. Onward /\ UNCHANGED <<store, reg, mem>> /\ flags'.zf = (reg["rax"] = 0)
    BY <1>1, <2>1, TestStep
  <2>3. Onward /\ UNCHANGED <<store, reg, mem>> /\ (flags'.zf <=> ~(store[v] <= w))
    <3>1. AllOnes # 0
      BY PowersAssumption DEF AllOnes, Modulus
    <3> QED BY <1>16, <2>2, <3>1 DEF Verdict
  <2>4. Current.op # "call"
    BY <2>1 DEF Ins
  <2>5. Quiet
    BY <2>3, <2>4, QuietStep DEF Onward
  <2> QED BY <1>2, <1>16, <2>3, <2>5 DEF InCondition, Onward
<1>17. CASE ip = q + 11 /\ mem = <<ReturnAddress>> /\ (flags.zf <=> ~(store[v] <= w))
  <2>1. Current = Tag("jz", "__next", x)
    BY <1>17 DEF ConditionAt, ConditionCode, Current
  <2>2. /\ ip' = IF Taken("jz") THEN LabelAt("__next", x) ELSE ip + 1
        /\ UNCHANGED <<code, running, reg, mem, store>>
    BY <1>1, <2>1, JumpStep
  <2>3. Taken("jz") <=> ~(store[v] <= w)
    BY <1>17 DEF Taken
  <2>4. Current.op # "call"
    BY <2>1 DEF Tag
  <2>5. Quiet
    BY <2>2, <2>4, QuietStep
  <2> QED BY <1>17, <2>2, <2>3, <2>5
<1> QED BY <1>4, <1>5, <1>6, <1>7, <1>8, <1>9, <1>10, <1>11, <1>12, <1>13, <1>14, <1>15, <1>16, <1>17 DEF InCondition

-----------------------------------------------------------------------------
(***************************************************************************)
(* Where the pieces are: the code at index k is the sequence s.            *)
(***************************************************************************)
At(k, s) == \A i \in 1 .. Len(s) : code[k - 1 + i] = s[i]

\* The sequence u is s and then t.
Split(u, s, t) ==
  /\ u \in Seq(Instructions) /\ s \in Seq(Instructions) /\ t \in Seq(Instructions)
  /\ u = s \o t /\ Len(u) = Len(s) + Len(t)

LEMMA Joined ==
  ASSUME NEW s \in Seq(Instructions), NEW t \in Seq(Instructions)
  PROVE  Split(s \o t, s, t)
<1>1. s \o t \in Seq(Instructions) /\ Len(s \o t) = Len(s) + Len(t)
  OBVIOUS
<1> QED BY <1>1, Zenon DEF Split

LEMMA AtParts ==
  ASSUME NEW k \in Nat, NEW u, NEW s, NEW t, Split(u, s, t), At(k, u)
  PROVE  At(k, s) /\ At(k + Len(s), t)
<1>1. /\ u \in Seq(Instructions) /\ s \in Seq(Instructions) /\ t \in Seq(Instructions)
      /\ u = s \o t /\ Len(u) = Len(s) + Len(t)
  BY Zenon DEF Split
<1>2. At(k, s)
  <2> SUFFICES ASSUME NEW i \in 1 .. Len(s)
               PROVE  code[k - 1 + i] = s[i]
    BY DEF At
  <2>1. i \in 1 .. Len(u) /\ u[i] = s[i]
    BY <1>1
  <2> QED BY <2>1 DEF At
<1>3. At(k + Len(s), t)
  <2> SUFFICES ASSUME NEW i \in 1 .. Len(t)
               PROVE  code[k + Len(s) - 1 + i] = t[i]
    BY DEF At
  <2>1. Len(s) + i \in 1 .. Len(u) /\ u[Len(s) + i] = t[i]
    BY <1>1
  <2>2. code[k - 1 + (Len(s) + i)] = t[i]
    BY <2>1 DEF At
  <2>3. k - 1 + (Len(s) + i) = k + Len(s) - 1 + i
    BY <1>1
  <2> QED BY <2>2, <2>3
<1> QED BY <1>2, <1>3

LEMMA AtOne ==
  ASSUME NEW k \in Nat, NEW x, At(k, <<x>>)
  PROVE  code[k] = x
<1>1. k - 1 + 1 = k
  OBVIOUS
<1>2. /\ {1} \subseteq 1 .. Len(<<x>>)
      /\ <<x>>[1] = x
  OBVIOUS
<1>3. code[k - 1 + 1] = <<x>>[1]
  BY <1>2 DEF At
<1> QED BY <1>1, <1>2, <1>3

LEMMA AtTwo ==
  ASSUME NEW k \in Nat, NEW x, NEW y, At(k, <<x, y>>)
  PROVE  code[k] = x /\ code[k + 1] = y
<1>1. k - 1 + 1 = k /\ k - 1 + 2 = k + 1
  OBVIOUS
<1>2. /\ {1, 2} \subseteq 1 .. Len(<<x, y>>)
      /\ <<x, y>>[1] = x /\ <<x, y>>[2] = y
  OBVIOUS
<1>3. code[k - 1 + 1] = <<x, y>>[1] /\ code[k - 1 + 2] = <<x, y>>[2]
  BY <1>2 DEF At
<1> QED BY <1>1, <1>2, <1>3

LEMMA AtThree ==
  ASSUME NEW k \in Nat, NEW x, NEW y, NEW z, At(k, <<x, y, z>>)
  PROVE  code[k] = x /\ code[k + 1] = y /\ code[k + 2] = z
<1>1. k - 1 + 1 = k /\ k - 1 + 2 = k + 1 /\ k - 1 + 3 = k + 2
  OBVIOUS
<1>2. /\ {1, 2, 3} \subseteq 1 .. Len(<<x, y, z>>)
      /\ <<x, y, z>>[1] = x /\ <<x, y, z>>[2] = y /\ <<x, y, z>>[3] = z
  OBVIOUS
<1>3. code[k - 1 + 1] = <<x, y, z>>[1] /\ code[k - 1 + 2] = <<x, y, z>>[2] /\ code[k - 1 + 3] = <<x, y, z>>[3]
  BY <1>2 DEF At
<1> QED BY <1>1, <1>2, <1>3

LEMMA AtSix ==
  ASSUME NEW k \in Nat, NEW u, NEW v, NEW w, NEW x, NEW y, NEW z, At(k, <<u, v, w, x, y, z>>)
  PROVE  code[k] = u /\ code[k + 1] = v /\ code[k + 2] = w /\ code[k + 3] = x /\ code[k + 4] = y /\ code[k + 5] = z
<1>1. k - 1 + 1 = k /\ k - 1 + 2 = k + 1 /\ k - 1 + 3 = k + 2 /\ k - 1 + 4 = k + 3 /\ k - 1 + 5 = k + 4 /\ k - 1 + 6 = k + 5
  OBVIOUS
<1>2. /\ {1, 2, 3, 4, 5, 6} \subseteq 1 .. Len(<<u, v, w, x, y, z>>)
      /\ <<u, v, w, x, y, z>>[1] = u /\ <<u, v, w, x, y, z>>[2] = v /\ <<u, v, w, x, y, z>>[3] = w /\ <<u, v, w, x, y, z>>[4] = x /\ <<u, v, w, x, y, z>>[5] = y /\ <<u, v, w, x, y, z>>[6] = z
  OBVIOUS
<1>3. code[k - 1 + 1] = <<u, v, w, x, y, z>>[1] /\ code[k - 1 + 2] = <<u, v, w, x, y, z>>[2] /\ code[k - 1 + 3] = <<u, v, w, x, y, z>>[3] /\ code[k - 1 + 4] = <<u, v, w, x, y, z>>[4] /\ code[k - 1 + 5] = <<u, v, w, x, y, z>>[5] /\ code[k - 1 + 6] = <<u, v, w, x, y, z>>[6]
  BY <1>2 DEF At
<1> QED BY <1>1, <1>2, <1>3

\* Instructions of these programs, one by one.
LEMMA Singles ==
  ASSUME NEW v \in DOMAIN AddressOf, NEW t \in Int
  PROVE  /\ {Push(v), PopTo(v), PopTo("rax"), PopTo("rbx"), PopTo("rsi"), Push("rax")} \subseteq Instructions
         /\ {Imm("leaq", 1, "rdi"), Imm("movb", 0, "rax"), Imm("andq_low", 0, "r12"), Imm("andq_high", 0, "rsp"),
             Imm("addq", 1, v), Imm("pushq", 0, NoName), Imm("pushq", AllOnes, NoName)} \subseteq Instructions
         /\ {Ins("movq", "rsp", "rbp"), Ins("movq", "rbp", "rsp"), Ins("ret", NoName, NoName), Ins("movq", "rsp", "r12"),
             Ins("orq", "r12", "rsp"), Ins("addq", "rbx", "rax"), Ins("cmpq", "rbx", "rax"), Ins("cmpq", v, "rax"),
             Ins("test", "rax", "rax")} \subseteq Instructions
         /\ {Tag("call", "printf", 0), Tag("label", "__for", t), Tag("label", "__while", t), Tag("label", "__true", t),
             Tag("label", "__next", t), Tag("jl", "__next", t), Tag("jz", "__next", t), Tag("jmp", "__for", t),
             Tag("jmp", "__while", t), Tag("jmp", "__next", t), Tag("jbe", "__true", t)} \subseteq Instructions
<1>1. v \in Operands /\ {"rax", "rbx", "rbp", "r12", "rdi", "rsi", "rsp", "__for", "__while", "__true", "__next", "printf", NoName}
       \subseteq Operands
  BY Named
<1>2. AllOnes \in Int
  BY PowersAssumption DEF AllOnes, Modulus
<1>3. {"movq", "movabs", "movb", "leaq", "pushq", "popq", "addq", "andq_low", "andq_high", "orq",
       "cmpq", "test", "jmp", "jz", "jl", "jbe", "label", "call", "ret"} \subseteq Mnemonics
  BY DEF Mnemonics
<1>4. {Push(v), PopTo(v), PopTo("rax"), PopTo("rbx"), PopTo("rsi"), Push("rax")} \subseteq Instructions
  BY <1>1, Typed
<1>5. {Imm("leaq", 1, "rdi"), Imm("movb", 0, "rax"), Imm("andq_low", 0, "r12"), Imm("andq_high", 0, "rsp"),
       Imm("addq", 1, v), Imm("pushq", 0, NoName), Imm("pushq", AllOnes, NoName)} \subseteq Instructions
  BY <1>1, <1>2, <1>3, Typed
<1>6. {Ins("movq", "rsp", "rbp"), Ins("movq", "rbp", "rsp"), Ins("ret", NoName, NoName), Ins("movq", "rsp", "r12"),
       Ins("orq", "r12", "rsp"), Ins("addq", "rbx", "rax"), Ins("cmpq", "rbx", "rax"), Ins("cmpq", v, "rax"),
       Ins("test", "rax", "rax")} \subseteq Instructions
  BY <1>1, <1>3, Typed
<1>7. {Tag("call", "printf", 0), Tag("label", "__for", t), Tag("label", "__while", t), Tag("label", "__true", t),
       Tag("label", "__next", t), Tag("jl", "__next", t), Tag("jz", "__next", t), Tag("jmp", "__for", t),
       Tag("jmp", "__while", t), Tag("jmp", "__next", t), Tag("jbe", "__true", t)} \subseteq Instructions
  BY <1>1, <1>3, Typed
<1> QED BY <1>4, <1>5, <1>6, <1>7

LEMMA ShowCode ==
  ASSUME NEW v \in DOMAIN AddressOf
  PROVE  /\ Show(v) \in Seq(Instructions) /\ Len(Show(v)) = 9
         /\ \A k \in Nat : At(k, Show(v)) => ShowAt(k, v)
<1>1. Code(OpOf("debug_display", UNSIGNED_INT)) = DebugDisplay(UNSIGNED_INT)
  <2>1. PICK o : o = OpOf("debug_display", UNSIGNED_INT)
    OBVIOUS
  <2>2. o.call = "debug_display" /\ o.type = UNSIGNED_INT
    BY <2>1, Fields
  <2>3. Code(o) = DebugDisplay(UNSIGNED_INT)
    BY <2>2 DEF Code, Compares
  <2> QED BY <2>1, <2>3
<1>2. CallParam(UNSIGNED_INT, 1) = <<PopTo("rsi")>>
  <2>1. ArgumentRegister(UNSIGNED_INT, 1) = "rsi"
    BY TypeNumbers DEF ArgumentRegister, RegularRegisters
  <2> QED BY <2>1, TypeNumbers DEF CallParam
<1>3. PICK s1, s2, s3, s4, s5, s6, s7, s8 :
        /\ s1 = <<Push(v)>> /\ s2 = <<Imm("leaq", 1, "rdi")>> /\ s3 = <<PopTo("rsi")>> /\ s4 = <<Imm("movb", 0, "rax")>>
        /\ s5 = <<Ins("movq", "rsp", "r12"), Imm("andq_low", 0, "r12"), Imm("andq_high", 0, "rsp")>>
        /\ s6 = <<Tag("call", "printf", 0)>> /\ s7 = <<Ins("orq", "r12", "rsp")>> /\ s8 = <<>>
  OBVIOUS
<1>4. CallFinalize("printf", TRUE, 0, VOID) = s4 \o s5 \o s6 \o s7 \o s8
  <2>1. /\ (IF TRUE THEN <<Imm("movb", 0, "rax")>> ELSE <<>>) = s4
        /\ (CASE VOID = VOID -> <<>> [] IsFloat(VOID) -> <<Imm("addq", -1, "rsp"), Ins("movsd", "xmm0", "(%rsp)")>>
              [] OTHER -> <<Push("rax")>>) = s8
    <3>1. ~IsFloat(VOID)
      BY DEF IsFloat, Floating, VOID, DOUBLE
    <3> QED BY <1>3, <3>1, Zenon
  <2>2. AlignStack = s5 /\ UnalignStack = s7
    BY <1>3 DEF AlignStack, UnalignStack
  <2> QED BY <1>3, <2>1, <2>2, Zenon DEF CallFinalize
<1>5. DebugDisplay(UNSIGNED_INT) = s2 \o s3 \o (s4 \o s5 \o s6 \o s7 \o s8)
  BY <1>2, <1>3, <1>4, TypeNumbers DEF DebugDisplay, Format
<1>6. Show(v) = s1 \o (s2 \o s3 \o (s4 \o s5 \o s6 \o s7 \o s8))
  BY <1>1, <1>3, <1>5, VariableCode DEF Show
<1>7. /\ s1 \in Seq(Instructions) /\ s2 \in Seq(Instructions) /\ s3 \in Seq(Instructions) /\ s4 \in Seq(Instructions)
      /\ s5 \in Seq(Instructions) /\ s6 \in Seq(Instructions) /\ s7 \in Seq(Instructions) /\ s8 \in Seq(Instructions)
      /\ Len(s1) = 1 /\ Len(s2) = 1 /\ Len(s3) = 1 /\ Len(s4) = 1 /\ Len(s5) = 3 /\ Len(s6) = 1 /\ Len(s7) = 1 /\ Len(s8) = 0
  BY <1>3, Singles
<1>8. PICK u1 : u1 = s2 \o s3 /\ Split(u1, s2, s3)
  <2>1. s2 \in Seq(Instructions) /\ s3 \in Seq(Instructions)
    BY <1>7 DEF Split
  <2> QED BY <2>1, Joined, Zenon
<1>9. PICK u2 : u2 = s4 \o s5 /\ Split(u2, s4, s5)
  <2>1. s4 \in Seq(Instructions) /\ s5 \in Seq(Instructions)
    BY <1>7 DEF Split
  <2> QED BY <2>1, Joined, Zenon
<1>10. PICK u3 : u3 = u2 \o s6 /\ Split(u3, u2, s6)
  <2>1. u2 \in Seq(Instructions) /\ s6 \in Seq(Instructions)
    BY <1>7, <1>9 DEF Split
  <2> QED BY <2>1, Joined, Zenon
<1>11. PICK u4 : u4 = u3 \o s7 /\ Split(u4, u3, s7)
  <2>1. u3 \in Seq(Instructions) /\ s7 \in Seq(Instructions)
    BY <1>7, <1>10 DEF Split
  <2> QED BY <2>1, Joined, Zenon
<1>12. PICK u5 : u5 = u4 \o s8 /\ Split(u5, u4, s8)
  <2>1. u4 \in Seq(Instructions) /\ s8 \in Seq(Instructions)
    BY <1>7, <1>11 DEF Split
  <2> QED BY <2>1, Joined, Zenon
<1>13. PICK u6 : u6 = u1 \o u5 /\ Split(u6, u1, u5)
  <2>1. u1 \in Seq(Instructions) /\ u5 \in Seq(Instructions)
    BY <1>7, <1>8, <1>12 DEF Split
  <2> QED BY <2>1, Joined, Zenon
<1>14. PICK u7 : u7 = s1 \o u6 /\ Split(u7, s1, u6)
  <2>1. s1 \in Seq(Instructions) /\ u6 \in Seq(Instructions)
    BY <1>7, <1>13 DEF Split
  <2> QED BY <2>1, Joined, Zenon
<1>15. /\ Len(u1) = 2 /\ Len(u2) = 4 /\ Len(u3) = 5 /\ Len(u4) = 6 /\ Len(u5) = 6
      /\ Len(u6) = 8 /\ Len(u7) = 9
  <2>1. Len(u1) = 2
    <3>1. Len(u1) = Len(s2) + Len(s3)
      BY <1>8 DEF Split
    <3> QED BY <1>7, <3>1
  <2>2. Len(u2) = 4
    <3>1. Len(u2) = Len(s4) + Len(s5)
      BY <1>9 DEF Split
    <3> QED BY <1>7, <3>1
  <2>3. Len(u3) = 5
    <3>1. Len(u3) = Len(u2) + Len(s6)
      BY <1>10 DEF Split
    <3> QED BY <1>7, <2>2, <3>1
  <2>4. Len(u4) = 6
    <3>1. Len(u4) = Len(u3) + Len(s7)
      BY <1>11 DEF Split
    <3> QED BY <1>7, <2>3, <3>1
  <2>5. Len(u5) = 6
    <3>1. Len(u5) = Len(u4) + Len(s8)
      BY <1>12 DEF Split
    <3> QED BY <1>7, <2>4, <3>1
  <2>6. Len(u6) = 8
    <3>1. Len(u6) = Len(u1) + Len(u5)
      BY <1>13 DEF Split
    <3> QED BY <1>7, <2>1, <2>5, <3>1
  <2>7. Len(u7) = 9
    <3>1. Len(u7) = Len(s1) + Len(u6)
      BY <1>14 DEF Split
    <3> QED BY <1>7, <2>6, <3>1
  <2> QED BY <2>1, <2>2, <2>3, <2>4, <2>5, <2>6, <2>7
<1>16. u7 = s1 \o (s2 \o s3 \o (s4 \o s5 \o s6 \o s7 \o s8)) /\ u7 \in Seq(Instructions)
  <2>1. u7 \in Seq(Instructions)
    BY <1>14 DEF Split
  <2> QED BY <2>1, <1>8, <1>9, <1>10, <1>11, <1>12, <1>13, <1>14, Zenon
<1>17. ASSUME NEW k \in Nat, At(k, u7)
       PROVE  ShowAt(k, v)
  <2>1. At(k, s1) /\ At(k + 1, u6)
    <3>1. k \in Nat /\ k + Len(s1) = k + 1
      BY <1>7, <1>15
    <3> QED BY <1>14, <1>17, <3>1, AtParts
  <2>2. At(k + 1, u1) /\ At(k + 3, u5)
    <3>1. k + 1 \in Nat /\ k + 1 + Len(u1) = k + 3
      BY <1>7, <1>15
    <3> QED BY <1>13, <2>1, <3>1, AtParts
  <2>3. At(k + 3, u4) /\ At(k + 9, s8)
    <3>1. k + 3 \in Nat /\ k + 3 + Len(u4) = k + 9
      BY <1>7, <1>15
    <3> QED BY <1>12, <2>2, <3>1, AtParts
  <2>4. At(k + 3, u3) /\ At(k + 8, s7)
    <3>1. k + 3 \in Nat /\ k + 3 + Len(u3) = k + 8
      BY <1>7, <1>15
    <3> QED BY <1>11, <2>3, <3>1, AtParts
  <2>5. At(k + 3, u2) /\ At(k + 7, s6)
    <3>1. k + 3 \in Nat /\ k + 3 + Len(u2) = k + 7
      BY <1>7, <1>15
    <3> QED BY <1>10, <2>4, <3>1, AtParts
  <2>6. At(k + 3, s4) /\ At(k + 4, s5)
    <3>1. k + 3 \in Nat /\ k + 3 + Len(s4) = k + 4
      BY <1>7, <1>15
    <3> QED BY <1>9, <2>5, <3>1, AtParts
  <2>7. At(k + 1, s2) /\ At(k + 2, s3)
    <3>1. k + 1 \in Nat /\ k + 1 + Len(s2) = k + 2
      BY <1>7, <1>15
    <3> QED BY <1>8, <2>2, <3>1, AtParts
  <2>8. code[k] = Push(v)
    BY <1>3, <2>1, AtOne
  <2>9. code[k + 1] = Imm("leaq", 1, "rdi")
    <3>1. k + 1 \in Nat /\ (k + 1) + 1 = k + 2 /\ (k + 1) + 2 = k + 3
      OBVIOUS
    <3> QED BY <1>3, <2>7, <3>1, AtOne
  <2>10. code[k + 2] = PopTo("rsi")
    <3>1. k + 2 \in Nat /\ (k + 2) + 1 = k + 3 /\ (k + 2) + 2 = k + 4
      OBVIOUS
    <3> QED BY <1>3, <2>7, <3>1, AtOne
  <2>11. code[k + 3] = Imm("movb", 0, "rax")
    <3>1. k + 3 \in Nat /\ (k + 3) + 1 = k + 4 /\ (k + 3) + 2 = k + 5
      OBVIOUS
    <3> QED BY <1>3, <2>6, <3>1, AtOne
  <2>12. code[k + 4] = Ins("movq", "rsp", "r12") /\ code[k + 5] = Imm("andq_low", 0, "r12") /\ code[k + 6] = Imm("andq_high", 0, "rsp")
    <3>1. k + 4 \in Nat /\ (k + 4) + 1 = k + 5 /\ (k + 4) + 2 = k + 6
      OBVIOUS
    <3> QED BY <1>3, <2>6, <3>1, AtThree
  <2>13. code[k + 7] = Tag("call", "printf", 0)
    <3>1. k + 7 \in Nat /\ (k + 7) + 1 = k + 8 /\ (k + 7) + 2 = k + 9
      OBVIOUS
    <3> QED BY <1>3, <2>5, <3>1, AtOne
  <2>14. code[k + 8] = Ins("orq", "r12", "rsp")
    <3>1. k + 8 \in Nat /\ (k + 8) + 1 = k + 9 /\ (k + 8) + 2 = k + 10
      OBVIOUS
    <3> QED BY <1>3, <2>4, <3>1, AtOne
  <2> QED BY <2>8, <2>9, <2>10, <2>11, <2>12, <2>13, <2>14 DEF ShowAt
<1> QED BY <1>6, <1>15, <1>16, <1>17

LEMMA LiteralPiece ==
  ASSUME NEW w \in Word
  PROVE  /\ Integer(w) \in Seq(Instructions) /\ Len(Integer(w)) = Width(w) /\ Width(w) \in {1, 2}
         /\ \A k \in Nat : At(k, Integer(w)) => LiteralAt(k, w)
<1>1. Integer(w) = LoadI64(w)
  <2>1. PICK o : o = [OpOf("load_i64", UNSIGNED_INT) EXCEPT !.n = w]
    OBVIOUS
  <2>2. o.call = "load_i64" /\ o.n = w
    BY <2>1, Fields
  <2>3. Code(o) = LoadI64(w)
    BY <2>2 DEF Code, Compares
  <2> QED BY <2>1, <2>3 DEF Integer
<1>2. Imm("movabs", w, "rax") \in Instructions /\ Push("rax") \in Instructions /\ Imm("pushq", w, NoName) \in Instructions
  <2>1. w \in Int
    BY PowersAssumption DEF Word, Modulus
  <2> QED BY <2>1, Typed, Named DEF Mnemonics
<1>3. CASE w \div 2 ^ ImmBits # 0
  <2>1. Integer(w) = <<Imm("movabs", w, "rax"), Push("rax")>>
    BY <1>1, <1>3 DEF LoadI64
  <2>2. Integer(w) \in Seq(Instructions) /\ Len(Integer(w)) = 2
    BY <1>2, <2>1
  <2>3. ASSUME NEW k \in Nat, At(k, Integer(w))
        PROVE  code[k] = Imm("movabs", w, "rax") /\ code[k + 1] = Push("rax")
    BY <2>1, <2>3, AtTwo
  <2> QED BY <1>3, <2>2, <2>3 DEF Width, LiteralAt
<1>4. CASE ~(w \div 2 ^ ImmBits # 0)
  <2>1. Integer(w) = <<Imm("pushq", w, NoName)>>
    BY <1>1, <1>4 DEF LoadI64
  <2>2. Integer(w) \in Seq(Instructions) /\ Len(Integer(w)) = 1
    BY <1>2, <2>1
  <2>3. ASSUME NEW k \in Nat, At(k, Integer(w))
        PROVE  code[k] = Imm("pushq", w, NoName)
    BY <2>1, <2>3, AtOne
  <2> QED BY <1>4, <2>2, <2>3 DEF Width, LiteralAt
<1> QED BY <1>3, <1>4

LEMMA VariablePiece ==
  ASSUME NEW v \in DOMAIN AddressOf
  PROVE  /\ Load(v) \in Seq(Instructions) /\ Len(Load(v)) = 1 /\ Store(v) \in Seq(Instructions) /\ Len(Store(v)) = 1
         /\ \A k \in Nat : At(k, Load(v)) => code[k] = Push(v)
         /\ \A k \in Nat : At(k, Store(v)) => code[k] = PopTo(v)
<1>1. Load(v) = <<Push(v)>> /\ Store(v) = <<PopTo(v)>>
  BY VariableCode
<1>2. Push(v) \in Instructions /\ PopTo(v) \in Instructions
  BY Singles
<1>3. /\ <<Push(v)>> \in Seq(Instructions) /\ Len(<<Push(v)>>) = 1
      /\ <<PopTo(v)>> \in Seq(Instructions) /\ Len(<<PopTo(v)>>) = 1
  BY <1>2
<1>4. /\ \A k \in Nat : At(k, <<Push(v)>>) => code[k] = Push(v)
      /\ \A k \in Nat : At(k, <<PopTo(v)>>) => code[k] = PopTo(v)
  BY AtOne
<1> QED BY <1>1, <1>3, <1>4

LEMMA SumPiece ==
  /\ Code(OpOf("alu_add", UNSIGNED_INT)) \in Seq(Instructions) /\ Len(Code(OpOf("alu_add", UNSIGNED_INT))) = 4
  /\ \A k \in Nat : At(k, Code(OpOf("alu_add", UNSIGNED_INT))) =>
       /\ code[k] = PopTo("rbx") /\ code[k + 1] = PopTo("rax") /\ code[k + 2] = Ins("addq", "rbx", "rax")
       /\ code[k + 3] = Push("rax")
<1>1. PICK s1, s2 : s1 = <<PopTo("rbx"), PopTo("rax")>> /\ s2 = <<Ins("addq", "rbx", "rax"), Push("rax")>>
  OBVIOUS
<1>2. Code(OpOf("alu_add", UNSIGNED_INT)) = s1 \o s2
  <2>1. PICK o : o = OpOf("alu_add", UNSIGNED_INT)
    OBVIOUS
  <2>2. o.call = "alu_add" /\ o.type = UNSIGNED_INT
    BY <2>1, Fields
  <2>3. Code(o) = AluAddSub("addq", "faddp", UNSIGNED_INT)
    BY <2>2 DEF Code, Compares
  <2>4. LoadBinop(UNSIGNED_INT) = s1
    BY <1>1, TypeNumbers DEF LoadBinop
  <2>5. AluAddSub("addq", "faddp", UNSIGNED_INT) = s1 \o s2
    <3>1. UNSIGNED_INT # DOUBLE
      BY TypeNumbers
    <3> QED BY <1>1, <2>4, <3>1, Zenon DEF AluAddSub
  <2> QED BY <2>1, <2>3, <2>5, Zenon
<1>3. /\ s1 \in Seq(Instructions) /\ s2 \in Seq(Instructions) /\ Len(s1) = 2 /\ Len(s2) = 2
  <2>1. {PopTo("rbx"), PopTo("rax"), Ins("addq", "rbx", "rax"), Push("rax")} \subseteq Instructions
    BY Singles, LoopsAssumption
  <2> QED BY <1>1, <2>1
<1>4. PICK u1 : u1 = s1 \o s2 /\ Split(u1, s1, s2)
  <2>1. s1 \in Seq(Instructions) /\ s2 \in Seq(Instructions)
    BY <1>3 DEF Split
  <2> QED BY <2>1, Joined, Zenon
<1>5. /\ Len(u1) = 4
  <2>1. Len(u1) = 4
    <3>1. Len(u1) = Len(s1) + Len(s2)
      BY <1>4 DEF Split
    <3> QED BY <1>3, <3>1
  <2> QED BY <2>1
<1>6. u1 = s1 \o s2 /\ u1 \in Seq(Instructions)
  <2>1. u1 \in Seq(Instructions)
    BY <1>4 DEF Split
  <2> QED BY <2>1, <1>4, Zenon
<1>7. ASSUME NEW k \in Nat, At(k, u1)
      PROVE  /\ code[k] = PopTo("rbx") /\ code[k + 1] = PopTo("rax") /\ code[k + 2] = Ins("addq", "rbx", "rax")
             /\ code[k + 3] = Push("rax")
  <2>1. At(k, s1) /\ At(k + 2, s2)
    <3>1. k \in Nat /\ k + Len(s1) = k + 2
      BY <1>3, <1>5
    <3> QED BY <1>4, <1>7, <3>1, AtParts
  <2>2. k + 2 \in Nat /\ (k + 2) + 1 = k + 3 /\ (k + 2) + 2 = k + 4
    OBVIOUS
  <2>3. code[k] = PopTo("rbx") /\ code[k + 1] = PopTo("rax")
    BY <1>1, <2>1, AtTwo
  <2>4. code[k + 2] = Ins("addq", "rbx", "rax") /\ code[(k + 2) + 1] = Push("rax")
    BY <1>1, <2>1, <2>2, AtTwo
  <2> QED BY <2>2, <2>3, <2>4
<1>8. Code(OpOf("alu_add", UNSIGNED_INT)) = u1
  BY <1>2, <1>6, Zenon
<1> QED BY <1>5, <1>6, <1>7, <1>8

LEMMA ComparisonPiece ==
  ASSUME NEW t \in Int
  PROVE  /\ Comparison("alu_lower_equal", t) \in Seq(Instructions) /\ Len(Comparison("alu_lower_equal", t)) = 9
         /\ \A k \in Nat : At(k, Comparison("alu_lower_equal", t)) =>
              /\ code[k] = PopTo("rbx") /\ code[k + 1] = PopTo("rax") /\ code[k + 2] = Ins("cmpq", "rbx", "rax")
              /\ code[k + 3] = Tag("jbe", "__true", t) /\ code[k + 4] = Imm("pushq", 0, NoName)
              /\ code[k + 5] = Tag("jmp", "__next", t) /\ code[k + 6] = Tag("label", "__true", t)
              /\ code[k + 7] = Imm("pushq", AllOnes, NoName) /\ code[k + 8] = Tag("label", "__next", t)
<1>1. PICK s1, s2, s3 :
        /\ s1 = <<PopTo("rbx"), PopTo("rax")>> /\ s2 = <<Ins("cmpq", "rbx", "rax")>>
        /\ s3 = <<Tag("jbe", "__true", t), Imm("pushq", 0, NoName), Tag("jmp", "__next", t),
                  Tag("label", "__true", t), Imm("pushq", AllOnes, NoName), Tag("label", "__next", t)>>
  OBVIOUS
<1>2. Comparison("alu_lower_equal", t) = s1 \o s2 \o s3
  <2>1. PICK o : o = [OpOf("alu_lower_equal", UNSIGNED_INT) EXCEPT !.n = t]
    OBVIOUS
  <2>2. o.call = "alu_lower_equal" /\ o.type = UNSIGNED_INT /\ o.n = t
    BY <2>1, Fields
  <2>3. Code(o) = AluCompare("alu_lower_equal", UNSIGNED_INT, t)
    BY <2>2 DEF Code, Compares
  <2>4. LoadBinop(UNSIGNED_INT) = s1 /\ CompareOperands(UNSIGNED_INT) = s2
    BY <1>1, TypeNumbers DEF LoadBinop, CompareOperands
  <2>5. JumpIf["alu_lower_equal"] = "jbe"
    BY DEF JumpIf
  <2>6. AluCompare("alu_lower_equal", UNSIGNED_INT, t) = s1 \o s2 \o s3
    BY <1>1, <2>4, <2>5, Zenon DEF AluCompare
  <2>7. Comparison("alu_lower_equal", t) = Code(o)
    BY ONLY <2>1, Zenon DEF Comparison
  <2> QED BY <2>3, <2>6, <2>7, Zenon
<1>3. /\ s1 \in Seq(Instructions) /\ s2 \in Seq(Instructions) /\ s3 \in Seq(Instructions)
      /\ Len(s1) = 2 /\ Len(s2) = 1 /\ Len(s3) = 6
  <2>1. {PopTo("rbx"), PopTo("rax"), Ins("cmpq", "rbx", "rax"), Tag("jbe", "__true", t), Imm("pushq", 0, NoName),
         Tag("jmp", "__next", t), Tag("label", "__true", t), Imm("pushq", AllOnes, NoName),
         Tag("label", "__next", t)} \subseteq Instructions
    BY Singles, LoopsAssumption
  <2> QED BY <1>1, <2>1
<1>4. PICK u1 : u1 = s1 \o s2 /\ Split(u1, s1, s2)
  <2>1. s1 \in Seq(Instructions) /\ s2 \in Seq(Instructions)
    BY <1>3 DEF Split
  <2> QED BY <2>1, Joined, Zenon
<1>5. PICK u2 : u2 = u1 \o s3 /\ Split(u2, u1, s3)
  <2>1. u1 \in Seq(Instructions) /\ s3 \in Seq(Instructions)
    BY <1>3, <1>4 DEF Split
  <2> QED BY <2>1, Joined, Zenon
<1>6. /\ Len(u1) = 3 /\ Len(u2) = 9
  <2>1. Len(u1) = 3
    <3>1. Len(u1) = Len(s1) + Len(s2)
      BY <1>4 DEF Split
    <3> QED BY <1>3, <3>1
  <2>2. Len(u2) = 9
    <3>1. Len(u2) = Len(u1) + Len(s3)
      BY <1>5 DEF Split
    <3> QED BY <1>3, <2>1, <3>1
  <2> QED BY <2>1, <2>2
<1>7. u2 = s1 \o s2 \o s3 /\ u2 \in Seq(Instructions)
  <2>1. u2 \in Seq(Instructions)
    BY <1>5 DEF Split
  <2> QED BY <2>1, <1>4, <1>5, Zenon
<1>8. ASSUME NEW k \in Nat, At(k, u2)
      PROVE  /\ code[k] = PopTo("rbx") /\ code[k + 1] = PopTo("rax") /\ code[k + 2] = Ins("cmpq", "rbx", "rax")
             /\ code[k + 3] = Tag("jbe", "__true", t) /\ code[k + 4] = Imm("pushq", 0, NoName)
             /\ code[k + 5] = Tag("jmp", "__next", t) /\ code[k + 6] = Tag("label", "__true", t)
             /\ code[k + 7] = Imm("pushq", AllOnes, NoName) /\ code[k + 8] = Tag("label", "__next", t)
  <2>1. At(k, u1) /\ At(k + 3, s3)
    <3>1. k \in Nat /\ k + Len(u1) = k + 3
      BY <1>3, <1>6
    <3> QED BY <1>5, <1>8, <3>1, AtParts
  <2>2. At(k, s1) /\ At(k + 2, s2)
    <3>1. k \in Nat /\ k + Len(s1) = k + 2
      BY <1>3, <1>6
    <3> QED BY <1>4, <2>1, <3>1, AtParts
  <2>3. k + 2 \in Nat /\ k + 3 \in Nat /\ (k + 3) + 1 = k + 4 /\ (k + 3) + 2 = k + 5 /\ (k + 3) + 3 = k + 6 /\ (k + 3) + 4 = k + 7 /\ (k + 3) + 5 = k + 8
    OBVIOUS
  <2>4. code[k] = PopTo("rbx") /\ code[k + 1] = PopTo("rax")
    BY <1>1, <2>2, AtTwo
  <2>5. code[k + 2] = Ins("cmpq", "rbx", "rax")
    BY <1>1, <2>2, <2>3, AtOne
  <2>6. /\ code[k + 3] = Tag("jbe", "__true", t) /\ code[(k + 3) + 1] = Imm("pushq", 0, NoName)
        /\ code[(k + 3) + 2] = Tag("jmp", "__next", t) /\ code[(k + 3) + 3] = Tag("label", "__true", t)
        /\ code[(k + 3) + 4] = Imm("pushq", AllOnes, NoName) /\ code[(k + 3) + 5] = Tag("label", "__next", t)
    BY <1>1, <2>1, <2>3, AtSix
  <2> QED BY <2>3, <2>4, <2>5, <2>6
<1>9. Comparison("alu_lower_equal", t) = u2
  BY <1>2, <1>7, Zenon
<1> QED BY <1>6, <1>7, <1>8, <1>9

LEMMA MarkPieces ==
  ASSUME NEW v \in DOMAIN AddressOf, NEW t \in Int
  PROVE  /\ Mark("statement_for_post_assignment", t) \in Seq(Instructions) /\ Len(Mark("statement_for_post_assignment", t)) = 1
         /\ \A k \in Nat : At(k, Mark("statement_for_post_assignment", t)) => code[k] = Tag("label", "__for", t)
         /\ ForMark("statement_for_post_check", v, t) \in Seq(Instructions) /\ Len(ForMark("statement_for_post_check", v, t)) = 3
         /\ \A k \in Nat : At(k, ForMark("statement_for_post_check", v, t)) => code[k] = PopTo("rax") /\ code[k + 1] = Ins("cmpq", v, "rax") /\ code[k + 2] = Tag("jl", "__next", t)
         /\ ForMark("statement_for_finalize", v, t) \in Seq(Instructions) /\ Len(ForMark("statement_for_finalize", v, t)) = 3
         /\ \A k \in Nat : At(k, ForMark("statement_for_finalize", v, t)) => code[k] = Imm("addq", 1, v) /\ code[k + 1] = Tag("jmp", "__for", t) /\ code[k + 2] = Tag("label", "__next", t)
         /\ Mark("statement_while_prepare", t) \in Seq(Instructions) /\ Len(Mark("statement_while_prepare", t)) = 1
         /\ \A k \in Nat : At(k, Mark("statement_while_prepare", t)) => code[k] = Tag("label", "__while", t)
         /\ Mark("statement_while_post_check", t) \in Seq(Instructions) /\ Len(Mark("statement_while_post_check", t)) = 3
         /\ \A k \in Nat : At(k, Mark("statement_while_post_check", t)) => code[k] = PopTo("rax") /\ code[k + 1] = Ins("test", "rax", "rax") /\ code[k + 2] = Tag("jz", "__next", t)
         /\ Mark("statement_while_finalize", t) \in Seq(Instructions) /\ Len(Mark("statement_while_finalize", t)) = 2
         /\ \A k \in Nat : At(k, Mark("statement_while_finalize", t)) => code[k] = Tag("jmp", "__while", t) /\ code[k + 1] = Tag("label", "__next", t)
         /\ BeginMain \in Seq(Instructions) /\ Len(BeginMain) = 1
         /\ \A k \in Nat : At(k, BeginMain) => code[k] = Ins("movq", "rsp", "rbp")
         /\ FinalizeMain \in Seq(Instructions) /\ Len(FinalizeMain) = 2
         /\ \A k \in Nat : At(k, FinalizeMain) => code[k] = Ins("movq", "rbp", "rsp") /\ code[k + 1] = Ins("ret", NoName, NoName)
<1>1. /\ Mark("statement_for_post_assignment", t) \in Seq(Instructions) /\ Len(Mark("statement_for_post_assignment", t)) = 1
      /\ \A k \in Nat : At(k, Mark("statement_for_post_assignment", t)) => code[k] = Tag("label", "__for", t)
  <2>1. PICK m : m = Mark("statement_for_post_assignment", t)
    OBVIOUS
  <2>2. m = <<Tag("label", "__for", t)>>
    BY <2>1, MarkCode
  <2>3. {Tag("label", "__for", t)} \subseteq Instructions
    BY Singles
  <2>4. m \in Seq(Instructions) /\ Len(m) = 1
    BY <2>2, <2>3
  <2>5. ASSUME NEW k \in Nat, At(k, m)
        PROVE  code[k] = Tag("label", "__for", t)
    BY <2>2, <2>5, AtOne
  <2> QED BY <2>1, <2>4, <2>5
<1>2. /\ ForMark("statement_for_post_check", v, t) \in Seq(Instructions) /\ Len(ForMark("statement_for_post_check", v, t)) = 3
      /\ \A k \in Nat : At(k, ForMark("statement_for_post_check", v, t)) => code[k] = PopTo("rax") /\ code[k + 1] = Ins("cmpq", v, "rax") /\ code[k + 2] = Tag("jl", "__next", t)
  <2>1. PICK m : m = ForMark("statement_for_post_check", v, t)
    OBVIOUS
  <2>2. m = <<PopTo("rax"), Ins("cmpq", v, "rax"), Tag("jl", "__next", t)>>
    BY <2>1, MarkCode DEF ForPostCheck
  <2>3. {PopTo("rax"), Ins("cmpq", v, "rax"), Tag("jl", "__next", t)} \subseteq Instructions
    BY Singles
  <2>4. m \in Seq(Instructions) /\ Len(m) = 3
    BY <2>2, <2>3
  <2>5. ASSUME NEW k \in Nat, At(k, m)
        PROVE  code[k] = PopTo("rax") /\ code[k + 1] = Ins("cmpq", v, "rax") /\ code[k + 2] = Tag("jl", "__next", t)
    BY <2>2, <2>5, AtThree
  <2> QED BY <2>1, <2>4, <2>5
<1>3. /\ ForMark("statement_for_finalize", v, t) \in Seq(Instructions) /\ Len(ForMark("statement_for_finalize", v, t)) = 3
      /\ \A k \in Nat : At(k, ForMark("statement_for_finalize", v, t)) => code[k] = Imm("addq", 1, v) /\ code[k + 1] = Tag("jmp", "__for", t) /\ code[k + 2] = Tag("label", "__next", t)
  <2>1. PICK m : m = ForMark("statement_for_finalize", v, t)
    OBVIOUS
  <2>2. m = <<Imm("addq", 1, v), Tag("jmp", "__for", t), Tag("label", "__next", t)>>
    BY <2>1, MarkCode DEF ForFinalize
  <2>3. {Imm("addq", 1, v), Tag("jmp", "__for", t), Tag("label", "__next", t)} \subseteq Instructions
    BY Singles
  <2>4. m \in Seq(Instructions) /\ Len(m) = 3
    BY <2>2, <2>3
  <2>5. ASSUME NEW k \in Nat, At(k, m)
        PROVE  code[k] = Imm("addq", 1, v) /\ code[k + 1] = Tag("jmp", "__for", t) /\ code[k + 2] = Tag("label", "__next", t)
    BY <2>2, <2>5, AtThree
  <2> QED BY <2>1, <2>4, <2>5
<1>4. /\ Mark("statement_while_prepare", t) \in Seq(Instructions) /\ Len(Mark("statement_while_prepare", t)) = 1
      /\ \A k \in Nat : At(k, Mark("statement_while_prepare", t)) => code[k] = Tag("label", "__while", t)
  <2>1. PICK m : m = Mark("statement_while_prepare", t)
    OBVIOUS
  <2>2. m = <<Tag("label", "__while", t)>>
    BY <2>1, MarkCode
  <2>3. {Tag("label", "__while", t)} \subseteq Instructions
    BY Singles
  <2>4. m \in Seq(Instructions) /\ Len(m) = 1
    BY <2>2, <2>3
  <2>5. ASSUME NEW k \in Nat, At(k, m)
        PROVE  code[k] = Tag("label", "__while", t)
    BY <2>2, <2>5, AtOne
  <2> QED BY <2>1, <2>4, <2>5
<1>5. /\ Mark("statement_while_post_check", t) \in Seq(Instructions) /\ Len(Mark("statement_while_post_check", t)) = 3
      /\ \A k \in Nat : At(k, Mark("statement_while_post_check", t)) => code[k] = PopTo("rax") /\ code[k + 1] = Ins("test", "rax", "rax") /\ code[k + 2] = Tag("jz", "__next", t)
  <2>1. PICK m : m = Mark("statement_while_post_check", t)
    OBVIOUS
  <2>2. m = <<PopTo("rax"), Ins("test", "rax", "rax"), Tag("jz", "__next", t)>>
    BY <2>1, MarkCode DEF PostCheck
  <2>3. {PopTo("rax"), Ins("test", "rax", "rax"), Tag("jz", "__next", t)} \subseteq Instructions
    BY Singles
  <2>4. m \in Seq(Instructions) /\ Len(m) = 3
    BY <2>2, <2>3
  <2>5. ASSUME NEW k \in Nat, At(k, m)
        PROVE  code[k] = PopTo("rax") /\ code[k + 1] = Ins("test", "rax", "rax") /\ code[k + 2] = Tag("jz", "__next", t)
    BY <2>2, <2>5, AtThree
  <2> QED BY <2>1, <2>4, <2>5
<1>6. /\ Mark("statement_while_finalize", t) \in Seq(Instructions) /\ Len(Mark("statement_while_finalize", t)) = 2
      /\ \A k \in Nat : At(k, Mark("statement_while_finalize", t)) => code[k] = Tag("jmp", "__while", t) /\ code[k + 1] = Tag("label", "__next", t)
  <2>1. PICK m : m = Mark("statement_while_finalize", t)
    OBVIOUS
  <2>2. m = <<Tag("jmp", "__while", t), Tag("label", "__next", t)>>
    BY <2>1, MarkCode
  <2>3. {Tag("jmp", "__while", t), Tag("label", "__next", t)} \subseteq Instructions
    BY Singles
  <2>4. m \in Seq(Instructions) /\ Len(m) = 2
    BY <2>2, <2>3
  <2>5. ASSUME NEW k \in Nat, At(k, m)
        PROVE  code[k] = Tag("jmp", "__while", t) /\ code[k + 1] = Tag("label", "__next", t)
    BY <2>2, <2>5, AtTwo
  <2> QED BY <2>1, <2>4, <2>5
<1>7. /\ BeginMain \in Seq(Instructions) /\ Len(BeginMain) = 1
      /\ \A k \in Nat : At(k, BeginMain) => code[k] = Ins("movq", "rsp", "rbp")
  <2>1. PICK m : m = BeginMain
    OBVIOUS
  <2>2. m = <<Ins("movq", "rsp", "rbp")>>
    BY <2>1 DEF BeginMain
  <2>3. {Ins("movq", "rsp", "rbp")} \subseteq Instructions
    BY Singles
  <2>4. m \in Seq(Instructions) /\ Len(m) = 1
    BY <2>2, <2>3
  <2>5. ASSUME NEW k \in Nat, At(k, m)
        PROVE  code[k] = Ins("movq", "rsp", "rbp")
    BY <2>2, <2>5, AtOne
  <2> QED BY <2>1, <2>4, <2>5
<1>8. /\ FinalizeMain \in Seq(Instructions) /\ Len(FinalizeMain) = 2
      /\ \A k \in Nat : At(k, FinalizeMain) => code[k] = Ins("movq", "rbp", "rsp") /\ code[k + 1] = Ins("ret", NoName, NoName)
  <2>1. PICK m : m = FinalizeMain
    OBVIOUS
  <2>2. m = <<Ins("movq", "rbp", "rsp"), Ins("ret", NoName, NoName)>>
    BY <2>1 DEF FinalizeMain
  <2>3. {Ins("movq", "rbp", "rsp"), Ins("ret", NoName, NoName)} \subseteq Instructions
    BY Singles
  <2>4. m \in Seq(Instructions) /\ Len(m) = 2
    BY <2>2, <2>3
  <2>5. ASSUME NEW k \in Nat, At(k, m)
        PROVE  code[k] = Ins("movq", "rbp", "rsp") /\ code[k + 1] = Ins("ret", NoName, NoName)
    BY <2>2, <2>5, AtTwo
  <2> QED BY <2>1, <2>4, <2>5
<1> QED BY <1>1, <1>2, <1>3, <1>4, <1>5, <1>6, <1>7, <1>8

-----------------------------------------------------------------------------
(***************************************************************************)
(* The programs: the label of the loop is at index h; a FOR tests its      *)
(* bound from index d on, a WHILE compares at q and adds at s.             *)
(***************************************************************************)
ForLayout(from, to, h, d) ==
  /\ h = 3 + Width(from) /\ d = h + 1 + Width(to) /\ Len(code) = d + 16
  /\ code[1] = Ins("movq", "rsp", "rbp") /\ LiteralAt(2, from) /\ code[h - 1] = PopTo(Counter)
  /\ code[h] = Tag("label", "__for", 1) /\ LiteralAt(h + 1, to)
  /\ code[d] = PopTo("rax") /\ code[d + 1] = Ins("cmpq", Counter, "rax") /\ code[d + 2] = Tag("jl", "__next", 1)
  /\ ShowAt(d + 3, Counter)
  /\ code[d + 12] = Imm("addq", 1, Counter) /\ code[d + 13] = Tag("jmp", "__for", 1)
  /\ code[d + 14] = Tag("label", "__next", 1)
  /\ code[d + 15] = Ins("movq", "rbp", "rsp") /\ code[d + 16] = Ins("ret", NoName, NoName)

WhileLayout(from, to, h, q, s) ==
  /\ h = 3 + Width(from) /\ q = h + 2 + Width(to) /\ s = q + 22 + Width(1) /\ Len(code) = s + 8
  /\ code[1] = Ins("movq", "rsp", "rbp") /\ LiteralAt(2, from) /\ code[h - 1] = PopTo(Counter)
  /\ code[h] = Tag("label", "__while", 1)
  /\ ConditionCode(h + 1, q, Counter, to, 2, 1)
  /\ ShowAt(q + 12, Counter) /\ IncrementAt(q + 21, s, Counter)
  /\ code[s + 5] = Tag("jmp", "__while", 1) /\ code[s + 6] = Tag("label", "__next", 1)
  /\ code[s + 7] = Ins("movq", "rbp", "rsp") /\ code[s + 8] = Ins("ret", NoName, NoName)

LEMMA ForProgram ==
  ASSUME NEW p, p.kind = "for", p.from \in Word, p.to \in Word, code = CodeOf(p), NEW h, NEW d, h = 3 + Width(p.from), d = h + 1 + Width(p.to)
  PROVE  ForLayout(p.from, p.to, h, d)
<1>1. Counter \in DOMAIN AddressOf /\ 1 \in Word /\ 1 \in Int /\ 2 \in Int
  BY LoopsAssumption, PowersAssumption DEF Word, Modulus
<1>2. PICK s1, s2, s3, s4, s5, s6, s7, s8, s9, a, b :
        /\ s1 = BeginMain
        /\ s2 = Integer(p.from)
        /\ s3 = Store(Counter)
        /\ s4 = Mark("statement_for_post_assignment", 1)
        /\ s5 = Integer(p.to)
        /\ s6 = ForMark("statement_for_post_check", Counter, 1)
        /\ s7 = Show(Counter)
        /\ s8 = ForMark("statement_for_finalize", Counter, 1)
        /\ s9 = FinalizeMain
        /\ a = Width(p.from) /\ b = Width(p.to)
  OBVIOUS
<1>3. /\ s1 \in Seq(Instructions) /\ Len(s1) = 1
      /\ s2 \in Seq(Instructions) /\ Len(s2) = a
      /\ s3 \in Seq(Instructions) /\ Len(s3) = 1
      /\ s4 \in Seq(Instructions) /\ Len(s4) = 1
      /\ s5 \in Seq(Instructions) /\ Len(s5) = b
      /\ s6 \in Seq(Instructions) /\ Len(s6) = 3
      /\ s7 \in Seq(Instructions) /\ Len(s7) = 9
      /\ s8 \in Seq(Instructions) /\ Len(s8) = 3
      /\ s9 \in Seq(Instructions) /\ Len(s9) = 2
      /\ a \in {1, 2} /\ b \in {1, 2}
  <2>1. s1 \in Seq(Instructions) /\ Len(s1) = 1
    BY <1>1, <1>2, MarkPieces
  <2>2. s2 \in Seq(Instructions) /\ Len(s2) = a
    BY <1>1, <1>2, LiteralPiece
  <2>3. s3 \in Seq(Instructions) /\ Len(s3) = 1
    BY <1>1, <1>2, VariablePiece
  <2>4. s4 \in Seq(Instructions) /\ Len(s4) = 1
    BY <1>1, <1>2, MarkPieces
  <2>5. s5 \in Seq(Instructions) /\ Len(s5) = b
    BY <1>1, <1>2, LiteralPiece
  <2>6. s6 \in Seq(Instructions) /\ Len(s6) = 3
    BY <1>1, <1>2, MarkPieces
  <2>7. s7 \in Seq(Instructions) /\ Len(s7) = 9
    BY <1>1, <1>2, ShowCode
  <2>8. s8 \in Seq(Instructions) /\ Len(s8) = 3
    BY <1>1, <1>2, MarkPieces
  <2>9. s9 \in Seq(Instructions) /\ Len(s9) = 2
    BY <1>1, <1>2, MarkPieces
  <2>10. a \in {1, 2}
    BY <1>1, <1>2, LiteralPiece
  <2>11. b \in {1, 2}
    BY <1>1, <1>2, LiteralPiece
  <2> QED BY <2>1, <2>2, <2>3, <2>4, <2>5, <2>6, <2>7, <2>8, <2>9, <2>10, <2>11
<1>4. PICK u1 : u1 = s2 \o s3 /\ Split(u1, s2, s3)
  <2>1. s2 \in Seq(Instructions) /\ s3 \in Seq(Instructions)
    BY <1>3 DEF Split
  <2> QED BY <2>1, Joined, Zenon
<1>5. PICK u2 : u2 = u1 \o s4 /\ Split(u2, u1, s4)
  <2>1. u1 \in Seq(Instructions) /\ s4 \in Seq(Instructions)
    BY <1>3, <1>4 DEF Split
  <2> QED BY <2>1, Joined, Zenon
<1>6. PICK u3 : u3 = u2 \o s5 /\ Split(u3, u2, s5)
  <2>1. u2 \in Seq(Instructions) /\ s5 \in Seq(Instructions)
    BY <1>3, <1>5 DEF Split
  <2> QED BY <2>1, Joined, Zenon
<1>7. PICK u4 : u4 = u3 \o s6 /\ Split(u4, u3, s6)
  <2>1. u3 \in Seq(Instructions) /\ s6 \in Seq(Instructions)
    BY <1>3, <1>6 DEF Split
  <2> QED BY <2>1, Joined, Zenon
<1>8. PICK u5 : u5 = u4 \o s7 /\ Split(u5, u4, s7)
  <2>1. u4 \in Seq(Instructions) /\ s7 \in Seq(Instructions)
    BY <1>3, <1>7 DEF Split
  <2> QED BY <2>1, Joined, Zenon
<1>9. PICK u6 : u6 = u5 \o s8 /\ Split(u6, u5, s8)
  <2>1. u5 \in Seq(Instructions) /\ s8 \in Seq(Instructions)
    BY <1>3, <1>8 DEF Split
  <2> QED BY <2>1, Joined, Zenon
<1>10. PICK u7 : u7 = s1 \o u6 /\ Split(u7, s1, u6)
  <2>1. s1 \in Seq(Instructions) /\ u6 \in Seq(Instructions)
    BY <1>3, <1>9 DEF Split
  <2> QED BY <2>1, Joined, Zenon
<1>11. PICK u8 : u8 = u7 \o s9 /\ Split(u8, u7, s9)
  <2>1. u7 \in Seq(Instructions) /\ s9 \in Seq(Instructions)
    BY <1>3, <1>10 DEF Split
  <2> QED BY <2>1, Joined, Zenon
<1>12. /\ Len(u1) = a + 1 /\ Len(u2) = a + 2 /\ Len(u3) = a + b + 2 /\ Len(u4) = a + b + 5 /\ Len(u5) = a + b + 14
      /\ Len(u6) = a + b + 17 /\ Len(u7) = a + b + 18 /\ Len(u8) = a + b + 20
  <2>1. Len(u1) = a + 1
    <3>1. Len(u1) = Len(s2) + Len(s3)
      BY <1>4 DEF Split
    <3> QED BY <1>3, <3>1
  <2>2. Len(u2) = a + 2
    <3>1. Len(u2) = Len(u1) + Len(s4)
      BY <1>5 DEF Split
    <3> QED BY <1>3, <2>1, <3>1
  <2>3. Len(u3) = a + b + 2
    <3>1. Len(u3) = Len(u2) + Len(s5)
      BY <1>6 DEF Split
    <3> QED BY <1>3, <2>2, <3>1
  <2>4. Len(u4) = a + b + 5
    <3>1. Len(u4) = Len(u3) + Len(s6)
      BY <1>7 DEF Split
    <3> QED BY <1>3, <2>3, <3>1
  <2>5. Len(u5) = a + b + 14
    <3>1. Len(u5) = Len(u4) + Len(s7)
      BY <1>8 DEF Split
    <3> QED BY <1>3, <2>4, <3>1
  <2>6. Len(u6) = a + b + 17
    <3>1. Len(u6) = Len(u5) + Len(s8)
      BY <1>9 DEF Split
    <3> QED BY <1>3, <2>5, <3>1
  <2>7. Len(u7) = a + b + 18
    <3>1. Len(u7) = Len(s1) + Len(u6)
      BY <1>10 DEF Split
    <3> QED BY <1>3, <2>6, <3>1
  <2>8. Len(u8) = a + b + 20
    <3>1. Len(u8) = Len(u7) + Len(s9)
      BY <1>11 DEF Split
    <3> QED BY <1>3, <2>7, <3>1
  <2> QED BY <2>1, <2>2, <2>3, <2>4, <2>5, <2>6, <2>7, <2>8
<1>13. u8 = s1 \o (s2 \o s3 \o s4 \o s5 \o s6 \o s7 \o s8) \o s9 /\ u8 \in Seq(Instructions)
  <2>1. u8 \in Seq(Instructions)
    BY <1>11 DEF Split
  <2> QED BY <2>1, <1>4, <1>5, <1>6, <1>7, <1>8, <1>9, <1>10, <1>11, Zenon
<1>14. code = u8
  <2>1. StatementsOf(p) = For(Counter, s2, s5, s7, 1)
    BY <1>2 DEF StatementsOf
  <2>2. For(Counter, s2, s5, s7, 1) = s2 \o s3 \o s4 \o s5 \o s6 \o s7 \o s8
    BY <1>2, Zenon DEF For
  <2>3. CodeOf(p) = s1 \o (s2 \o s3 \o s4 \o s5 \o s6 \o s7 \o s8) \o s9
    BY <1>2, <2>1, <2>2, Zenon DEF CodeOf
  <2> QED BY <1>13, <2>3, Zenon
<1>15. At(1, u8)
  BY <1>14 DEF At
<1>16. At(1, u7) /\ At(a + b + 19, s9)
  <2>1. 1 \in Nat /\ 1 + Len(u7) = a + b + 19
    BY <1>3, <1>12
  <2> QED BY <1>11, <1>15, <2>1, AtParts
<1>17. At(1, s1) /\ At(2, u6)
  <2>1. 1 \in Nat /\ 1 + Len(s1) = 2
    BY <1>3, <1>12
  <2> QED BY <1>10, <1>16, <2>1, AtParts
<1>18. At(2, u5) /\ At(a + b + 16, s8)
  <2>1. 2 \in Nat /\ 2 + Len(u5) = a + b + 16
    BY <1>3, <1>12
  <2> QED BY <1>9, <1>17, <2>1, AtParts
<1>19. At(2, u4) /\ At(a + b + 7, s7)
  <2>1. 2 \in Nat /\ 2 + Len(u4) = a + b + 7
    BY <1>3, <1>12
  <2> QED BY <1>8, <1>18, <2>1, AtParts
<1>20. At(2, u3) /\ At(a + b + 4, s6)
  <2>1. 2 \in Nat /\ 2 + Len(u3) = a + b + 4
    BY <1>3, <1>12
  <2> QED BY <1>7, <1>19, <2>1, AtParts
<1>21. At(2, u2) /\ At(a + 4, s5)
  <2>1. 2 \in Nat /\ 2 + Len(u2) = a + 4
    BY <1>3, <1>12
  <2> QED BY <1>6, <1>20, <2>1, AtParts
<1>22. At(2, u1) /\ At(a + 3, s4)
  <2>1. 2 \in Nat /\ 2 + Len(u1) = a + 3
    BY <1>3, <1>12
  <2> QED BY <1>5, <1>21, <2>1, AtParts
<1>23. At(2, s2) /\ At(a + 2, s3)
  <2>1. 2 \in Nat /\ 2 + Len(s2) = a + 2
    BY <1>3, <1>12
  <2> QED BY <1>4, <1>22, <2>1, AtParts
<1>24. code[1] = Ins("movq", "rsp", "rbp")
  <2>1. 1 \in Nat
    BY <1>3
  <2>2. \A k \in Nat : At(k, s1) => (code[k] = Ins("movq", "rsp", "rbp"))
    BY <1>1, <1>2, MarkPieces
  <2> QED BY <1>17, <2>1, <2>2
<1>25. LiteralAt(2, p.from)
  <2>1. 2 \in Nat
    BY <1>3
  <2>2. \A k \in Nat : At(k, s2) => (LiteralAt(k, p.from))
    BY <1>1, <1>2, LiteralPiece
  <2> QED BY <1>23, <2>1, <2>2
<1>26. code[a + 2] = PopTo(Counter)
  <2>1. a + 2 \in Nat
    BY <1>3
  <2>2. \A k \in Nat : At(k, s3) => (code[k] = PopTo(Counter))
    BY <1>1, <1>2, VariablePiece
  <2> QED BY <1>23, <2>1, <2>2
<1>27. code[a + 3] = Tag("label", "__for", 1)
  <2>1. a + 3 \in Nat
    BY <1>3
  <2>2. \A k \in Nat : At(k, s4) => (code[k] = Tag("label", "__for", 1))
    BY <1>1, <1>2, MarkPieces
  <2> QED BY <1>22, <2>1, <2>2
<1>28. LiteralAt(a + 4, p.to)
  <2>1. a + 4 \in Nat
    BY <1>3
  <2>2. \A k \in Nat : At(k, s5) => (LiteralAt(k, p.to))
    BY <1>1, <1>2, LiteralPiece
  <2> QED BY <1>21, <2>1, <2>2
<1>29. code[a + b + 4] = PopTo("rax") /\ code[a + b + 4 + 1] = Ins("cmpq", Counter, "rax") /\ code[a + b + 4 + 2] = Tag("jl", "__next", 1)
  <2>1. a + b + 4 \in Nat
    BY <1>3
  <2>2. \A k \in Nat : At(k, s6) => (code[k] = PopTo("rax") /\ code[k + 1] = Ins("cmpq", Counter, "rax") /\ code[k + 2] = Tag("jl", "__next", 1))
    BY <1>1, <1>2, MarkPieces
  <2> QED BY <1>20, <2>1, <2>2
<1>30. ShowAt(a + b + 7, Counter)
  <2>1. a + b + 7 \in Nat
    BY <1>3
  <2>2. \A k \in Nat : At(k, s7) => (ShowAt(k, Counter))
    BY <1>1, <1>2, ShowCode
  <2> QED BY <1>19, <2>1, <2>2
<1>31. code[a + b + 16] = Imm("addq", 1, Counter) /\ code[a + b + 16 + 1] = Tag("jmp", "__for", 1) /\ code[a + b + 16 + 2] = Tag("label", "__next", 1)
  <2>1. a + b + 16 \in Nat
    BY <1>3
  <2>2. \A k \in Nat : At(k, s8) => (code[k] = Imm("addq", 1, Counter) /\ code[k + 1] = Tag("jmp", "__for", 1) /\ code[k + 2] = Tag("label", "__next", 1))
    BY <1>1, <1>2, MarkPieces
  <2> QED BY <1>18, <2>1, <2>2
<1>32. code[a + b + 19] = Ins("movq", "rbp", "rsp") /\ code[a + b + 19 + 1] = Ins("ret", NoName, NoName)
  <2>1. a + b + 19 \in Nat
    BY <1>3
  <2>2. \A k \in Nat : At(k, s9) => (code[k] = Ins("movq", "rbp", "rsp") /\ code[k + 1] = Ins("ret", NoName, NoName))
    BY <1>1, <1>2, MarkPieces
  <2> QED BY <1>16, <2>1, <2>2
<1>33. h = a + 3 /\ d = a + b + 4
  <2>1. h = 3 + a /\ d = h + 1 + b
    BY <1>2
  <2>2. a \in {1, 2} /\ b \in {1, 2}
    BY <1>3
  <2> QED BY ONLY <2>1, <2>2
<1>34. Len(code) = d + 16
  <2>1. Len(code) = a + b + 20
    BY <1>12, <1>14
  <2>2. a \in {1, 2} /\ b \in {1, 2}
    BY <1>3
  <2> QED BY ONLY <1>33, <2>1, <2>2
<1>35. /\ h - 1 = a + 2 /\ h + 1 = a + 4 /\ d + 1 = a + b + 4 + 1 /\ d + 2 = a + b + 4 + 2 /\ d + 3 = a + b + 7
       /\ d + 12 = a + b + 16 /\ d + 13 = a + b + 16 + 1 /\ d + 14 = a + b + 16 + 2
       /\ d + 15 = a + b + 19 /\ d + 16 = a + b + 19 + 1
  <2>1. a \in {1, 2} /\ b \in {1, 2}
    BY <1>3
  <2> QED BY ONLY <1>33, <2>1
<1> QED BY <1>2, <1>33, <1>34, <1>35, <1>24, <1>25, <1>26, <1>27, <1>28, <1>29, <1>30, <1>31, <1>32 DEF ForLayout

LEMMA WhileProgram ==
  ASSUME NEW p, p.kind = "while", p.from \in Word, p.to \in Word, code = CodeOf(p), NEW h, NEW q, NEW s, h = 3 + Width(p.from), q = h + 2 + Width(p.to), s = q + 22 + Width(1)
  PROVE  WhileLayout(p.from, p.to, h, q, s)
<1>1. Counter \in DOMAIN AddressOf /\ 1 \in Word /\ 1 \in Int /\ 2 \in Int
  BY LoopsAssumption, PowersAssumption DEF Word, Modulus
<1>2. PICK s1, s2, s3, s4, s5, s6, s7, s8, s9, s10, s11, s12, s13, s14, s15, a, b, c :
        /\ s1 = BeginMain
        /\ s2 = Integer(p.from)
        /\ s3 = Store(Counter)
        /\ s4 = Mark("statement_while_prepare", 1)
        /\ s5 = Load(Counter)
        /\ s6 = Integer(p.to)
        /\ s7 = Comparison("alu_lower_equal", 2)
        /\ s8 = Mark("statement_while_post_check", 1)
        /\ s9 = Show(Counter)
        /\ s10 = Load(Counter)
        /\ s11 = Integer(1)
        /\ s12 = Code(OpOf("alu_add", UNSIGNED_INT))
        /\ s13 = Store(Counter)
        /\ s14 = Mark("statement_while_finalize", 1)
        /\ s15 = FinalizeMain
        /\ a = Width(p.from) /\ b = Width(p.to) /\ c = Width(1)
  OBVIOUS
<1>3. /\ s1 \in Seq(Instructions) /\ Len(s1) = 1
      /\ s2 \in Seq(Instructions) /\ Len(s2) = a
      /\ s3 \in Seq(Instructions) /\ Len(s3) = 1
      /\ s4 \in Seq(Instructions) /\ Len(s4) = 1
      /\ s5 \in Seq(Instructions) /\ Len(s5) = 1
      /\ s6 \in Seq(Instructions) /\ Len(s6) = b
      /\ s7 \in Seq(Instructions) /\ Len(s7) = 9
      /\ s8 \in Seq(Instructions) /\ Len(s8) = 3
      /\ s9 \in Seq(Instructions) /\ Len(s9) = 9
      /\ s10 \in Seq(Instructions) /\ Len(s10) = 1
      /\ s11 \in Seq(Instructions) /\ Len(s11) = c
      /\ s12 \in Seq(Instructions) /\ Len(s12) = 4
      /\ s13 \in Seq(Instructions) /\ Len(s13) = 1
      /\ s14 \in Seq(Instructions) /\ Len(s14) = 2
      /\ s15 \in Seq(Instructions) /\ Len(s15) = 2
      /\ a \in {1, 2} /\ b \in {1, 2} /\ c \in {1, 2}
  <2>1. s1 \in Seq(Instructions) /\ Len(s1) = 1
    BY <1>1, <1>2, MarkPieces
  <2>2. s2 \in Seq(Instructions) /\ Len(s2) = a
    BY <1>1, <1>2, LiteralPiece
  <2>3. s3 \in Seq(Instructions) /\ Len(s3) = 1
    BY <1>1, <1>2, VariablePiece
  <2>4. s4 \in Seq(Instructions) /\ Len(s4) = 1
    BY <1>1, <1>2, MarkPieces
  <2>5. s5 \in Seq(Instructions) /\ Len(s5) = 1
    BY <1>1, <1>2, VariablePiece
  <2>6. s6 \in Seq(Instructions) /\ Len(s6) = b
    BY <1>1, <1>2, LiteralPiece
  <2>7. s7 \in Seq(Instructions) /\ Len(s7) = 9
    BY <1>1, <1>2, ComparisonPiece
  <2>8. s8 \in Seq(Instructions) /\ Len(s8) = 3
    BY <1>1, <1>2, MarkPieces
  <2>9. s9 \in Seq(Instructions) /\ Len(s9) = 9
    BY <1>1, <1>2, ShowCode
  <2>10. s10 \in Seq(Instructions) /\ Len(s10) = 1
    BY <1>1, <1>2, VariablePiece
  <2>11. s11 \in Seq(Instructions) /\ Len(s11) = c
    BY <1>1, <1>2, LiteralPiece
  <2>12. s12 \in Seq(Instructions) /\ Len(s12) = 4
    BY <1>1, <1>2, SumPiece
  <2>13. s13 \in Seq(Instructions) /\ Len(s13) = 1
    BY <1>1, <1>2, VariablePiece
  <2>14. s14 \in Seq(Instructions) /\ Len(s14) = 2
    BY <1>1, <1>2, MarkPieces
  <2>15. s15 \in Seq(Instructions) /\ Len(s15) = 2
    BY <1>1, <1>2, MarkPieces
  <2>16. a \in {1, 2}
    BY <1>1, <1>2, LiteralPiece
  <2>17. b \in {1, 2}
    BY <1>1, <1>2, LiteralPiece
  <2>18. c \in {1, 2}
    BY <1>1, <1>2, LiteralPiece
  <2> QED BY <2>1, <2>2, <2>3, <2>4, <2>5, <2>6, <2>7, <2>8, <2>9, <2>10, <2>11, <2>12, <2>13, <2>14, <2>15, <2>16, <2>17, <2>18
<1>4. PICK u1 : u1 = s2 \o s3 /\ Split(u1, s2, s3)
  <2>1. s2 \in Seq(Instructions) /\ s3 \in Seq(Instructions)
    BY <1>3 DEF Split
  <2> QED BY <2>1, Joined, Zenon
<1>5. PICK u2 : u2 = s5 \o s6 /\ Split(u2, s5, s6)
  <2>1. s5 \in Seq(Instructions) /\ s6 \in Seq(Instructions)
    BY <1>3 DEF Split
  <2> QED BY <2>1, Joined, Zenon
<1>6. PICK u3 : u3 = u2 \o s7 /\ Split(u3, u2, s7)
  <2>1. u2 \in Seq(Instructions) /\ s7 \in Seq(Instructions)
    BY <1>3, <1>5 DEF Split
  <2> QED BY <2>1, Joined, Zenon
<1>7. PICK u4 : u4 = s4 \o u3 /\ Split(u4, s4, u3)
  <2>1. s4 \in Seq(Instructions) /\ u3 \in Seq(Instructions)
    BY <1>3, <1>6 DEF Split
  <2> QED BY <2>1, Joined, Zenon
<1>8. PICK u5 : u5 = u4 \o s8 /\ Split(u5, u4, s8)
  <2>1. u4 \in Seq(Instructions) /\ s8 \in Seq(Instructions)
    BY <1>3, <1>7 DEF Split
  <2> QED BY <2>1, Joined, Zenon
<1>9. PICK u6 : u6 = s10 \o s11 /\ Split(u6, s10, s11)
  <2>1. s10 \in Seq(Instructions) /\ s11 \in Seq(Instructions)
    BY <1>3 DEF Split
  <2> QED BY <2>1, Joined, Zenon
<1>10. PICK u7 : u7 = u6 \o s12 /\ Split(u7, u6, s12)
  <2>1. u6 \in Seq(Instructions) /\ s12 \in Seq(Instructions)
    BY <1>3, <1>9 DEF Split
  <2> QED BY <2>1, Joined, Zenon
<1>11. PICK u8 : u8 = u7 \o s13 /\ Split(u8, u7, s13)
  <2>1. u7 \in Seq(Instructions) /\ s13 \in Seq(Instructions)
    BY <1>3, <1>10 DEF Split
  <2> QED BY <2>1, Joined, Zenon
<1>12. PICK u9 : u9 = s9 \o u8 /\ Split(u9, s9, u8)
  <2>1. s9 \in Seq(Instructions) /\ u8 \in Seq(Instructions)
    BY <1>3, <1>11 DEF Split
  <2> QED BY <2>1, Joined, Zenon
<1>13. PICK u10 : u10 = u5 \o u9 /\ Split(u10, u5, u9)
  <2>1. u5 \in Seq(Instructions) /\ u9 \in Seq(Instructions)
    BY <1>3, <1>8, <1>12 DEF Split
  <2> QED BY <2>1, Joined, Zenon
<1>14. PICK u11 : u11 = u10 \o s14 /\ Split(u11, u10, s14)
  <2>1. u10 \in Seq(Instructions) /\ s14 \in Seq(Instructions)
    BY <1>3, <1>13 DEF Split
  <2> QED BY <2>1, Joined, Zenon
<1>15. PICK u12 : u12 = u1 \o u11 /\ Split(u12, u1, u11)
  <2>1. u1 \in Seq(Instructions) /\ u11 \in Seq(Instructions)
    BY <1>3, <1>4, <1>14 DEF Split
  <2> QED BY <2>1, Joined, Zenon
<1>16. PICK u13 : u13 = s1 \o u12 /\ Split(u13, s1, u12)
  <2>1. s1 \in Seq(Instructions) /\ u12 \in Seq(Instructions)
    BY <1>3, <1>15 DEF Split
  <2> QED BY <2>1, Joined, Zenon
<1>17. PICK u14 : u14 = u13 \o s15 /\ Split(u14, u13, s15)
  <2>1. u13 \in Seq(Instructions) /\ s15 \in Seq(Instructions)
    BY <1>3, <1>16 DEF Split
  <2> QED BY <2>1, Joined, Zenon
<1>18. /\ Len(u1) = a + 1 /\ Len(u2) = b + 1 /\ Len(u3) = b + 10 /\ Len(u4) = b + 11 /\ Len(u5) = b + 14
      /\ Len(u6) = c + 1 /\ Len(u7) = c + 5 /\ Len(u8) = c + 6 /\ Len(u9) = c + 15 /\ Len(u10) = b + c + 29
      /\ Len(u11) = b + c + 31 /\ Len(u12) = a + b + c + 32 /\ Len(u13) = a + b + c + 33 /\ Len(u14) = a + b + c + 35
  <2>1. Len(u1) = a + 1
    <3>1. Len(u1) = Len(s2) + Len(s3)
      BY <1>4 DEF Split
    <3> QED BY <1>3, <3>1
  <2>2. Len(u2) = b + 1
    <3>1. Len(u2) = Len(s5) + Len(s6)
      BY <1>5 DEF Split
    <3> QED BY <1>3, <3>1
  <2>3. Len(u3) = b + 10
    <3>1. Len(u3) = Len(u2) + Len(s7)
      BY <1>6 DEF Split
    <3> QED BY <1>3, <2>2, <3>1
  <2>4. Len(u4) = b + 11
    <3>1. Len(u4) = Len(s4) + Len(u3)
      BY <1>7 DEF Split
    <3> QED BY <1>3, <2>3, <3>1
  <2>5. Len(u5) = b + 14
    <3>1. Len(u5) = Len(u4) + Len(s8)
      BY <1>8 DEF Split
    <3> QED BY <1>3, <2>4, <3>1
  <2>6. Len(u6) = c + 1
    <3>1. Len(u6) = Len(s10) + Len(s11)
      BY <1>9 DEF Split
    <3> QED BY <1>3, <3>1
  <2>7. Len(u7) = c + 5
    <3>1. Len(u7) = Len(u6) + Len(s12)
      BY <1>10 DEF Split
    <3> QED BY <1>3, <2>6, <3>1
  <2>8. Len(u8) = c + 6
    <3>1. Len(u8) = Len(u7) + Len(s13)
      BY <1>11 DEF Split
    <3> QED BY <1>3, <2>7, <3>1
  <2>9. Len(u9) = c + 15
    <3>1. Len(u9) = Len(s9) + Len(u8)
      BY <1>12 DEF Split
    <3> QED BY <1>3, <2>8, <3>1
  <2>10. Len(u10) = b + c + 29
    <3>1. Len(u10) = Len(u5) + Len(u9)
      BY <1>13 DEF Split
    <3> QED BY <1>3, <2>5, <2>9, <3>1
  <2>11. Len(u11) = b + c + 31
    <3>1. Len(u11) = Len(u10) + Len(s14)
      BY <1>14 DEF Split
    <3> QED BY <1>3, <2>10, <3>1
  <2>12. Len(u12) = a + b + c + 32
    <3>1. Len(u12) = Len(u1) + Len(u11)
      BY <1>15 DEF Split
    <3> QED BY <1>3, <2>1, <2>11, <3>1
  <2>13. Len(u13) = a + b + c + 33
    <3>1. Len(u13) = Len(s1) + Len(u12)
      BY <1>16 DEF Split
    <3> QED BY <1>3, <2>12, <3>1
  <2>14. Len(u14) = a + b + c + 35
    <3>1. Len(u14) = Len(u13) + Len(s15)
      BY <1>17 DEF Split
    <3> QED BY <1>3, <2>13, <3>1
  <2> QED BY <2>1, <2>2, <2>3, <2>4, <2>5, <2>6, <2>7, <2>8, <2>9, <2>10, <2>11, <2>12, <2>13, <2>14
<1>19. u14 = s1 \o (s2 \o s3 \o (s4 \o (s5 \o s6 \o s7) \o s8 \o (s9 \o (s10 \o s11 \o s12 \o s13)) \o s14)) \o s15 /\ u14 \in Seq(Instructions)
  <2>1. u14 \in Seq(Instructions)
    BY <1>17 DEF Split
  <2> QED BY <2>1, <1>4, <1>5, <1>6, <1>7, <1>8, <1>9, <1>10, <1>11, <1>12, <1>13, <1>14, <1>15, <1>16, <1>17, Zenon
<1>20. code = u14
  <2>1. StatementsOf(p) = s2 \o s3 \o While(s5 \o s6 \o s7, s9 \o Increment(Counter), 1)
    BY <1>2 DEF StatementsOf
  <2>2. Increment(Counter) = s10 \o s11 \o s12 \o s13
    BY <1>2, Zenon DEF Increment
  <2>3. While(s5 \o s6 \o s7, s9 \o Increment(Counter), 1)
          = s4 \o (s5 \o s6 \o s7) \o s8 \o (s9 \o (s10 \o s11 \o s12 \o s13)) \o s14
    BY <1>2, <2>2, Zenon DEF While
  <2>4. CodeOf(p) = s1 \o (s2 \o s3 \o (s4 \o (s5 \o s6 \o s7) \o s8 \o (s9 \o (s10 \o s11 \o s12 \o s13)) \o s14)) \o s15
    BY <1>2, <2>1, <2>3, Zenon DEF CodeOf
  <2> QED BY <1>19, <2>4, Zenon
<1>21. At(1, u14)
  BY <1>20 DEF At
<1>22. At(1, u13) /\ At(a + b + c + 34, s15)
  <2>1. 1 \in Nat /\ 1 + Len(u13) = a + b + c + 34
    BY <1>3, <1>18
  <2> QED BY <1>17, <1>21, <2>1, AtParts
<1>23. At(1, s1) /\ At(2, u12)
  <2>1. 1 \in Nat /\ 1 + Len(s1) = 2
    BY <1>3, <1>18
  <2> QED BY <1>16, <1>22, <2>1, AtParts
<1>24. At(2, u1) /\ At(a + 3, u11)
  <2>1. 2 \in Nat /\ 2 + Len(u1) = a + 3
    BY <1>3, <1>18
  <2> QED BY <1>15, <1>23, <2>1, AtParts
<1>25. At(a + 3, u10) /\ At(a + b + c + 32, s14)
  <2>1. a + 3 \in Nat /\ a + 3 + Len(u10) = a + b + c + 32
    BY <1>3, <1>18
  <2> QED BY <1>14, <1>24, <2>1, AtParts
<1>26. At(a + 3, u5) /\ At(a + b + 17, u9)
  <2>1. a + 3 \in Nat /\ a + 3 + Len(u5) = a + b + 17
    BY <1>3, <1>18
  <2> QED BY <1>13, <1>25, <2>1, AtParts
<1>27. At(a + b + 17, s9) /\ At(a + b + 26, u8)
  <2>1. a + b + 17 \in Nat /\ a + b + 17 + Len(s9) = a + b + 26
    BY <1>3, <1>18
  <2> QED BY <1>12, <1>26, <2>1, AtParts
<1>28. At(a + b + 26, u7) /\ At(a + b + c + 31, s13)
  <2>1. a + b + 26 \in Nat /\ a + b + 26 + Len(u7) = a + b + c + 31
    BY <1>3, <1>18
  <2> QED BY <1>11, <1>27, <2>1, AtParts
<1>29. At(a + b + 26, u6) /\ At(a + b + c + 27, s12)
  <2>1. a + b + 26 \in Nat /\ a + b + 26 + Len(u6) = a + b + c + 27
    BY <1>3, <1>18
  <2> QED BY <1>10, <1>28, <2>1, AtParts
<1>30. At(a + b + 26, s10) /\ At(a + b + 27, s11)
  <2>1. a + b + 26 \in Nat /\ a + b + 26 + Len(s10) = a + b + 27
    BY <1>3, <1>18
  <2> QED BY <1>9, <1>29, <2>1, AtParts
<1>31. At(a + 3, u4) /\ At(a + b + 14, s8)
  <2>1. a + 3 \in Nat /\ a + 3 + Len(u4) = a + b + 14
    BY <1>3, <1>18
  <2> QED BY <1>8, <1>26, <2>1, AtParts
<1>32. At(a + 3, s4) /\ At(a + 4, u3)
  <2>1. a + 3 \in Nat /\ a + 3 + Len(s4) = a + 4
    BY <1>3, <1>18
  <2> QED BY <1>7, <1>31, <2>1, AtParts
<1>33. At(a + 4, u2) /\ At(a + b + 5, s7)
  <2>1. a + 4 \in Nat /\ a + 4 + Len(u2) = a + b + 5
    BY <1>3, <1>18
  <2> QED BY <1>6, <1>32, <2>1, AtParts
<1>34. At(a + 4, s5) /\ At(a + 5, s6)
  <2>1. a + 4 \in Nat /\ a + 4 + Len(s5) = a + 5
    BY <1>3, <1>18
  <2> QED BY <1>5, <1>33, <2>1, AtParts
<1>35. At(2, s2) /\ At(a + 2, s3)
  <2>1. 2 \in Nat /\ 2 + Len(s2) = a + 2
    BY <1>3, <1>18
  <2> QED BY <1>4, <1>24, <2>1, AtParts
<1>36. code[1] = Ins("movq", "rsp", "rbp")
  <2>1. 1 \in Nat
    BY <1>3
  <2>2. \A k \in Nat : At(k, s1) => (code[k] = Ins("movq", "rsp", "rbp"))
    BY <1>1, <1>2, MarkPieces
  <2> QED BY <1>23, <2>1, <2>2
<1>37. LiteralAt(2, p.from)
  <2>1. 2 \in Nat
    BY <1>3
  <2>2. \A k \in Nat : At(k, s2) => (LiteralAt(k, p.from))
    BY <1>1, <1>2, LiteralPiece
  <2> QED BY <1>35, <2>1, <2>2
<1>38. code[a + 2] = PopTo(Counter)
  <2>1. a + 2 \in Nat
    BY <1>3
  <2>2. \A k \in Nat : At(k, s3) => (code[k] = PopTo(Counter))
    BY <1>1, <1>2, VariablePiece
  <2> QED BY <1>35, <2>1, <2>2
<1>39. code[a + 3] = Tag("label", "__while", 1)
  <2>1. a + 3 \in Nat
    BY <1>3
  <2>2. \A k \in Nat : At(k, s4) => (code[k] = Tag("label", "__while", 1))
    BY <1>1, <1>2, MarkPieces
  <2> QED BY <1>32, <2>1, <2>2
<1>40. code[a + 4] = Push(Counter)
  <2>1. a + 4 \in Nat
    BY <1>3
  <2>2. \A k \in Nat : At(k, s5) => (code[k] = Push(Counter))
    BY <1>1, <1>2, VariablePiece
  <2> QED BY <1>34, <2>1, <2>2
<1>41. LiteralAt(a + 5, p.to)
  <2>1. a + 5 \in Nat
    BY <1>3
  <2>2. \A k \in Nat : At(k, s6) => (LiteralAt(k, p.to))
    BY <1>1, <1>2, LiteralPiece
  <2> QED BY <1>34, <2>1, <2>2
<1>42. code[a + b + 5] = PopTo("rbx") /\ code[a + b + 5 + 1] = PopTo("rax") /\ code[a + b + 5 + 2] = Ins("cmpq", "rbx", "rax") /\ code[a + b + 5 + 3] = Tag("jbe", "__true", 2) /\ code[a + b + 5 + 4] = Imm("pushq", 0, NoName) /\ code[a + b + 5 + 5] = Tag("jmp", "__next", 2) /\ code[a + b + 5 + 6] = Tag("label", "__true", 2) /\ code[a + b + 5 + 7] = Imm("pushq", AllOnes, NoName) /\ code[a + b + 5 + 8] = Tag("label", "__next", 2)
  <2>1. a + b + 5 \in Nat
    BY <1>3
  <2>2. \A k \in Nat : At(k, s7) => (code[k] = PopTo("rbx") /\ code[k + 1] = PopTo("rax") /\ code[k + 2] = Ins("cmpq", "rbx", "rax") /\ code[k + 3] = Tag("jbe", "__true", 2) /\ code[k + 4] = Imm("pushq", 0, NoName) /\ code[k + 5] = Tag("jmp", "__next", 2) /\ code[k + 6] = Tag("label", "__true", 2) /\ code[k + 7] = Imm("pushq", AllOnes, NoName) /\ code[k + 8] = Tag("label", "__next", 2))
    BY <1>1, <1>2, ComparisonPiece
  <2> QED BY <1>33, <2>1, <2>2
<1>43. code[a + b + 14] = PopTo("rax") /\ code[a + b + 14 + 1] = Ins("test", "rax", "rax") /\ code[a + b + 14 + 2] = Tag("jz", "__next", 1)
  <2>1. a + b + 14 \in Nat
    BY <1>3
  <2>2. \A k \in Nat : At(k, s8) => (code[k] = PopTo("rax") /\ code[k + 1] = Ins("test", "rax", "rax") /\ code[k + 2] = Tag("jz", "__next", 1))
    BY <1>1, <1>2, MarkPieces
  <2> QED BY <1>31, <2>1, <2>2
<1>44. ShowAt(a + b + 17, Counter)
  <2>1. a + b + 17 \in Nat
    BY <1>3
  <2>2. \A k \in Nat : At(k, s9) => (ShowAt(k, Counter))
    BY <1>1, <1>2, ShowCode
  <2> QED BY <1>27, <2>1, <2>2
<1>45. code[a + b + 26] = Push(Counter)
  <2>1. a + b + 26 \in Nat
    BY <1>3
  <2>2. \A k \in Nat : At(k, s10) => (code[k] = Push(Counter))
    BY <1>1, <1>2, VariablePiece
  <2> QED BY <1>30, <2>1, <2>2
<1>46. LiteralAt(a + b + 27, 1)
  <2>1. a + b + 27 \in Nat
    BY <1>3
  <2>2. \A k \in Nat : At(k, s11) => (LiteralAt(k, 1))
    BY <1>1, <1>2, LiteralPiece
  <2> QED BY <1>30, <2>1, <2>2
<1>47. code[a + b + c + 27] = PopTo("rbx") /\ code[a + b + c + 27 + 1] = PopTo("rax") /\ code[a + b + c + 27 + 2] = Ins("addq", "rbx", "rax") /\ code[a + b + c + 27 + 3] = Push("rax")
  <2>1. a + b + c + 27 \in Nat
    BY <1>3
  <2>2. \A k \in Nat : At(k, s12) => (code[k] = PopTo("rbx") /\ code[k + 1] = PopTo("rax") /\ code[k + 2] = Ins("addq", "rbx", "rax") /\ code[k + 3] = Push("rax"))
    BY <1>1, <1>2, SumPiece
  <2> QED BY <1>29, <2>1, <2>2
<1>48. code[a + b + c + 31] = PopTo(Counter)
  <2>1. a + b + c + 31 \in Nat
    BY <1>3
  <2>2. \A k \in Nat : At(k, s13) => (code[k] = PopTo(Counter))
    BY <1>1, <1>2, VariablePiece
  <2> QED BY <1>28, <2>1, <2>2
<1>49. code[a + b + c + 32] = Tag("jmp", "__while", 1) /\ code[a + b + c + 32 + 1] = Tag("label", "__next", 1)
  <2>1. a + b + c + 32 \in Nat
    BY <1>3
  <2>2. \A k \in Nat : At(k, s14) => (code[k] = Tag("jmp", "__while", 1) /\ code[k + 1] = Tag("label", "__next", 1))
    BY <1>1, <1>2, MarkPieces
  <2> QED BY <1>25, <2>1, <2>2
<1>50. code[a + b + c + 34] = Ins("movq", "rbp", "rsp") /\ code[a + b + c + 34 + 1] = Ins("ret", NoName, NoName)
  <2>1. a + b + c + 34 \in Nat
    BY <1>3
  <2>2. \A k \in Nat : At(k, s15) => (code[k] = Ins("movq", "rbp", "rsp") /\ code[k + 1] = Ins("ret", NoName, NoName))
    BY <1>1, <1>2, MarkPieces
  <2> QED BY <1>22, <2>1, <2>2
<1>51. h = a + 3 /\ q = a + b + 5 /\ s = a + b + c + 27
  <2>1. h = 3 + a /\ q = h + 2 + b /\ s = q + 22 + c
    BY <1>2
  <2>2. a \in {1, 2} /\ b \in {1, 2} /\ c \in {1, 2}
    BY <1>3
  <2> QED BY ONLY <2>1, <2>2
<1>52. Len(code) = s + 8
  <2>1. Len(code) = a + b + c + 35
    BY <1>18, <1>20
  <2>2. a \in {1, 2} /\ b \in {1, 2} /\ c \in {1, 2}
    BY <1>3
  <2> QED BY ONLY <1>51, <2>1, <2>2
<1>53. /\ h - 1 = a + 2 /\ h + 1 = a + 4 /\ (h + 1) + 1 = a + 5 /\ q = (h + 1) + 1 + b
       /\ q + 1 = a + b + 5 + 1 /\ q + 2 = a + b + 5 + 2 /\ q + 3 = a + b + 5 + 3 /\ q + 4 = a + b + 5 + 4
       /\ q + 5 = a + b + 5 + 5 /\ q + 6 = a + b + 5 + 6 /\ q + 7 = a + b + 5 + 7 /\ q + 8 = a + b + 5 + 8
       /\ q + 9 = a + b + 14 /\ q + 10 = a + b + 14 + 1 /\ q + 11 = a + b + 14 + 2
  <2>1. a \in {1, 2} /\ b \in {1, 2} /\ c \in {1, 2}
    BY <1>3
  <2> QED BY ONLY <1>51, <2>1
<1>54. ConditionCode(h + 1, q, Counter, p.to, 2, 1)
  BY <1>2, <1>51, <1>53, <1>36, <1>37, <1>38, <1>39, <1>40, <1>41, <1>42, <1>43, <1>44, <1>45, <1>46, <1>47, <1>48, <1>49, <1>50 DEF ConditionCode
<1>55. /\ q + 12 = a + b + 17 /\ q + 21 = a + b + 26 /\ (q + 21) + 1 = a + b + 27 /\ s = (q + 21) + 1 + c
       /\ s + 1 = a + b + c + 27 + 1 /\ s + 2 = a + b + c + 27 + 2 /\ s + 3 = a + b + c + 27 + 3 /\ s + 4 = a + b + c + 31
       /\ s + 5 = a + b + c + 32 /\ s + 6 = a + b + c + 32 + 1
       /\ s + 7 = a + b + c + 34 /\ s + 8 = a + b + c + 34 + 1
  <2>1. a \in {1, 2} /\ b \in {1, 2} /\ c \in {1, 2}
    BY <1>3
  <2> QED BY ONLY <1>51, <2>1
<1>56. IncrementAt(q + 21, s, Counter)
  BY <1>2, <1>51, <1>55, <1>36, <1>37, <1>38, <1>39, <1>40, <1>41, <1>42, <1>43, <1>44, <1>45, <1>46, <1>47, <1>48, <1>49, <1>50 DEF IncrementAt
<1> QED BY <1>2, <1>51, <1>52, <1>53, <1>54, <1>55, <1>56, <1>36, <1>37, <1>38, <1>39, <1>40, <1>41, <1>42, <1>43, <1>44, <1>45, <1>46, <1>47, <1>48, <1>49, <1>50 DEF WhileLayout


-----------------------------------------------------------------------------
(* Labels *)

\* The labels of the program are at indices of K, and only one is name, t.
LabelsIn(K)         == \A j \in 1 .. Len(code) : code[j].op = "label" => j \in K
Only(K, k, name, t) == \A j \in K : j = k \/ code[j].src # name \/ code[j].n # t

LEMMA LabelFound ==
  ASSUME NEW k \in 1 .. Len(code), NEW name, NEW t, NEW K, code[k] = Tag("label", name, t),
         LabelsIn(K), Only(K, k, name, t)
  PROVE  LabelAt(name, t) = k
<1>1. code[k].op = "label" /\ code[k].src = name /\ code[k].n = t
  BY DEF Tag
<1>2. \E j \in 1 .. Len(code) : code[j].op = "label" /\ code[j].src = name /\ code[j].n = t
  BY <1>1
<1>3. /\ LabelAt(name, t) \in 1 .. Len(code) /\ code[LabelAt(name, t)].op = "label"
      /\ code[LabelAt(name, t)].src = name /\ code[LabelAt(name, t)].n = t
  BY <1>2, Zenon DEF LabelAt
<1> QED BY <1>3 DEF LabelsIn, Only

LEMMA Operations ==
  /\ \A a, b : Push(a).op = "pushq" /\ PopTo(a).op = "popq"
  /\ \A o, a, b : Ins(o, a, b).op = o /\ Imm(o, a, b).op = o
  /\ \A o, a, b : Tag(o, a, b).op = o /\ Tag(o, a, b).src = a /\ Tag(o, a, b).n = b
BY DEF Push, PopTo, Ins, Imm, Tag

LEMMA LiteralOps ==
  ASSUME NEW k \in Nat, NEW x, LiteralAt(k, x), NEW j \in k .. k + Width(x) - 1
  PROVE  code[j].op # "label"
<1>1. CASE x \div 2 ^ ImmBits # 0
  <2>1. code[k].op = "movabs" /\ code[k + 1].op = "pushq"
    BY <1>1, Operations DEF LiteralAt
  <2>2. j = k \/ j = k + 1
    BY <1>1 DEF Width
  <2> QED BY <2>1, <2>2
<1>2. CASE ~(x \div 2 ^ ImmBits # 0)
  <2>1. code[k].op = "pushq"
    BY <1>2, Operations DEF LiteralAt
  <2>2. j = k
    BY <1>2 DEF Width
  <2> QED BY <2>1, <2>2
<1> QED BY <1>1, <1>2

LEMMA ShowOps ==
  ASSUME NEW k \in Nat, NEW v, ShowAt(k, v), NEW j \in k .. k + 8
  PROVE  code[j].op # "label"
<1>1. /\ code[k].op # "label" /\ code[k + 1].op # "label" /\ code[k + 2].op # "label" /\ code[k + 3].op # "label"
      /\ code[k + 4].op # "label" /\ code[k + 5].op # "label" /\ code[k + 6].op # "label" /\ code[k + 7].op # "label"
      /\ code[k + 8].op # "label"
  BY Operations DEF ShowAt
<1>2. j \in {k, k + 1, k + 2, k + 3, k + 4, k + 5, k + 6, k + 7, k + 8}
  OBVIOUS
<1> QED BY <1>1, <1>2

LEMMA WidthRange ==
  ASSUME NEW x
  PROVE  Width(x) \in 1 .. 2
BY DEF Width

LEMMA ForLabels ==
  ASSUME NEW from, NEW to, NEW h, NEW d, ForLayout(from, to, h, d)
  PROVE  /\ \A k \in 1 .. Len(code) : code[k].op = "label" => k \in {h, d + 14}
         /\ LabelAt("__for", 1) = h /\ LabelAt("__next", 1) = d + 14
         /\ h \in 4 .. 5 /\ d \in Nat /\ h \in 1 .. Len(code) /\ d + 14 \in 1 .. Len(code)
<1>1. PICK a, b : a = Width(from) /\ b = Width(to) /\ a \in 1 .. 2 /\ b \in 1 .. 2
  BY WidthRange
<1>2. h = 3 + a /\ d = h + 1 + b /\ Len(code) = d + 16
  BY <1>1 DEF ForLayout
<1>3. h \in 4 .. 5 /\ d \in Nat /\ h \in 1 .. Len(code) /\ d + 14 \in 1 .. Len(code)
  <2>1. a \in 1 .. 2 /\ b \in 1 .. 2 /\ h = 3 + a /\ d = h + 1 + b
    BY ONLY <1>1, <1>2
  <2>2. h \in 4 .. 5
    BY ONLY <2>1
  <2>3. d \in Nat /\ d >= h
    BY ONLY <2>1, <2>2
  <2>4. PICK n : n = Len(code) /\ n = d + 16
    BY ONLY <1>2
  <2>5. n \in Nat /\ h \in 1 .. n /\ d + 14 \in 1 .. n
    <3>1. n = d + 16
      BY ONLY <2>4
    <3> QED BY ONLY <3>1, <2>2, <2>3
  <2> QED BY ONLY <2>2, <2>3, <2>4, <2>5
<1>4. /\ code[1].op # "label"
      /\ code[h - 1].op # "label"
      /\ code[d].op # "label"
      /\ code[d + 1].op # "label"
      /\ code[d + 2].op # "label"
      /\ code[d + 12].op # "label"
      /\ code[d + 13].op # "label"
      /\ code[d + 15].op # "label"
      /\ code[d + 16].op # "label"
  <2>1. code[1].op # "label"
    <3>1. code[1] = Ins("movq", "rsp", "rbp")
      BY DEF ForLayout
    <3> QED BY <3>1 DEF Ins
  <2>2. code[h - 1].op # "label"
    <3>1. code[h - 1] = PopTo(Counter)
      BY DEF ForLayout
    <3> QED BY <3>1 DEF PopTo, Ins
  <2>3. code[d].op # "label"
    <3>1. code[d] = PopTo("rax")
      BY DEF ForLayout
    <3> QED BY <3>1 DEF PopTo, Ins
  <2>4. code[d + 1].op # "label"
    <3>1. code[d + 1] = Ins("cmpq", Counter, "rax")
      BY DEF ForLayout
    <3> QED BY <3>1 DEF Ins
  <2>5. code[d + 2].op # "label"
    <3>1. code[d + 2] = Tag("jl", "__next", 1)
      BY DEF ForLayout
    <3> QED BY <3>1 DEF Tag
  <2>6. code[d + 12].op # "label"
    <3>1. code[d + 12] = Imm("addq", 1, Counter)
      BY DEF ForLayout
    <3> QED BY <3>1 DEF Imm
  <2>7. code[d + 13].op # "label"
    <3>1. code[d + 13] = Tag("jmp", "__for", 1)
      BY DEF ForLayout
    <3> QED BY <3>1 DEF Tag
  <2>8. code[d + 15].op # "label"
    <3>1. code[d + 15] = Ins("movq", "rbp", "rsp")
      BY DEF ForLayout
    <3> QED BY <3>1 DEF Ins
  <2>9. code[d + 16].op # "label"
    <3>1. code[d + 16] = Ins("ret", NoName, NoName)
      BY DEF ForLayout
    <3> QED BY <3>1 DEF Ins
  <2> QED BY <2>1, <2>2, <2>3, <2>4, <2>5, <2>6, <2>7, <2>8, <2>9
<1>5. \A j \in 2 .. h - 2 : code[j].op # "label"
  <2>1. 2 \in Nat /\ LiteralAt(2, from)
    BY DEF ForLayout
  <2>2. \A j \in 2 .. 2 + Width(from) - 1 : code[j].op # "label"
    BY <2>1, LiteralOps
  <2>3. 2 + a - 1 = h - 2
    BY <1>1, <1>2
  <2> QED BY <1>1, <2>2, <2>3
<1>6. \A j \in h + 1 .. d - 1 : code[j].op # "label"
  <2>0. h + 1 \in Nat
    BY ONLY <1>3
  <2>1. h + 1 \in Nat /\ LiteralAt(h + 1, to)
    BY <2>0 DEF ForLayout
  <2>2. \A j \in h + 1 .. h + 1 + Width(to) - 1 : code[j].op # "label"
    BY <2>1, LiteralOps
  <2>3. h + 1 + b - 1 = d - 1
    <3>1. h \in 4 .. 5 /\ b \in 1 .. 2 /\ d = h + 1 + b
      BY ONLY <1>1, <1>2, <1>3
    <3> QED BY ONLY <3>1
  <2> QED BY <1>1, <2>2, <2>3
<1>7. \A j \in d + 3 .. d + 11 : code[j].op # "label"
  <2>0. d + 3 \in Nat
    BY ONLY <1>3
  <2>1. d + 3 \in Nat /\ ShowAt(d + 3, Counter)
    BY <2>0 DEF ForLayout
  <2>2. \A j \in d + 3 .. (d + 3) + 8 : code[j].op # "label"
    BY <2>1, ShowOps
  <2>3. (d + 3) + 8 = d + 11
    BY <1>3
  <2> QED BY <2>2, <2>3
<1>8. ASSUME NEW k \in 1 .. Len(code), code[k].op = "label"
      PROVE  k \in {h, d + 14}
  <2>1. a \in Int /\ b \in Int /\ h \in Int /\ d \in Int /\ k \in Int
    <3>1. k \in Int
      BY ONLY <1>8
    <3>2. a \in Int /\ b \in Int
      BY ONLY <1>1
    <3>3. h \in Int /\ d \in Int
      BY ONLY <1>3
    <3> QED BY ONLY <3>1, <3>2, <3>3
  <2>2. k # 1
    BY ONLY <1>4, <1>8
  <2>3. k # h - 1
    BY ONLY <1>4, <1>8
  <2>4. k # d
    BY ONLY <1>4, <1>8
  <2>5. k # d + 1
    BY ONLY <1>4, <1>8
  <2>6. k # d + 2
    BY ONLY <1>4, <1>8
  <2>7. k # d + 12
    BY ONLY <1>4, <1>8
  <2>8. k # d + 13
    BY ONLY <1>4, <1>8
  <2>9. k # d + 15
    BY ONLY <1>4, <1>8
  <2>10. k # d + 16
    BY ONLY <1>4, <1>8
  <2>11. k < 2 \/ k > h - 2
    <3>1. k \notin 2 .. h - 2
      BY ONLY <1>5, <1>8
    <3> QED BY ONLY <3>1, <2>1
  <2>12. k < h + 1 \/ k > d - 1
    <3>1. k \notin h + 1 .. d - 1
      BY ONLY <1>6, <1>8
    <3> QED BY ONLY <3>1, <2>1
  <2>13. k < d + 3 \/ k > d + 11
    <3>1. k \notin d + 3 .. d + 11
      BY ONLY <1>7, <1>8
    <3> QED BY ONLY <3>1, <2>1
  <2>14. a \in 1 .. 2 /\ b \in 1 .. 2 /\ h = 3 + a /\ d = h + 1 + b
    BY ONLY <1>1, <1>2
  <2>15. 1 <= k /\ k <= d + 16
    <3>1. PICK n : n = Len(code) /\ n = d + 16
      BY ONLY <1>2
    <3>2. k \in 1 .. n /\ n = d + 16
      BY ONLY <3>1, <1>8
    <3> QED BY ONLY <3>2, <2>1
  <2>16. k = h \/ k = d + 14
    BY ONLY <2>1, <2>2, <2>3, <2>4, <2>5, <2>6, <2>7, <2>8, <2>9, <2>10, <2>11, <2>12, <2>13, <2>14, <2>15
  <2> QED BY ONLY <2>16
<1>9. code[h] = Tag("label", "__for", 1) /\ code[d + 14] = Tag("label", "__next", 1)
  BY DEF ForLayout
<1>10. code[h].src = "__for" /\ code[d + 14].src = "__next"
  BY ONLY <1>9 DEF Tag
<1>11. h \in 1 .. Len(code) /\ d + 14 \in 1 .. Len(code)
  BY <1>3
<1>12. PICK K : K = {h, d + 14}
  OBVIOUS
<1>13. LabelsIn(K)
  BY ONLY <1>8, <1>12 DEF LabelsIn
<1>14. LabelAt("__for", 1) = h
  <2>1. PICK k : k = h
    OBVIOUS
  <2>2. Only(K, k, "__for", 1)
    BY ONLY <1>10, <1>12, <2>1 DEF Only
  <2>3. code[k] = Tag("label", "__for", 1) /\ k \in 1 .. Len(code)
    BY ONLY <1>9, <1>11, <2>1
  <2>4. LabelAt("__for", 1) = k
    BY ONLY <1>13, <2>2, <2>3, LabelFound
  <2> QED BY ONLY <2>1, <2>4
<1>15. LabelAt("__next", 1) = d + 14
  <2>1. PICK k : k = d + 14
    OBVIOUS
  <2>2. Only(K, k, "__next", 1)
    BY ONLY <1>10, <1>12, <2>1 DEF Only
  <2>3. code[k] = Tag("label", "__next", 1) /\ k \in 1 .. Len(code)
    BY ONLY <1>9, <1>11, <2>1
  <2>4. LabelAt("__next", 1) = k
    BY ONLY <1>13, <2>2, <2>3, LabelFound
  <2> QED BY ONLY <2>1, <2>4
<1>16. \A k \in 1 .. Len(code) : code[k].op = "label" => k \in {h, d + 14}
  BY ONLY <1>8
<1> QED BY ONLY <1>3, <1>14, <1>15, <1>16

LEMMA WhileLabels ==
  ASSUME NEW from, NEW to, NEW h, NEW q, NEW s, WhileLayout(from, to, h, q, s)
  PROVE  /\ \A k \in 1 .. Len(code) : code[k].op = "label" => k \in {h, q + 6, q + 8, s + 6}
         /\ LabelAt("__while", 1) = h /\ LabelAt("__next", 1) = s + 6
         /\ LabelAt("__true", 2) = q + 6 /\ LabelAt("__next", 2) = q + 8
         /\ h \in 4 .. 5 /\ q \in Nat /\ s \in Nat /\ h \in 1 .. Len(code) /\ s + 6 \in 1 .. Len(code)
<1>1. PICK a, b, c : /\ a = Width(from) /\ b = Width(to) /\ c = Width(1)
                     /\ a \in 1 .. 2 /\ b \in 1 .. 2 /\ c \in 1 .. 2
  BY WidthRange
<1>2. h = 3 + a /\ q = h + 2 + b /\ s = q + 22 + c /\ Len(code) = s + 8
  BY <1>1 DEF WhileLayout
<1>3. /\ h \in 4 .. 5 /\ q \in Nat /\ s \in Nat
      /\ h \in 1 .. Len(code) /\ q + 6 \in 1 .. Len(code) /\ q + 8 \in 1 .. Len(code) /\ s + 6 \in 1 .. Len(code)
  <2>1. a \in 1 .. 2 /\ b \in 1 .. 2 /\ c \in 1 .. 2
    BY ONLY <1>1
  <2>2. h \in 4 .. 5
    BY ONLY <1>2, <2>1
  <2>3. q \in Nat /\ q >= h
    BY ONLY <1>2, <2>1, <2>2
  <2>4. s \in Nat /\ s >= q + 22
    BY ONLY <1>2, <2>1, <2>3
  <2>5. PICK n : n = Len(code) /\ n = s + 8
    BY ONLY <1>2
  <2>6. n \in Nat /\ h \in 1 .. n /\ q + 6 \in 1 .. n /\ q + 8 \in 1 .. n /\ s + 6 \in 1 .. n
    <3>1. n = s + 8
      BY ONLY <2>5
    <3> QED BY ONLY <3>1, <2>2, <2>3, <2>4
  <2> QED BY ONLY <2>2, <2>3, <2>4, <2>5, <2>6
<1>4. /\ code[1].op # "label"
      /\ code[h - 1].op # "label"
      /\ code[s + 5].op # "label"
      /\ code[s + 7].op # "label"
      /\ code[s + 8].op # "label"
  <2>1. code[1].op # "label"
    <3>1. code[1] = Ins("movq", "rsp", "rbp")
      BY DEF WhileLayout
    <3> QED BY <3>1 DEF Ins
  <2>2. code[h - 1].op # "label"
    <3>1. code[h - 1] = PopTo(Counter)
      BY DEF WhileLayout
    <3> QED BY <3>1 DEF PopTo, Ins
  <2>3. code[s + 5].op # "label"
    <3>1. code[s + 5] = Tag("jmp", "__while", 1)
      BY DEF WhileLayout
    <3> QED BY <3>1 DEF Tag
  <2>4. code[s + 7].op # "label"
    <3>1. code[s + 7] = Ins("movq", "rbp", "rsp")
      BY DEF WhileLayout
    <3> QED BY <3>1 DEF Ins
  <2>5. code[s + 8].op # "label"
    <3>1. code[s + 8] = Ins("ret", NoName, NoName)
      BY DEF WhileLayout
    <3> QED BY <3>1 DEF Ins
  <2> QED BY <2>1, <2>2, <2>3, <2>4, <2>5
<1>5. /\ code[h + 1].op # "label"
      /\ code[q].op # "label"
      /\ code[q + 1].op # "label"
      /\ code[q + 2].op # "label"
      /\ code[q + 3].op # "label"
      /\ code[q + 4].op # "label"
      /\ code[q + 5].op # "label"
      /\ code[q + 7].op # "label"
      /\ code[q + 9].op # "label"
      /\ code[q + 10].op # "label"
      /\ code[q + 11].op # "label"
      /\ LiteralAt((h + 1) + 1, to)
      /\ code[q + 6] = Tag("label", "__true", 2) /\ code[q + 8] = Tag("label", "__next", 2)
  <2>1. ConditionCode(h + 1, q, Counter, to, 2, 1)
    BY DEF WhileLayout
  <2>2. code[h + 1].op # "label"
    <3>1. code[h + 1] = Push(Counter)
      BY <2>1 DEF ConditionCode
    <3> QED BY <3>1 DEF Push, Ins
  <2>3. code[q].op # "label"
    <3>1. code[q] = PopTo("rbx")
      BY <2>1 DEF ConditionCode
    <3> QED BY <3>1 DEF PopTo, Ins
  <2>4. code[q + 1].op # "label"
    <3>1. code[q + 1] = PopTo("rax")
      BY <2>1 DEF ConditionCode
    <3> QED BY <3>1 DEF PopTo, Ins
  <2>5. code[q + 2].op # "label"
    <3>1. code[q + 2] = Ins("cmpq", "rbx", "rax")
      BY <2>1 DEF ConditionCode
    <3> QED BY <3>1 DEF Ins
  <2>6. code[q + 3].op # "label"
    <3>1. code[q + 3] = Tag("jbe", "__true", 2)
      BY <2>1 DEF ConditionCode
    <3> QED BY <3>1 DEF Tag
  <2>7. code[q + 4].op # "label"
    <3>1. code[q + 4] = Imm("pushq", 0, NoName)
      BY <2>1 DEF ConditionCode
    <3> QED BY <3>1 DEF Imm
  <2>8. code[q + 5].op # "label"
    <3>1. code[q + 5] = Tag("jmp", "__next", 2)
      BY <2>1 DEF ConditionCode
    <3> QED BY <3>1 DEF Tag
  <2>9. code[q + 7].op # "label"
    <3>1. code[q + 7] = Imm("pushq", AllOnes, NoName)
      BY <2>1 DEF ConditionCode
    <3> QED BY <3>1 DEF Imm
  <2>10. code[q + 9].op # "label"
    <3>1. code[q + 9] = PopTo("rax")
      BY <2>1 DEF ConditionCode
    <3> QED BY <3>1 DEF PopTo, Ins
  <2>11. code[q + 10].op # "label"
    <3>1. code[q + 10] = Ins("test", "rax", "rax")
      BY <2>1 DEF ConditionCode
    <3> QED BY <3>1 DEF Ins
  <2>12. code[q + 11].op # "label"
    <3>1. code[q + 11] = Tag("jz", "__next", 1)
      BY <2>1 DEF ConditionCode
    <3> QED BY <3>1 DEF Tag
  <2>13. LiteralAt((h + 1) + 1, to) /\ code[q + 6] = Tag("label", "__true", 2) /\ code[q + 8] = Tag("label", "__next", 2)
    BY <2>1 DEF ConditionCode
  <2> QED BY ONLY <2>2, <2>3, <2>4, <2>5, <2>6, <2>7, <2>8, <2>9, <2>10, <2>11, <2>12, <2>13
<1>6. /\ code[q + 21].op # "label"
      /\ code[s].op # "label"
      /\ code[s + 1].op # "label"
      /\ code[s + 2].op # "label"
      /\ code[s + 3].op # "label"
      /\ code[s + 4].op # "label"
      /\ LiteralAt((q + 21) + 1, 1)
  <2>1. IncrementAt(q + 21, s, Counter)
    BY DEF WhileLayout
  <2>2. code[q + 21].op # "label"
    <3>1. code[q + 21] = Push(Counter)
      BY <2>1 DEF IncrementAt
    <3> QED BY <3>1 DEF Push, Ins
  <2>3. code[s].op # "label"
    <3>1. code[s] = PopTo("rbx")
      BY <2>1 DEF IncrementAt
    <3> QED BY <3>1 DEF PopTo, Ins
  <2>4. code[s + 1].op # "label"
    <3>1. code[s + 1] = PopTo("rax")
      BY <2>1 DEF IncrementAt
    <3> QED BY <3>1 DEF PopTo, Ins
  <2>5. code[s + 2].op # "label"
    <3>1. code[s + 2] = Ins("addq", "rbx", "rax")
      BY <2>1 DEF IncrementAt
    <3> QED BY <3>1 DEF Ins
  <2>6. code[s + 3].op # "label"
    <3>1. code[s + 3] = Push("rax")
      BY <2>1 DEF IncrementAt
    <3> QED BY <3>1 DEF Push, Ins
  <2>7. code[s + 4].op # "label"
    <3>1. code[s + 4] = PopTo(Counter)
      BY <2>1 DEF IncrementAt
    <3> QED BY <3>1 DEF PopTo, Ins
  <2>8. LiteralAt((q + 21) + 1, 1)
    BY <2>1 DEF IncrementAt
  <2> QED BY ONLY <2>2, <2>3, <2>4, <2>5, <2>6, <2>7, <2>8
<1>7. \A j \in 2 .. h - 2 : code[j].op # "label"
  <2>1. 2 \in Nat /\ LiteralAt(2, from)
    BY DEF WhileLayout
  <2>2. \A j \in 2 .. 2 + Width(from) - 1 : code[j].op # "label"
    BY <2>1, LiteralOps
  <2>3. 2 + a - 1 = h - 2
    BY <1>1, <1>2
  <2> QED BY <1>1, <2>2, <2>3
<1>8. \A j \in h + 2 .. q - 1 : code[j].op # "label"
  <2>1. PICK g : g = (h + 1) + 1 /\ LiteralAt(g, to)
    BY <1>5
  <2>2. g \in Nat
    BY <1>3, <2>1
  <2>3. \A j \in g .. g + Width(to) - 1 : code[j].op # "label"
    BY ONLY <2>1, <2>2, LiteralOps
  <2>4. g + b - 1 = q - 1 /\ g = h + 2
    <3>1. h \in Nat /\ b \in Nat
      BY ONLY <1>1, <1>3
    <3> QED BY ONLY <1>2, <2>1, <3>1
  <2> QED BY <1>1, <2>3, <2>4
<1>9. \A j \in q + 12 .. q + 20 : code[j].op # "label"
  <2>0. q + 12 \in Nat
    BY ONLY <1>3
  <2>1. q + 12 \in Nat /\ ShowAt(q + 12, Counter)
    BY <2>0 DEF WhileLayout
  <2>2. \A j \in q + 12 .. (q + 12) + 8 : code[j].op # "label"
    BY <2>1, ShowOps
  <2>3. (q + 12) + 8 = q + 20
    BY <1>3
  <2> QED BY <2>2, <2>3
<1>10. \A j \in q + 22 .. s - 1 : code[j].op # "label"
  <2>1. PICK g : g = (q + 21) + 1 /\ LiteralAt(g, 1)
    BY <1>6
  <2>2. g \in Nat
    BY <1>3, <2>1
  <2>3. \A j \in g .. g + Width(1) - 1 : code[j].op # "label"
    BY ONLY <2>1, <2>2, LiteralOps
  <2>4. g + c - 1 = s - 1 /\ g = q + 22
    <3>1. q \in Nat /\ c \in 1 .. 2
      BY ONLY <1>1, <1>3
    <3>2. s = q + 22 + c /\ g = (q + 21) + 1
      BY ONLY <1>2, <2>1
    <3> QED BY ONLY <3>1, <3>2
  <2> QED BY <1>1, <2>3, <2>4
<1>11. ASSUME NEW k \in 1 .. Len(code), code[k].op = "label"
      PROVE  k \in {h, q + 6, q + 8, s + 6}
  <2>1. a \in Int /\ b \in Int /\ c \in Int /\ h \in Int /\ q \in Int /\ s \in Int /\ k \in Int
    <3>1. k \in Int
      BY ONLY <1>11
    <3>2. a \in Int /\ b \in Int /\ c \in Int
      BY ONLY <1>1
    <3>3. h \in Int /\ q \in Int /\ s \in Int
      BY ONLY <1>3
    <3> QED BY ONLY <3>1, <3>2, <3>3
  <2>2. k # 1
    BY ONLY <1>4, <1>11
  <2>3. k # h - 1
    BY ONLY <1>4, <1>11
  <2>4. k # s + 5
    BY ONLY <1>4, <1>11
  <2>5. k # s + 7
    BY ONLY <1>4, <1>11
  <2>6. k # s + 8
    BY ONLY <1>4, <1>11
  <2>7. k # h + 1
    BY ONLY <1>5, <1>11
  <2>8. k # q
    BY ONLY <1>5, <1>11
  <2>9. k # q + 1
    BY ONLY <1>5, <1>11
  <2>10. k # q + 2
    BY ONLY <1>5, <1>11
  <2>11. k # q + 3
    BY ONLY <1>5, <1>11
  <2>12. k # q + 4
    BY ONLY <1>5, <1>11
  <2>13. k # q + 5
    BY ONLY <1>5, <1>11
  <2>14. k # q + 7
    BY ONLY <1>5, <1>11
  <2>15. k # q + 9
    BY ONLY <1>5, <1>11
  <2>16. k # q + 10
    BY ONLY <1>5, <1>11
  <2>17. k # q + 11
    BY ONLY <1>5, <1>11
  <2>18. k # q + 21
    BY ONLY <1>6, <1>11
  <2>19. k # s
    BY ONLY <1>6, <1>11
  <2>20. k # s + 1
    BY ONLY <1>6, <1>11
  <2>21. k # s + 2
    BY ONLY <1>6, <1>11
  <2>22. k # s + 3
    BY ONLY <1>6, <1>11
  <2>23. k # s + 4
    BY ONLY <1>6, <1>11
  <2>24. k < 2 \/ k > h - 2
    <3>1. k \notin 2 .. h - 2
      BY ONLY <1>7, <1>11
    <3> QED BY ONLY <3>1, <2>1
  <2>25. k < h + 2 \/ k > q - 1
    <3>1. k \notin h + 2 .. q - 1
      BY ONLY <1>8, <1>11
    <3> QED BY ONLY <3>1, <2>1
  <2>26. k < q + 12 \/ k > q + 20
    <3>1. k \notin q + 12 .. q + 20
      BY ONLY <1>9, <1>11
    <3> QED BY ONLY <3>1, <2>1
  <2>27. k < q + 22 \/ k > s - 1
    <3>1. k \notin q + 22 .. s - 1
      BY ONLY <1>10, <1>11
    <3> QED BY ONLY <3>1, <2>1
  <2>28. a \in 1 .. 2 /\ b \in 1 .. 2 /\ c \in 1 .. 2 /\ h = 3 + a /\ q = h + 2 + b /\ s = q + 22 + c
    BY ONLY <1>1, <1>2
  <2>29. 1 <= k /\ k <= s + 8
    <3>1. PICK n : n = Len(code) /\ n = s + 8
      BY ONLY <1>2
    <3>2. k \in 1 .. n /\ n = s + 8
      BY ONLY <3>1, <1>11
    <3> QED BY ONLY <3>2, <2>1
  <2>30. k = h \/ k = q + 6 \/ k = q + 8 \/ k = s + 6
    BY ONLY <2>1, <2>2, <2>3, <2>4, <2>5, <2>6, <2>7, <2>8, <2>9, <2>10, <2>11, <2>12, <2>13, <2>14, <2>15, <2>16, <2>17, <2>18, <2>19, <2>20, <2>21, <2>22, <2>23, <2>24, <2>25, <2>26, <2>27, <2>28, <2>29
  <2> QED BY ONLY <2>30
<1>12. /\ code[h] = Tag("label", "__while", 1) /\ code[s + 6] = Tag("label", "__next", 1)
       /\ code[q + 6] = Tag("label", "__true", 2) /\ code[q + 8] = Tag("label", "__next", 2)
  BY <1>5 DEF WhileLayout
<1>13. /\ code[h].src = "__while" /\ code[s + 6].src = "__next" /\ code[s + 6].n = 1
       /\ code[q + 6].src = "__true" /\ code[q + 8].src = "__next" /\ code[q + 8].n = 2
  BY ONLY <1>12 DEF Tag
<1>14. h \in 1 .. Len(code) /\ q + 6 \in 1 .. Len(code) /\ q + 8 \in 1 .. Len(code) /\ s + 6 \in 1 .. Len(code)
  BY <1>3
<1>15. \A k \in 1 .. Len(code) : code[k].op = "label" => k \in {h, q + 6, q + 8, s + 6}
  BY ONLY <1>11
<1>20. PICK K : K = {h, q + 6, q + 8, s + 6}
  OBVIOUS
<1>21. LabelsIn(K)
  BY ONLY <1>15, <1>20 DEF LabelsIn
<1>16. LabelAt("__while", 1) = h
  <2>1. PICK k : k = h
    OBVIOUS
  <2>2. Only(K, k, "__while", 1)
    BY ONLY <1>13, <1>20, <2>1 DEF Only
  <2>3. code[k] = Tag("label", "__while", 1) /\ k \in 1 .. Len(code)
    BY ONLY <1>12, <1>14, <2>1
  <2>4. LabelAt("__while", 1) = k
    BY ONLY <1>21, <2>2, <2>3, LabelFound
  <2> QED BY ONLY <2>1, <2>4
<1>17. LabelAt("__next", 1) = s + 6
  <2>1. PICK k : k = s + 6
    OBVIOUS
  <2>2. Only(K, k, "__next", 1)
    BY ONLY <1>13, <1>20, <2>1 DEF Only
  <2>3. code[k] = Tag("label", "__next", 1) /\ k \in 1 .. Len(code)
    BY ONLY <1>12, <1>14, <2>1
  <2>4. LabelAt("__next", 1) = k
    BY ONLY <1>21, <2>2, <2>3, LabelFound
  <2> QED BY ONLY <2>1, <2>4
<1>18. LabelAt("__true", 2) = q + 6
  <2>1. PICK k : k = q + 6
    OBVIOUS
  <2>2. Only(K, k, "__true", 2)
    BY ONLY <1>13, <1>20, <2>1 DEF Only
  <2>3. code[k] = Tag("label", "__true", 2) /\ k \in 1 .. Len(code)
    BY ONLY <1>12, <1>14, <2>1
  <2>4. LabelAt("__true", 2) = k
    BY ONLY <1>21, <2>2, <2>3, LabelFound
  <2> QED BY ONLY <2>1, <2>4
<1>19. LabelAt("__next", 2) = q + 8
  <2>1. PICK k : k = q + 8
    OBVIOUS
  <2>2. Only(K, k, "__next", 2)
    BY ONLY <1>13, <1>20, <2>1 DEF Only
  <2>3. code[k] = Tag("label", "__next", 2) /\ k \in 1 .. Len(code)
    BY ONLY <1>12, <1>14, <2>1
  <2>4. LabelAt("__next", 2) = k
    BY ONLY <1>21, <2>2, <2>3, LabelFound
  <2> QED BY ONLY <2>1, <2>4
<1> QED BY ONLY <1>3, <1>15, <1>16, <1>17, <1>18, <1>19

-----------------------------------------------------------------------------
(***************************************************************************)
(* The inductive invariant.  What is displayed are the successors of the   *)
(* first bound, and the variable of the loop is one of them; where the     *)
(* program is says which one, and what is on the stack.                    *)
(***************************************************************************)
Rounds(p) == IF p.from > p.to THEN 0 ELSE p.to - p.from + 1

\* A FOR compares signed integers, and a counter that goes beyond the second bound has
\* to be above it: exactly these bounds are those of a loop that counts.
Countable(p) ==
  IF p.kind = "for" THEN (p.from < Half <=> p.to < Half) /\ p.to # Half - 1
  ELSE p.to # AllOnes

History ==
  /\ shown \in Seq(Word)
  /\ \A i \in 1 .. Len(shown) : shown[i] = Wrap(program.from + i - 1)
  /\ Countable(program) => Len(shown) <= Rounds(program)

BeforeRound  == store[Counter] = Wrap(program.from + Len(shown))
InRound      == BeforeRound /\ (Countable(program) => Len(shown) < Rounds(program))
AfterDisplay == Len(shown) >= 1 /\ store[Counter] = Wrap(program.from + Len(shown) - 1)
AllRounds    == Countable(program) => Len(shown) = Rounds(program)

Between == mem = <<ReturnAddress>>

\* Up to the label of the loop, at index h.
InStart(h) ==
  /\ shown = <<>>
  /\ \/ ip = 1 /\ Between
     \/ InLiteral(2, program.from, <<ReturnAddress>>)
     \/ ip = h - 1 /\ mem = <<ReturnAddress, program.from>>

InFor(h, d) ==
  \/ InStart(h)
  \/ ip = h /\ Between /\ BeforeRound
  \/ InLiteral(h + 1, program.to, <<ReturnAddress>>) /\ BeforeRound
  \/ ip = d /\ mem = <<ReturnAddress, program.to>> /\ BeforeRound
  \/ ip = d + 1 /\ Between /\ reg["rax"] = program.to /\ BeforeRound
  \/ ip = d + 2 /\ Between /\ flags.lt = (Signed(program.to) < Signed(store[Counter])) /\ BeforeRound
  \/ InShow(d + 3, Counter) /\ InRound
  \/ InShown(d + 3) /\ AfterDisplay
  \/ ip = d + 12 /\ Between /\ AfterDisplay
  \/ ip = d + 13 /\ Between /\ BeforeRound
  \/ ip \in {d + 14, d + 15, d + 16} /\ AllRounds

InWhile(h, q, s) ==
  \/ InStart(h)
  \/ ip = h /\ Between /\ BeforeRound
  \/ InCondition(h + 1, q, Counter, program.to) /\ BeforeRound
  \/ InShow(q + 12, Counter) /\ InRound
  \/ InShown(q + 12) /\ AfterDisplay
  \/ InIncrement(q + 21, s, Counter) /\ AfterDisplay
  \/ ip = s + 5 /\ Between /\ BeforeRound
  \/ ip \in {s + 6, s + 7, s + 8} /\ AllRounds

\* The indices of the layouts.
HeadOf(p)    == 3 + Width(p.from)
TestOf(p)    == HeadOf(p) + 1 + Width(p.to)
CompareOf(p) == HeadOf(p) + 2 + Width(p.to)
AddOf(p)     == CompareOf(p) + 22 + Width(1)

LoopInv ==
  /\ program \in [kind : Kinds, from : Word, to : Word] /\ <<program.from, program.to>> \in Bounds
  /\ program.kind = "while" => program.to # AllOnes
  /\ code = CodeOf(program) /\ History
  /\ running \in {"running", "refused", "returned"}
  /\ running = "running" =>
       /\ Shape
       /\ IF program.kind = "for" THEN InFor(HeadOf(program), TestOf(program))
          ELSE InWhile(HeadOf(program), CompareOf(program), AddOf(program))
  /\ running = "returned" => AllRounds

-----------------------------------------------------------------------------
(* Words that are counted up *)

LEMMA WordFacts ==
  /\ Modulus \in Nat /\ Modulus >= 4 /\ Half \in Nat /\ Half + Half <= Modulus /\ Half >= 1 /\ Modulus <= Half + Half + 1
  /\ \A w \in Word : w \in Nat /\ w < Modulus
  /\ \A n \in Nat : Wrap(n) \in Word /\ (n < Modulus => Wrap(n) = n)
  /\ Wrap(Modulus) = 0 /\ AllOnes = Modulus - 1
<1>1. Modulus \in Nat /\ Modulus >= 4
  BY PowersAssumption DEF Modulus
<1>2. PICK m : m = Modulus
  OBVIOUS
<1>3. m \in Nat /\ m >= 4
  BY <1>1, <1>2
<1>4. m \div 2 \in Nat /\ (m \div 2) + (m \div 2) <= m /\ m \div 2 >= 1 /\ m <= (m \div 2) + (m \div 2) + 1
  BY ONLY <1>3
<1>5. \A n \in Nat : n % m \in 0 .. m - 1 /\ (n < m => n % m = n)
  BY ONLY <1>3
<1>6. m % m = 0
  BY ONLY <1>3
<1>7. Half = m \div 2 /\ Word = 0 .. m - 1 /\ AllOnes = m - 1 /\ \A n : Wrap(n) = n % m
  BY <1>2 DEF Half, Word, AllOnes, Wrap
<1>8. \A w \in Word : w \in Nat /\ w < m
  BY ONLY <1>3, <1>7
<1> QED BY ONLY <1>2, <1>3, <1>4, <1>5, <1>6, <1>7, <1>8

\* A sum that is at most the modulus.
LEMMA WrapSum ==
  ASSUME NEW n \in Nat, n <= Modulus
  PROVE  Wrap(n) = IF n = Modulus THEN 0 ELSE n
BY WordFacts

LEMMA WrapNext ==
  ASSUME NEW n \in Nat
  PROVE  Wrap(Wrap(n) + 1) = Wrap(n + 1)
<1>1. PICK m : m = Modulus
  OBVIOUS
<1>2. m \in Nat /\ m >= 4
  BY <1>1, WordFacts
<1>3. ((n % m) + 1) % m = (n + 1) % m
  <2>1. PICK a, b : a = n \div m /\ b = n % m
    OBVIOUS
  <2>2. a \in Nat /\ b \in 0 .. m - 1 /\ n = m * a + b
    BY ONLY <2>1, <1>2
  <2>3. CASE b + 1 < m
    <3>1. PICK c, d : c = (n + 1) \div m /\ d = (n + 1) % m
      OBVIOUS
    <3>2. c \in Nat /\ d \in 0 .. m - 1 /\ n + 1 = m * c + d
      BY ONLY <3>1, <1>2, n \in Nat
    <3>3. ASSUME c > a
          PROVE  FALSE
      <4>1. m * c >= m * (a + 1)
        BY ONLY <1>2, <2>2, <3>2, <3>3
      <4>2. m * (a + 1) = m * a + m
        BY ONLY <1>2, <2>2
      <4> QED BY ONLY <1>2, <2>2, <2>3, <3>2, <4>1, <4>2
    <3>4. ASSUME c < a
          PROVE  FALSE
      <4>1. m * a >= m * (c + 1)
        BY ONLY <1>2, <2>2, <3>2, <3>4
      <4>2. m * (c + 1) = m * c + m
        BY ONLY <1>2, <3>2
      <4> QED BY ONLY <1>2, <2>2, <3>2, <4>1, <4>2
    <3>5. d = b + 1
      BY ONLY <1>2, <2>2, <3>2, <3>3, <3>4
    <3>6. (b + 1) % m = b + 1
      BY ONLY <1>2, <2>2, <2>3
    <3> QED BY ONLY <2>1, <3>1, <3>5, <3>6
  <2>4. CASE b + 1 = m
    <3>1. (b + 1) % m = 0
      BY ONLY <2>4, <2>2, <1>2
    <3>2. n + 1 = m * (a + 1)
      BY ONLY <2>2, <2>4, <1>2
    <3>3. (m * (a + 1)) % m = 0
      BY ONLY <2>2, <1>2
    <3> QED BY ONLY <2>1, <3>1, <3>2, <3>3
  <2> QED BY ONLY <2>2, <2>3, <2>4, <1>2
<1> QED BY ONLY <1>1, <1>3 DEF Wrap

\* A counter that has counted at most the rounds of its loop.
LEMMA InRange ==
  ASSUME NEW from \in Word, NEW to \in Word, NEW n \in Nat, NEW r, r = IF from > to THEN 0 ELSE to - from + 1,
         n <= r
  PROVE  /\ r \in Nat /\ from + n \in Nat /\ from + n <= Modulus
         /\ n = r /\ from <= to => from + n = to + 1
         /\ n # r => from <= to /\ from + n <= to
         /\ from > to => n = 0 /\ r = 0
<1>1. from \in Nat /\ to \in Nat /\ from < Modulus /\ to < Modulus /\ Modulus \in Nat
  BY WordFacts
<1>2. CASE from > to
  BY ONLY <1>1, <1>2, n \in Nat, n <= r, r = IF from > to THEN 0 ELSE to - from + 1
<1>3. CASE ~(from > to)
  BY ONLY <1>1, <1>3, n \in Nat, n <= r, r = IF from > to THEN 0 ELSE to - from + 1
<1> QED BY ONLY <1>2, <1>3

\* The comparison of a FOR.
LEMMA ForTest ==
  ASSUME NEW from \in Word, NEW to \in Word, NEW n \in Nat, NEW r, r = IF from > to THEN 0 ELSE to - from + 1,
         n <= r, from < Half <=> to < Half, to # Half - 1
  PROVE  Signed(to) < Signed(Wrap(from + n)) <=> n = r
<1>1. from \in Nat /\ to \in Nat /\ from < Modulus /\ to < Modulus /\ Modulus \in Nat /\ Half \in Nat /\ Half >= 1
      /\ Half + Half <= Modulus
  BY WordFacts
<1>2. /\ r \in Nat /\ from + n \in Nat /\ from + n <= Modulus
      /\ n = r /\ from <= to => from + n = to + 1
      /\ n # r => from <= to /\ from + n <= to
      /\ from > to => n = 0 /\ r = 0
  BY InRange
<1>3. PICK c : c = from + n
  OBVIOUS
<1>4. PICK w : w = Wrap(c) /\ (c = Modulus => w = 0) /\ (c # Modulus => w = c)
  BY <1>2, <1>3, WrapSum
<1>5. /\ \A x : x < Half => Signed(x) = x
      /\ \A x : ~(x < Half) => Signed(x) = x - Modulus
  BY DEF Signed
<1>6. PICK ss, sw : ss = Signed(to) /\ sw = Signed(w)
  OBVIOUS
<1>7. /\ to < Half => ss = to
      /\ ~(to < Half) => ss = to - Modulus
      /\ w < Half => sw = w
      /\ ~(w < Half) => sw = w - Modulus
  BY ONLY <1>5, <1>6
<1>8. c \in Nat /\ w \in Nat /\ w < Modulus
  BY <1>2, <1>3, <1>4, WordFacts
<1>9. ss < sw <=> n = r
  <2>1. CASE n = r /\ from > to
    <3>1. c = from /\ w = from /\ to < from
      BY ONLY <1>1, <1>2, <1>3, <1>4, <2>1, n \in Nat
    <3>2. ss < sw
      BY ONLY <1>1, <1>7, <3>1, from < Half <=> to < Half
    <3> QED BY ONLY <2>1, <3>2
  <2>2. CASE n = r /\ from <= to
    <3>1. c = to + 1
      BY ONLY <1>2, <1>3, <2>2
    <3>2. CASE to + 1 = Modulus
      <4>1. w = 0 /\ ~(to < Half)
        BY ONLY <1>1, <1>4, <3>1, <3>2
      <4>2. sw = 0 /\ ss = -1
        BY ONLY <1>1, <1>7, <4>1, <3>2
      <4> QED BY ONLY <2>2, <4>2
    <3>3. CASE to + 1 # Modulus
      <4>1. w = to + 1
        BY ONLY <1>4, <3>1, <3>3
      <4>2. ss < sw
        BY ONLY <1>1, <1>7, <4>1, to # Half - 1
      <4> QED BY ONLY <2>2, <4>2
    <3> QED BY ONLY <3>2, <3>3
  <2>3. CASE n # r
    <3>1. c <= to /\ c # Modulus /\ from <= c
      BY ONLY <1>1, <1>2, <1>3, <2>3, n \in Nat
    <3>2. w = c
      BY ONLY <1>4, <3>1
    <3>3. ~(ss < sw)
      BY ONLY <1>1, <1>7, <1>8, <3>1, <3>2, from < Half <=> to < Half
    <3> QED BY ONLY <2>3, <3>3
  <2>4. from > to \/ from <= to
    BY ONLY <1>1
  <2> QED BY ONLY <2>1, <2>2, <2>3, <2>4
<1> QED BY ONLY <1>3, <1>4, <1>6, <1>9

\* The comparison of a WHILE.
LEMMA WhileTest ==
  ASSUME NEW from \in Word, NEW to \in Word, NEW n \in Nat, NEW r, r = IF from > to THEN 0 ELSE to - from + 1,
         n <= r, to # AllOnes
  PROVE  Wrap(from + n) <= to <=> n # r
<1>1. from \in Nat /\ to \in Nat /\ from < Modulus /\ to < Modulus /\ Modulus \in Nat /\ to # Modulus - 1
  BY WordFacts
<1>2. /\ r \in Nat /\ from + n \in Nat /\ from + n <= Modulus
      /\ n = r /\ from <= to => from + n = to + 1
      /\ n # r => from <= to /\ from + n <= to
      /\ from > to => n = 0 /\ r = 0
  BY InRange
<1>3. PICK c : c = from + n
  OBVIOUS
<1>4. PICK w : w = Wrap(c) /\ (c = Modulus => w = 0) /\ (c # Modulus => w = c)
  BY <1>2, <1>3, WrapSum
<1>5. c # Modulus
  BY ONLY <1>1, <1>2, <1>3, n \in Nat
<1>6. w = c
  BY ONLY <1>4, <1>5
<1>7. c <= to <=> n # r
  BY ONLY <1>1, <1>2, <1>3, n \in Nat
<1> QED BY ONLY <1>3, <1>4, <1>6, <1>7

-----------------------------------------------------------------------------
(* The steps of the programs *)

Kept    == UNCHANGED <<program, code, running>> /\ Shape' /\ History'
Refused == running' = "refused" /\ UNCHANGED <<program, shown, code>>
Ended   == running' = "returned" /\ UNCHANGED <<program, shown, code>>

\* Steps that change no variable and display nothing.
LEMMA QuietKeeps ==
  ASSUME Quiet, History
  PROVE  /\ Kept
         /\ BeforeRound => BeforeRound'
         /\ InRound => InRound'
         /\ AfterDisplay => AfterDisplay'
         /\ AllRounds => AllRounds'
         /\ shown' = shown /\ store' = store /\ program' = program
<1>1. shown' = shown /\ store' = store /\ program' = program /\ UNCHANGED <<code, running>> /\ Shape'
  BY DEF Quiet
<1>2. History'
  BY <1>1 DEF History
<1>3. BeforeRound => BeforeRound'
  BY <1>1 DEF BeforeRound
<1>4. InRound => InRound'
  BY <1>1, <1>3 DEF InRound
<1>5. AfterDisplay => AfterDisplay'
  BY <1>1 DEF AfterDisplay
<1>6. AllRounds => AllRounds'
  BY <1>1 DEF AllRounds
<1> QED BY <1>1, <1>2, <1>3, <1>4, <1>5, <1>6 DEF Kept

LEMMA SaveBase ==
  ASSUME Execute, Shape, Current = Ins("movq", "rsp", "rbp")
  PROVE  Onward /\ reg' = [reg EXCEPT !["rbp"] = Rsp] /\ UNCHANGED <<mem, store, flags, heard>>
<1>1. Current.op = "movq" /\ Current.src = "rsp" /\ Current.dst = "rbp"
  BY DEF Ins
<1>2. Move
  BY <1>1, Dispatch
<1>3. Read(Current, "rsp") = Rsp
  BY Reads
<1>4. "rbp" \in Registers /\ "rbp" \notin DOMAIN store
  BY RegisterNames DEF Shape
<1>5. Accesses
  BY <1>1 DEF Accesses
<1>6. Write("rbp", Rsp) /\ Onward /\ UNCHANGED <<flags, heard>>
  BY <1>1, <1>2, <1>3, <1>5 DEF Move, Advance, Onward
<1> QED BY <1>4, <1>6 DEF Write, Put

\* A step of an instruction that is no call, and what it changes.
LEMMA PopsInto ==
  ASSUME Run, Shape, NEW v \in DOMAIN AddressOf, NEW x, Current = PopTo(v), mem = <<ReturnAddress, x>>
  PROVE  /\ UNCHANGED <<program, shown, code, running>> /\ Shape' /\ ip' = ip + 1
         /\ Between' /\ store'[v] = x
<1>1. Execute
  BY DEF Run
<1>2. Onward /\ mem' = SubSeq(mem, 1, Len(mem) - 1) /\ store' = [store EXCEPT ![v] = mem[Len(mem)]] /\ reg' = reg
  BY <1>1, PopVariable
<1>3. Current.op # "call"
  BY DEF PopTo, Ins
<1>4. shown' = shown /\ program' = program
  BY <1>3 DEF Run, Runs
<1>5. mem' = <<ReturnAddress>> /\ mem[Len(mem)] = x
  BY <1>2, Stacks
<1>6. store' = [store EXCEPT ![v] = x] /\ v \in DOMAIN store
  BY <1>2, <1>5 DEF Shape
<1>7. Shape' /\ store'[v] = x
  BY <1>2, <1>6 DEF Shape
<1> QED BY <1>2, <1>4, <1>5, <1>7 DEF Onward, Between

LEMMA StartStep ==
  ASSUME Run, Shape, History, program.from \in Word, NEW h \in Nat, h = 3 + Width(program.from),
         code[1] = Ins("movq", "rsp", "rbp"), LiteralAt(2, program.from), code[h - 1] = PopTo(Counter), InStart(h)
  PROVE  \/ Refused
         \/ Kept /\ InStart(h)'
         \/ Kept /\ ip' = h /\ Between' /\ BeforeRound'
<1>1. Execute /\ shown = <<>>
  BY DEF Run, InStart
<1>2. CASE ip = 1 /\ Between
  <2>1. Current = Ins("movq", "rsp", "rbp")
    BY <1>2 DEF Current
  <2>2. Onward /\ reg' = [reg EXCEPT !["rbp"] = Rsp] /\ UNCHANGED <<mem, store>>
    BY <1>1, <2>1, SaveBase
  <2>3. Current.op # "call"
    BY <2>1 DEF Ins
  <2>4. Quiet
    BY <2>2, <2>3, QuietStep DEF Onward
  <2>5. Kept /\ shown' = shown /\ program' = program
    BY <2>4, QuietKeeps
  <2>6. ip' = 2 /\ mem' = <<ReturnAddress>>
    BY <1>2, <2>2 DEF Onward, Between
  <2>7. InLiteral(2, program.from, <<ReturnAddress>>)'
    BY <2>6 DEF InLiteral
  <2> QED BY <1>1, <2>5, <2>7 DEF InStart
<1>3. CASE InLiteral(2, program.from, <<ReturnAddress>>)
  <2>1. PICK w : w = program.from
    OBVIOUS
  <2>2. 2 \in Nat /\ LiteralAt(2, w) /\ InLiteral(2, w, <<ReturnAddress>>)
    BY <1>3, <2>1
  <2>3. \/ running' = "refused" /\ UNCHANGED <<program, shown, code>>
        \/ Quiet /\ InLiteral(2, w, <<ReturnAddress>>)'
        \/ Quiet /\ ip' = 2 + Width(w) /\ mem' = Append(<<ReturnAddress>>, w)
    BY <2>2, LiteralStep
  <2>4. CASE Quiet /\ InLiteral(2, w, <<ReturnAddress>>)'
    <3>1. Kept /\ shown' = shown /\ program' = program
      BY <2>4, QuietKeeps
    <3>2. InLiteral(2, program.from, <<ReturnAddress>>)'
      BY <2>1, <2>4, <3>1 DEF InLiteral
    <3> QED BY <1>1, <3>1, <3>2 DEF InStart
  <2>5. CASE Quiet /\ ip' = 2 + Width(w) /\ mem' = Append(<<ReturnAddress>>, w)
    <3>1. Kept /\ shown' = shown /\ program' = program
      BY <2>5, QuietKeeps
    <3>2. mem' = <<ReturnAddress, program'.from>>
      BY <2>1, <2>5, <3>1, Stacks
    <3>3. ip' = h - 1
      <4>1. Width(w) \in 1 .. 2 /\ h = 3 + Width(w) /\ ip' = 2 + Width(w)
        BY <2>1, <2>5, WidthRange
      <4> QED BY ONLY <4>1
    <3> QED BY <1>1, <3>1, <3>2, <3>3 DEF InStart
  <2> QED BY <2>3, <2>4, <2>5 DEF Refused
<1>4. CASE ip = h - 1 /\ mem = <<ReturnAddress, program.from>>
  <2>1. Current = PopTo(Counter) /\ Counter \in DOMAIN AddressOf
    BY <1>4, LoopsAssumption DEF Current
  <2>2. /\ UNCHANGED <<program, shown, code, running>> /\ Shape' /\ ip' = ip + 1
        /\ Between' /\ store'[Counter] = program.from
    BY <1>4, <2>1, PopsInto
  <2>3. ip' = h
    BY ONLY <1>4, <2>2, h \in Nat
  <2>4. History'
    BY <2>2 DEF History
  <2>5. BeforeRound'
    <3>1. program' = program /\ shown' = <<>> /\ store'[Counter] = program.from
      BY <1>1, <2>2
    <3>2. Wrap(program.from + 0) = program.from
      <4>1. program.from \in Nat /\ program.from < Modulus
        BY WordFacts
      <4>2. program.from + 0 = program.from
        BY <4>1
      <4> QED BY <4>1, <4>2, WordFacts
    <3>3. Len(<<>>) = 0
      OBVIOUS
    <3> QED BY <3>1, <3>2, <3>3 DEF BeforeRound
  <2> QED BY <2>2, <2>3, <2>4, <2>5 DEF Kept
<1> QED BY <1>2, <1>3, <1>4 DEF InStart

LEMMA RoundsNat ==
  ASSUME NEW p, p.from \in Word, p.to \in Word
  PROVE  Rounds(p) \in Nat
<1>1. p.from \in Nat /\ p.to \in Nat
  BY WordFacts
<1> QED BY <1>1 DEF Rounds

\* What a display does to the history.
LEMMA Displays ==
  ASSUME History, InRound, shown' = Append(shown, store[Counter]), UNCHANGED <<program, store>>,
         program.from \in Word, program.to \in Word
  PROVE  History' /\ AfterDisplay'
<1>1. PICK n, f : n = Len(shown) /\ f = program.from
  OBVIOUS
<1>2. shown \in Seq(Word) /\ n \in Nat /\ f \in Nat /\ store[Counter] = Wrap(f + n)
  BY <1>1, WordFacts DEF History, InRound, BeforeRound
<1>3. Wrap(f + n) \in Word /\ f + n = f + (n + 1) - 1
  <2>1. f + n \in Nat /\ f + n = f + (n + 1) - 1
    BY ONLY <1>2
  <2> QED BY <2>1, WordFacts
<1>4. shown' \in Seq(Word) /\ Len(shown') = n + 1 /\ (\A i \in 1 .. n : shown'[i] = shown[i]) /\ shown'[n + 1] = Wrap(f + n)
  <2>1. store[Counter] \in Word
    BY <1>2, <1>3
  <2> QED BY <1>1, <1>2, <2>1
<1>5. \A i \in 1 .. Len(shown') : shown'[i] = Wrap(program'.from + i - 1)
  <2>1. SUFFICES ASSUME NEW i \in 1 .. n + 1
                 PROVE  shown'[i] = Wrap(f + i - 1)
    BY <1>1, <1>4
  <2>2. CASE i \in 1 .. n
    BY <1>1, <1>4, <2>2 DEF History
  <2>3. CASE i = n + 1
    BY <1>3, <1>4, <2>3
  <2>4. i \in 1 .. n \/ i = n + 1
    BY ONLY <1>2, <2>1
  <2> QED BY <2>2, <2>3, <2>4
<1>6. Countable(program') => Len(shown') <= Rounds(program')
  <2>1. ASSUME Countable(program)
        PROVE  n + 1 <= Rounds(program)
    <3>1. PICK r : r = Rounds(program)
      OBVIOUS
    <3>2. r \in Nat /\ n < r
      BY <1>1, <2>1, <3>1, RoundsNat DEF InRound
    <3>3. n + 1 <= r
      BY ONLY <1>2, <3>2
    <3> QED BY <3>1, <3>3
  <2> QED BY <1>4, <2>1
<1>7. History'
  BY <1>4, <1>5, <1>6 DEF History
<1>8. AfterDisplay'
  <2>1. Len(shown') >= 1
    BY ONLY <1>2, <1>4
  <2>2. store'[Counter] = Wrap(f + (n + 1) - 1)
    BY <1>2, <1>3
  <2> QED BY <1>1, <1>4, <2>1, <2>2 DEF AfterDisplay
<1> QED BY <1>7, <1>8

\* What the end of a round does to the variable of the loop.
LEMMA Counts ==
  ASSUME History, Shape, AfterDisplay, store' = [store EXCEPT ![Counter] = Wrap(store[Counter] + 1)],
         UNCHANGED <<program, shown>>, program.from \in Word
  PROVE  History' /\ BeforeRound'
<1>1. History'
  BY DEF History
<1>2. PICK n, f : n = Len(shown) /\ f = program.from
  OBVIOUS
<1>3. n \in Nat /\ n >= 1 /\ f \in Nat /\ store[Counter] = Wrap(f + n - 1)
  BY <1>2, WordFacts DEF History, AfterDisplay
<1>4. f + n - 1 \in Nat /\ (f + n - 1) + 1 = f + n
  BY ONLY <1>3
<1>5. Wrap(Wrap(f + n - 1) + 1) = Wrap(f + n)
  <2>1. PICK x : x = f + n - 1
    OBVIOUS
  <2>2. x \in Nat /\ x + 1 = f + n
    BY ONLY <1>4, <2>1
  <2>3. Wrap(Wrap(x) + 1) = Wrap(x + 1)
    BY <2>2, WrapNext
  <2> QED BY <2>1, <2>2, <2>3
<1>6. Counter \in DOMAIN store
  BY LoopsAssumption DEF Shape
<1>7. store'[Counter] = Wrap(f + n)
  BY <1>3, <1>5, <1>6
<1> QED BY <1>1, <1>2, <1>7 DEF BeforeRound

\* A step of a program with FOR.
LEMMA ForStep ==
  ASSUME Run, Shape, History, program.kind = "for", program.from \in Word, program.to \in Word,
         NEW h \in Nat, NEW d \in Nat, ForLayout(program.from, program.to, h, d),
         LabelAt("__for", 1) = h, LabelAt("__next", 1) = d + 14, InFor(h, d)
  PROVE  \/ Refused
         \/ Kept /\ InFor(h, d)'
         \/ Ended /\ AllRounds'
<1>1. Execute /\ Counter \in DOMAIN AddressOf /\ Counter \notin Registers /\ "rax" \in Registers
  BY LoopsAssumption, RegisterNames DEF Run
<1>2. CASE InStart(h)
  <2>1. /\ h = 3 + Width(program.from) /\ code[1] = Ins("movq", "rsp", "rbp")
        /\ LiteralAt(2, program.from) /\ code[h - 1] = PopTo(Counter)
    BY DEF ForLayout
  <2>2. \/ Refused
        \/ Kept /\ InStart(h)'
        \/ Kept /\ ip' = h /\ Between' /\ BeforeRound'
    BY <1>2, <2>1, StartStep
  <2> QED BY <2>2 DEF InFor
<1>3. CASE ip = h /\ Between /\ BeforeRound
  <2>1. Current = Tag("label", "__for", 1)
    BY <1>3 DEF ForLayout, Current
  <2>2. Onward /\ UNCHANGED <<reg, mem, store>>
    BY <1>1, <2>1, LabelStep
  <2>3. Current.op # "call"
    BY <2>1 DEF Tag
  <2>4. Quiet
    BY <2>2, <2>3, QuietStep DEF Onward
  <2>5. Kept /\ BeforeRound'
    BY <1>3, <2>4, QuietKeeps
  <2>6. InLiteral(h + 1, program.to, <<ReturnAddress>>)'
    BY <1>3, <2>2 DEF Onward, Between, InLiteral
  <2> QED BY <2>5, <2>6 DEF InFor
<1>4. CASE InLiteral(h + 1, program.to, <<ReturnAddress>>) /\ BeforeRound
  <2>1. PICK k, w : k = h + 1 /\ w = program.to
    OBVIOUS
  <2>2. k \in Nat /\ LiteralAt(k, w) /\ InLiteral(k, w, <<ReturnAddress>>)
    <3>1. LiteralAt(h + 1, program.to)
      BY DEF ForLayout
    <3> QED BY <1>4, <2>1, <3>1
  <2>3. \/ running' = "refused" /\ UNCHANGED <<program, shown, code>>
        \/ Quiet /\ InLiteral(k, w, <<ReturnAddress>>)'
        \/ Quiet /\ ip' = k + Width(w) /\ mem' = Append(<<ReturnAddress>>, w)
    BY <2>2, LiteralStep
  <2>4. CASE Quiet /\ InLiteral(k, w, <<ReturnAddress>>)'
    <3>1. Kept /\ BeforeRound' /\ program' = program
      BY <1>4, <2>4, QuietKeeps
    <3>2. InLiteral(h + 1, program.to, <<ReturnAddress>>)'
      BY <2>1, <2>4, <3>1 DEF InLiteral
    <3> QED BY <3>1, <3>2 DEF InFor
  <2>5. CASE Quiet /\ ip' = k + Width(w) /\ mem' = Append(<<ReturnAddress>>, w)
    <3>1. Kept /\ BeforeRound' /\ program' = program
      BY <1>4, <2>5, QuietKeeps
    <3>2. mem' = <<ReturnAddress, program'.to>>
      BY <2>1, <2>5, <3>1, Stacks
    <3>3. d = h + 1 + Width(program.to)
      BY DEF ForLayout
    <3>4. ip' = d
      BY ONLY <2>1, <2>5, <3>3
    <3> QED BY <3>1, <3>2, <3>4 DEF InFor
  <2> QED BY <2>3, <2>4, <2>5 DEF Refused
<1>5. CASE ip = d /\ mem = <<ReturnAddress, program.to>> /\ BeforeRound
  <2>1. Current = PopTo("rax")
    BY <1>5 DEF ForLayout, Current
  <2>2. /\ Onward /\ mem' = SubSeq(mem, 1, Len(mem) - 1)
        /\ reg' = [reg EXCEPT !["rax"] = mem[Len(mem)]] /\ UNCHANGED store
    BY <1>1, <2>1, PopRegister
  <2>3. Current.op # "call"
    BY <2>1 DEF PopTo, Ins
  <2>4. Quiet
    BY <2>2, <2>3, QuietStep DEF Onward
  <2>5. Kept /\ BeforeRound' /\ program' = program
    BY <1>5, <2>4, QuietKeeps
  <2>6. mem' = <<ReturnAddress>> /\ mem[Len(mem)] = program.to
    BY <1>5, <2>2, Stacks
  <2>7. reg'["rax"] = program'.to
    BY <1>1, <2>2, <2>5, <2>6 DEF Shape
  <2>8. ip' = d + 1
    BY <1>5, <2>2 DEF Onward
  <2> QED BY <2>5, <2>6, <2>7, <2>8 DEF InFor, Between
<1>6. CASE ip = d + 1 /\ Between /\ reg["rax"] = program.to /\ BeforeRound
  <2>1. Current = Ins("cmpq", Counter, "rax")
    BY <1>6 DEF ForLayout, Current
  <2>2. /\ Onward /\ UNCHANGED <<reg, mem, store>>
        /\ flags'.lt = (Signed(reg["rax"]) < Signed(Held(Counter)))
    BY <1>1, <2>1, CompareStep
  <2>3. Current.op # "call"
    BY <2>1 DEF Ins
  <2>4. Quiet
    BY <2>2, <2>3, QuietStep DEF Onward
  <2>5. Kept /\ BeforeRound' /\ program' = program /\ store' = store
    BY <1>6, <2>4, QuietKeeps
  <2>6. flags'.lt = (Signed(program'.to) < Signed(store'[Counter]))
    BY <1>1, <1>6, <2>2, <2>5 DEF Held
  <2>7. ip' = d + 2 /\ Between'
    BY <1>6, <2>2 DEF Onward, Between
  <2> QED BY <2>5, <2>6, <2>7 DEF InFor
<1>7. CASE ip = d + 2 /\ Between /\ flags.lt = (Signed(program.to) < Signed(store[Counter])) /\ BeforeRound
  <2>1. Current = Tag("jl", "__next", 1)
    BY <1>7 DEF ForLayout, Current
  <2>2. ip' = (IF Taken("jl") THEN LabelAt("__next", 1) ELSE ip + 1) /\ UNCHANGED <<code, running, reg, mem, store>>
    BY <1>1, <2>1, JumpStep
  <2>3. Current.op # "call"
    BY <2>1 DEF Tag
  <2>4. Quiet
    BY <2>2, <2>3, QuietStep
  <2>5. Taken("jl") = flags.lt
    BY DEF Taken
  <2>6. Countable(program) => (Signed(program.to) < Signed(store[Counter]) <=> Len(shown) = Rounds(program))
    <3>1. SUFFICES ASSUME Countable(program)
                   PROVE  Signed(program.to) < Signed(store[Counter]) <=> Len(shown) = Rounds(program)
      OBVIOUS
    <3>2. PICK n, r : n = Len(shown) /\ r = Rounds(program)
      OBVIOUS
    <3>3. n \in Nat /\ n <= r /\ r = IF program.from > program.to THEN 0 ELSE program.to - program.from + 1
      BY <3>1, <3>2 DEF History, Rounds
    <3>4. (program.from < Half <=> program.to < Half) /\ program.to # Half - 1
      BY <3>1 DEF Countable
    <3>5. Signed(program.to) < Signed(Wrap(program.from + n)) <=> n = r
      BY <3>3, <3>4, ForTest
    <3>6. store[Counter] = Wrap(program.from + n)
      BY <1>7, <3>2 DEF BeforeRound
    <3> QED BY <3>2, <3>5, <3>6
  <2>7. CASE flags.lt
    <3>1. AllRounds
      BY <1>7, <2>6, <2>7 DEF AllRounds
    <3>2. Kept /\ AllRounds'
      BY <2>4, <3>1, QuietKeeps
    <3>3. ip' = d + 14
      BY <2>2, <2>5, <2>7
    <3> QED BY <3>2, <3>3 DEF InFor
  <2>8. CASE ~flags.lt
    <3>1. Countable(program) => Len(shown) < Rounds(program)
      <4>1. PICK n, r : n = Len(shown) /\ r = Rounds(program)
        OBVIOUS
      <4>2. Countable(program) => n # r
        BY <1>7, <2>6, <2>8, <4>1
      <4>3. n \in Nat /\ r \in Nat /\ (Countable(program) => n <= r)
        BY <4>1, RoundsNat DEF History
      <4>4. Countable(program) => n < r
        BY ONLY <4>2, <4>3
      <4> QED BY <4>1, <4>4
    <3>2. InRound
      BY <1>7, <3>1 DEF InRound
    <3>3. Kept /\ InRound'
      BY <2>4, <3>2, QuietKeeps
    <3>4. ip' = d + 3 /\ mem' = <<ReturnAddress>>
      <4>1. ip' = ip + 1 /\ mem' = mem
        BY <2>2, <2>5, <2>8
      <4>2. ip' = d + 3
        BY ONLY <1>7, <4>1, d \in Nat
      <4> QED BY <1>7, <4>1, <4>2 DEF Between
    <3>5. InShow(d + 3, Counter)'
      BY <3>4 DEF InShow
    <3> QED BY <3>3, <3>5 DEF InFor
  <2> QED BY <2>7, <2>8
<1>8. CASE InShow(d + 3, Counter) /\ InRound
  <2>1. PICK k : k = d + 3
    OBVIOUS
  <2>2. k \in Nat /\ ShowAt(k, Counter) /\ InShow(k, Counter)
    <3>1. ShowAt(d + 3, Counter)
      BY DEF ForLayout
    <3>2. k \in Nat
      BY ONLY <2>1, d \in Nat
    <3> QED BY <1>8, <2>1, <3>1, <3>2
  <2>3. \/ Quiet /\ InShow(k, Counter)'
        \/ /\ UNCHANGED <<program, code, store, running>> /\ Shape'
           /\ InShown(k)' /\ shown' = Append(shown, store[Counter])
    BY <1>1, <2>2, ShowStep
  <2>4. CASE Quiet /\ InShow(k, Counter)'
    <3>1. Kept /\ InRound'
      BY <1>8, <2>4, QuietKeeps
    <3> QED BY <2>1, <2>4, <3>1 DEF InFor
  <2>5. CASE /\ UNCHANGED <<program, code, store, running>> /\ Shape'
             /\ InShown(k)' /\ shown' = Append(shown, store[Counter])
    <3>1. History' /\ AfterDisplay'
      BY <1>8, <2>5, Displays
    <3> QED BY <2>1, <2>5, <3>1 DEF InFor, Kept
  <2> QED BY <2>3, <2>4, <2>5
<1>9. CASE InShown(d + 3) /\ AfterDisplay
  <2>1. PICK k : k = d + 3
    OBVIOUS
  <2>2. k \in Nat /\ ShowAt(k, Counter) /\ InShown(k)
    <3>1. ShowAt(d + 3, Counter)
      BY DEF ForLayout
    <3>2. k \in Nat
      BY ONLY <2>1, d \in Nat
    <3> QED BY <1>9, <2>1, <3>1, <3>2
  <2>3. Quiet /\ ip' = k + 9 /\ mem' = <<ReturnAddress>>
    BY <2>2, ShownStep
  <2>4. Kept /\ AfterDisplay'
    BY <1>9, <2>3, QuietKeeps
  <2>5. ip' = d + 12
    BY ONLY <2>1, <2>3, d \in Nat
  <2> QED BY <2>3, <2>4, <2>5 DEF InFor, Between
<1>10. CASE ip = d + 12 /\ Between /\ AfterDisplay
  <2>1. Current = Imm("addq", 1, Counter)
    BY <1>10 DEF ForLayout, Current
  <2>2. Onward /\ store' = [store EXCEPT ![Counter] = Wrap(store[Counter] + 1)] /\ UNCHANGED <<mem, reg>>
    BY <1>1, <2>1, AddToVariable
  <2>3. Current.op # "call"
    BY <2>1 DEF Imm
  <2>4. shown' = shown /\ program' = program
    BY <2>3 DEF Run, Runs
  <2>5. Shape'
    BY <2>2 DEF Shape
  <2>6. History' /\ BeforeRound'
    BY <1>10, <2>2, <2>4, Counts
  <2>7. ip' = d + 13 /\ Between'
    <3>1. ip' = d + 13
      BY <1>10, <2>2 DEF Onward
    <3> QED BY <1>10, <2>2, <3>1 DEF Between
  <2>8. Kept
    BY <2>2, <2>4, <2>5, <2>6 DEF Kept, Onward
  <2> QED BY <2>6, <2>7, <2>8 DEF InFor
<1>11. CASE ip = d + 13 /\ Between /\ BeforeRound
  <2>1. Current = Tag("jmp", "__for", 1)
    BY <1>11 DEF ForLayout, Current
  <2>2. ip' = (IF Taken("jmp") THEN LabelAt("__for", 1) ELSE ip + 1) /\ UNCHANGED <<code, running, reg, mem, store>>
    BY <1>1, <2>1, JumpStep
  <2>3. Current.op # "call"
    BY <2>1 DEF Tag
  <2>4. Quiet
    BY <2>2, <2>3, QuietStep
  <2>5. Taken("jmp")
    BY DEF Taken
  <2>6. Kept /\ BeforeRound'
    BY <1>11, <2>4, QuietKeeps
  <2>7. ip' = h /\ Between'
    BY <1>11, <2>2, <2>5 DEF Between
  <2> QED BY <2>6, <2>7 DEF InFor
<1>12. CASE ip = d + 14 /\ AllRounds
  <2>1. Current = Tag("label", "__next", 1)
    BY <1>12 DEF ForLayout, Current
  <2>2. Onward /\ UNCHANGED <<reg, mem, store>>
    BY <1>1, <2>1, LabelStep
  <2>3. Current.op # "call"
    BY <2>1 DEF Tag
  <2>4. Quiet
    BY <2>2, <2>3, QuietStep DEF Onward
  <2>5. Kept /\ AllRounds'
    BY <1>12, <2>4, QuietKeeps
  <2>6. ip' = d + 15
    BY <1>12, <2>2 DEF Onward
  <2> QED BY <2>5, <2>6 DEF InFor
<1>13. CASE ip = d + 15 /\ AllRounds
  <2>1. Current = Ins("movq", "rbp", "rsp")
    BY <1>13 DEF ForLayout, Current
  <2>2. Onward /\ UNCHANGED <<reg, store>>
    BY <1>1, <2>1, RestoreStackPointer
  <2>3. Current.op # "call"
    BY <2>1 DEF Ins
  <2>4. Quiet
    BY <2>2, <2>3, QuietStep DEF Onward
  <2>5. Kept /\ AllRounds'
    BY <1>13, <2>4, QuietKeeps
  <2>6. ip' = d + 16
    BY <1>13, <2>2 DEF Onward
  <2> QED BY <2>5, <2>6 DEF InFor
<1>14. CASE ip = d + 16 /\ AllRounds
  <2>1. Current = Ins("ret", NoName, NoName)
    BY <1>14 DEF ForLayout, Current
  <2>2. running' = "returned" /\ UNCHANGED <<code, reg, store>>
    BY <1>1, <2>1, ReturnStep
  <2>3. Current.op # "call"
    BY <2>1 DEF Ins
  <2>4. shown' = shown /\ program' = program
    BY <2>3 DEF Run, Runs
  <2> QED BY <1>14, <2>2, <2>4 DEF Ended, AllRounds
<1> QED BY <1>2, <1>3, <1>4, <1>5, <1>6, <1>7, <1>8, <1>9, <1>10, <1>11, <1>12, <1>13, <1>14 DEF InFor

LEMMA CounterIsWord ==
  ASSUME History, BeforeRound, program.from \in Word
  PROVE  store[Counter] \in Word
<1>1. PICK f, n : f = program.from /\ n = Len(shown)
  OBVIOUS
<1>2. f \in Nat /\ n \in Nat
  BY <1>1, WordFacts DEF History
<1>3. PICK x : x = f + n
  OBVIOUS
<1>4. x \in Nat
  BY ONLY <1>2, <1>3
<1>5. Wrap(x) \in Word
  BY <1>4, WordFacts
<1> QED BY <1>1, <1>3, <1>5 DEF BeforeRound

\* A step of a program with WHILE.
LEMMA WhileStep ==
  ASSUME Run, Shape, History, program.kind = "while", program.from \in Word, program.to \in Word, program.to # AllOnes,
         NEW h \in Nat, NEW q \in Nat, NEW s \in Nat, WhileLayout(program.from, program.to, h, q, s),
         LabelAt("__while", 1) = h, LabelAt("__next", 1) = s + 6,
         LabelAt("__true", 2) = q + 6, LabelAt("__next", 2) = q + 8, InWhile(h, q, s)
  PROVE  \/ Refused
         \/ Kept /\ InWhile(h, q, s)'
         \/ Ended /\ AllRounds'
<1>1. Execute /\ Counter \in DOMAIN AddressOf /\ Counter \notin Registers /\ "rax" \in Registers
  BY LoopsAssumption, RegisterNames DEF Run
<1>2. CASE InStart(h)
  <2>1. /\ h = 3 + Width(program.from) /\ code[1] = Ins("movq", "rsp", "rbp")
        /\ LiteralAt(2, program.from) /\ code[h - 1] = PopTo(Counter)
    BY DEF WhileLayout
  <2>2. \/ Refused
        \/ Kept /\ InStart(h)'
        \/ Kept /\ ip' = h /\ Between' /\ BeforeRound'
    BY <1>2, <2>1, StartStep
  <2> QED BY <2>2 DEF InWhile
<1>3. CASE ip = h /\ Between /\ BeforeRound
  <2>1. Current = Tag("label", "__while", 1)
    BY <1>3 DEF WhileLayout, Current
  <2>2. Onward /\ UNCHANGED <<reg, mem, store>>
    BY <1>1, <2>1, LabelStep
  <2>3. Current.op # "call"
    BY <2>1 DEF Tag
  <2>4. Quiet
    BY <2>2, <2>3, QuietStep DEF Onward
  <2>5. Kept /\ BeforeRound'
    BY <1>3, <2>4, QuietKeeps
  <2>6. ip' = h + 1 /\ mem' = <<ReturnAddress>>
    BY <1>3, <2>2 DEF Onward, Between
  <2>7. InCondition(h + 1, q, Counter, program.to)'
    BY <2>6 DEF InCondition
  <2> QED BY <2>5, <2>7 DEF InWhile
<1>4. CASE InCondition(h + 1, q, Counter, program.to) /\ BeforeRound
  <2>1. PICK k, w : k = h + 1 /\ w = program.to
    OBVIOUS
  <2>2. k \in Nat /\ w \in Word /\ store[Counter] \in Word
    <3>1. k \in Nat
      BY ONLY <2>1, h \in Nat
    <3>2. store[Counter] \in Word
      BY <1>4, CounterIsWord
    <3> QED BY <2>1, <3>1, <3>2
  <2>3. ConditionAt(k, q, Counter, w, 2, 1) /\ InCondition(k, q, Counter, w)
    <3>1. ConditionCode(h + 1, q, Counter, program.to, 2, 1)
      BY DEF WhileLayout
    <3>2. ConditionCode(k, q, Counter, w, 2, 1)
      BY <2>1, <3>1
    <3> QED BY <1>4, <2>1, <3>2 DEF ConditionAt
  <2>4. \/ running' = "refused" /\ UNCHANGED <<program, shown, code>>
        \/ Quiet /\ InCondition(k, q, Counter, w)'
        \/ /\ Quiet /\ mem' = <<ReturnAddress>>
           /\ ip' = IF store[Counter] <= w THEN q + 12 ELSE LabelAt("__next", 1)
    BY <1>1, <2>2, <2>3, ConditionStep
  <2>5. CASE Quiet /\ InCondition(k, q, Counter, w)'
    <3>1. Kept /\ BeforeRound' /\ program' = program
      BY <1>4, <2>5, QuietKeeps
    <3>2. InCondition(h + 1, q, Counter, program.to)'
      BY <2>1, <2>5, <3>1, Zenon
    <3> QED BY <3>1, <3>2 DEF InWhile
  <2>6. CASE /\ Quiet /\ mem' = <<ReturnAddress>>
             /\ ip' = IF store[Counter] <= w THEN q + 12 ELSE LabelAt("__next", 1)
    <3>1. store[Counter] <= w <=> Len(shown) # Rounds(program)
      <4>1. PICK n, r : n = Len(shown) /\ r = Rounds(program)
        OBVIOUS
      <4>2. n \in Nat /\ n <= r /\ r = IF program.from > program.to THEN 0 ELSE program.to - program.from + 1
        <5>1. Countable(program)
          BY DEF Countable
        <5> QED BY <4>1, <5>1 DEF History, Rounds
      <4>3. Wrap(program.from + n) <= program.to <=> n # r
        BY <4>2, WhileTest
      <4>4. store[Counter] = Wrap(program.from + n)
        BY <1>4, <4>1 DEF BeforeRound
      <4> QED BY <2>1, <4>1, <4>3, <4>4
    <3>2. CASE store[Counter] <= w
      <4>1. Countable(program) => Len(shown) < Rounds(program)
        <5>1. PICK n, r : n = Len(shown) /\ r = Rounds(program)
          OBVIOUS
        <5>2. n # r
          BY <3>1, <3>2, <5>1
        <5>3. n \in Nat /\ r \in Nat /\ (Countable(program) => n <= r)
          BY <5>1, RoundsNat DEF History
        <5>4. Countable(program) => n < r
          BY ONLY <5>2, <5>3
        <5> QED BY <5>1, <5>4
      <4>2. InRound
        BY <1>4, <4>1 DEF InRound
      <4>3. Kept /\ InRound'
        BY <2>6, <4>2, QuietKeeps
      <4>4. InShow(q + 12, Counter)'
        BY <2>6, <3>2 DEF InShow
      <4> QED BY <4>3, <4>4 DEF InWhile
    <3>3. CASE ~(store[Counter] <= w)
      <4>1. AllRounds
        BY <3>1, <3>3 DEF AllRounds
      <4>2. Kept /\ AllRounds'
        BY <2>6, <4>1, QuietKeeps
      <4>3. ip' = s + 6
        BY <2>6, <3>3
      <4> QED BY <4>2, <4>3 DEF InWhile
    <3> QED BY <3>2, <3>3
  <2> QED BY <2>4, <2>5, <2>6 DEF Refused
<1>5. CASE InShow(q + 12, Counter) /\ InRound
  <2>1. PICK k : k = q + 12
    OBVIOUS
  <2>2. k \in Nat /\ ShowAt(k, Counter) /\ InShow(k, Counter)
    <3>1. ShowAt(q + 12, Counter)
      BY DEF WhileLayout
    <3>2. k \in Nat
      BY ONLY <2>1, q \in Nat
    <3> QED BY <1>5, <2>1, <3>1, <3>2
  <2>3. \/ Quiet /\ InShow(k, Counter)'
        \/ /\ UNCHANGED <<program, code, store, running>> /\ Shape'
           /\ InShown(k)' /\ shown' = Append(shown, store[Counter])
    BY <1>1, <2>2, ShowStep
  <2>4. CASE Quiet /\ InShow(k, Counter)'
    <3>1. Kept /\ InRound'
      BY <1>5, <2>4, QuietKeeps
    <3> QED BY <2>1, <2>4, <3>1 DEF InWhile
  <2>5. CASE /\ UNCHANGED <<program, code, store, running>> /\ Shape'
             /\ InShown(k)' /\ shown' = Append(shown, store[Counter])
    <3>1. History' /\ AfterDisplay'
      BY <1>5, <2>5, Displays
    <3> QED BY <2>1, <2>5, <3>1 DEF InWhile, Kept
  <2> QED BY <2>3, <2>4, <2>5
<1>6. CASE InShown(q + 12) /\ AfterDisplay
  <2>1. PICK k : k = q + 12
    OBVIOUS
  <2>2. k \in Nat /\ ShowAt(k, Counter) /\ InShown(k)
    <3>1. ShowAt(q + 12, Counter)
      BY DEF WhileLayout
    <3>2. k \in Nat
      BY ONLY <2>1, q \in Nat
    <3> QED BY <1>6, <2>1, <3>1, <3>2
  <2>3. Quiet /\ ip' = k + 9 /\ mem' = <<ReturnAddress>>
    BY <2>2, ShownStep
  <2>4. Kept /\ AfterDisplay'
    BY <1>6, <2>3, QuietKeeps
  <2>5. ip' = q + 21
    BY ONLY <2>1, <2>3, q \in Nat
  <2>6. InIncrement(q + 21, s, Counter)'
    BY <2>3, <2>5 DEF InIncrement
  <2> QED BY <2>4, <2>6 DEF InWhile
<1>7. CASE InIncrement(q + 21, s, Counter) /\ AfterDisplay
  <2>1. PICK k : k = q + 21
    OBVIOUS
  <2>2. k \in Nat /\ IncrementAt(k, s, Counter) /\ InIncrement(k, s, Counter)
    <3>1. IncrementAt(q + 21, s, Counter)
      BY DEF WhileLayout
    <3>2. k \in Nat
      BY ONLY <2>1, q \in Nat
    <3> QED BY <1>7, <2>1, <3>1, <3>2
  <2>3. \/ running' = "refused" /\ UNCHANGED <<program, shown, code>>
        \/ Quiet /\ InIncrement(k, s, Counter)'
        \/ /\ UNCHANGED <<program, shown, code, running>> /\ Shape'
           /\ ip' = s + 5 /\ mem' = <<ReturnAddress>> /\ store' = [store EXCEPT ![Counter] = Wrap(store[Counter] + 1)]
    BY <1>1, <2>2, IncrementStep
  <2>4. CASE Quiet /\ InIncrement(k, s, Counter)'
    <3>1. Kept /\ AfterDisplay'
      BY <1>7, <2>4, QuietKeeps
    <3> QED BY <2>1, <2>4, <3>1 DEF InWhile
  <2>5. CASE /\ UNCHANGED <<program, shown, code, running>> /\ Shape'
             /\ ip' = s + 5 /\ mem' = <<ReturnAddress>> /\ store' = [store EXCEPT ![Counter] = Wrap(store[Counter] + 1)]
    <3>1. History' /\ BeforeRound'
      BY <1>7, <2>5, Counts
    <3> QED BY <2>5, <3>1 DEF InWhile, Kept, Between
  <2> QED BY <2>3, <2>4, <2>5 DEF Refused
<1>8. CASE ip = s + 5 /\ Between /\ BeforeRound
  <2>1. Current = Tag("jmp", "__while", 1)
    BY <1>8 DEF WhileLayout, Current
  <2>2. ip' = (IF Taken("jmp") THEN LabelAt("__while", 1) ELSE ip + 1) /\ UNCHANGED <<code, running, reg, mem, store>>
    BY <1>1, <2>1, JumpStep
  <2>3. Current.op # "call"
    BY <2>1 DEF Tag
  <2>4. Quiet
    BY <2>2, <2>3, QuietStep
  <2>5. Taken("jmp")
    BY DEF Taken
  <2>6. Kept /\ BeforeRound'
    BY <1>8, <2>4, QuietKeeps
  <2>7. ip' = h /\ Between'
    BY <1>8, <2>2, <2>5 DEF Between
  <2> QED BY <2>6, <2>7 DEF InWhile
<1>9. CASE ip = s + 6 /\ AllRounds
  <2>1. Current = Tag("label", "__next", 1)
    BY <1>9 DEF WhileLayout, Current
  <2>2. Onward /\ UNCHANGED <<reg, mem, store>>
    BY <1>1, <2>1, LabelStep
  <2>3. Current.op # "call"
    BY <2>1 DEF Tag
  <2>4. Quiet
    BY <2>2, <2>3, QuietStep DEF Onward
  <2>5. Kept /\ AllRounds'
    BY <1>9, <2>4, QuietKeeps
  <2>6. ip' = s + 7
    BY <1>9, <2>2 DEF Onward
  <2> QED BY <2>5, <2>6 DEF InWhile
<1>10. CASE ip = s + 7 /\ AllRounds
  <2>1. Current = Ins("movq", "rbp", "rsp")
    BY <1>10 DEF WhileLayout, Current
  <2>2. Onward /\ UNCHANGED <<reg, store>>
    BY <1>1, <2>1, RestoreStackPointer
  <2>3. Current.op # "call"
    BY <2>1 DEF Ins
  <2>4. Quiet
    BY <2>2, <2>3, QuietStep DEF Onward
  <2>5. Kept /\ AllRounds'
    BY <1>10, <2>4, QuietKeeps
  <2>6. ip' = s + 8
    BY <1>10, <2>2 DEF Onward
  <2> QED BY <2>5, <2>6 DEF InWhile
<1>11. CASE ip = s + 8 /\ AllRounds
  <2>1. Current = Ins("ret", NoName, NoName)
    BY <1>11 DEF WhileLayout, Current
  <2>2. running' = "returned" /\ UNCHANGED <<code, reg, store>>
    BY <1>1, <2>1, ReturnStep
  <2>3. Current.op # "call"
    BY <2>1 DEF Ins
  <2>4. shown' = shown /\ program' = program
    BY <2>3 DEF Run, Runs
  <2> QED BY <1>11, <2>2, <2>4 DEF Ended, AllRounds
<1> QED BY <1>2, <1>3, <1>4, <1>5, <1>6, <1>7, <1>8, <1>9, <1>10, <1>11 DEF InWhile

-----------------------------------------------------------------------------
(* The invariant is inductive. *)

LEMMA LoopInit ==
  ASSUME Init, Kinds \subseteq {"for", "while"}
  PROVE  LoopInv
<1>1. program \in [kind : Kinds, from : Word, to : Word] /\ <<program.from, program.to>> \in Bounds
  BY LoopsAssumption DEF Init
<1>2. code = CodeOf(program) /\ ip = 1 /\ mem = <<ReturnAddress>> /\ running = "running" /\ shown = <<>>
  BY DEF Init, Entered
<1>3. Shape
  BY DEF Init, Entered, Shape
<1>4. Rounds(program) \in Nat
  BY <1>1, RoundsNat
<1>5. History
  <2>1. Len(shown) = 0 /\ shown \in Seq(Word)
    BY <1>2
  <2> QED BY <1>4, <2>1 DEF History
<1>6. \A h : InStart(h)
  BY <1>2 DEF InStart, Between
<1>7. /\ InFor(HeadOf(program), TestOf(program))
      /\ InWhile(HeadOf(program), CompareOf(program), AddOf(program))
  BY <1>6 DEF InFor, InWhile
<1>8. program.kind = "while" => program.to # AllOnes
  BY DEF Init
<1> QED BY <1>1, <1>2, <1>3, <1>5, <1>7, <1>8 DEF LoopInv

\* A step of either program.
LEMMA LoopRun ==
  ASSUME LoopInv, Run, Kinds \subseteq {"for", "while"}
  PROVE  LoopInv'
<1>1. running = "running" /\ Shape /\ History
  BY Dispatch DEF Run, LoopInv
<1>2. PICK p : p = program
  OBVIOUS
<1>3. p.kind \in {"for", "while"} /\ p.from \in Word /\ p.to \in Word /\ code = CodeOf(p)
  BY <1>2 DEF LoopInv
<1>4. ASSUME UNCHANGED <<program, code>>
      PROVE  /\ program' \in [kind : Kinds, from : Word, to : Word] /\ <<program'.from, program'.to>> \in Bounds
             /\ program'.kind = "while" => program'.to # AllOnes
             /\ code' = CodeOf(program')
  <2>1. program' = program /\ code' = code
    BY <1>4
  <2> QED BY <2>1, Zenon DEF LoopInv
<1>5. CASE Refused
  <2>1. History'
    BY <1>1, <1>5 DEF Refused, History
  <2> QED BY <1>4, <1>5, <2>1 DEF Refused, LoopInv
<1>6. CASE Ended /\ AllRounds'
  <2>1. History'
    BY <1>1, <1>6 DEF Ended, History
  <2> QED BY <1>4, <1>6, <2>1 DEF Ended, LoopInv
<1>7. CASE p.kind = "for"
  <2>1. PICK h, d : h = 3 + Width(p.from) /\ d = h + 1 + Width(p.to)
    OBVIOUS
  <2>2. ForLayout(p.from, p.to, h, d)
    BY <1>3, <1>7, <2>1, ForProgram
  <2>3. h \in 4 .. 5 /\ d \in Nat /\ LabelAt("__for", 1) = h /\ LabelAt("__next", 1) = d + 14
    BY <2>2, ForLabels
  <2>4. h = HeadOf(p) /\ d = TestOf(p)
    BY <2>1 DEF HeadOf, TestOf
  <2>5. InFor(h, d)
    <3>1. InFor(HeadOf(program), TestOf(program))
      BY <1>1, <1>2, <1>7 DEF LoopInv
    <3> QED BY <1>2, <2>4, <3>1, Zenon
  <2>6. \/ Refused
        \/ Kept /\ InFor(h, d)'
        \/ Ended /\ AllRounds'
    <3>1. /\ program.kind = "for" /\ program.from \in Word /\ program.to \in Word /\ h \in Nat
          /\ ForLayout(program.from, program.to, h, d)
      BY <1>2, <1>3, <1>7, <2>2, <2>3
    <3> QED BY <1>1, <2>3, <2>5, <3>1, ForStep
  <2>7. CASE Kept /\ InFor(h, d)'
    <3>1. program' = program /\ code' = code /\ running' = running /\ Shape' /\ History'
      BY <2>7 DEF Kept
    <3>2. InFor(HeadOf(program), TestOf(program))'
      <4>1. HeadOf(program)' = h /\ TestOf(program)' = d
        BY <1>2, <2>4, <3>1
      <4> QED BY <2>7, <4>1, Zenon
    <3> QED BY <1>1, <1>2, <1>4, <1>7, <3>1, <3>2 DEF LoopInv
  <2> QED BY <1>5, <1>6, <2>6, <2>7
<1>8. CASE p.kind = "while"
  <2>1. PICK h, q, s : h = 3 + Width(p.from) /\ q = h + 2 + Width(p.to) /\ s = q + 22 + Width(1)
    OBVIOUS
  <2>2. WhileLayout(p.from, p.to, h, q, s)
    BY <1>3, <1>8, <2>1, WhileProgram
  <2>3. /\ h \in 4 .. 5 /\ q \in Nat /\ s \in Nat /\ LabelAt("__while", 1) = h /\ LabelAt("__next", 1) = s + 6
        /\ LabelAt("__true", 2) = q + 6 /\ LabelAt("__next", 2) = q + 8
    BY <2>2, WhileLabels
  <2>4. h = HeadOf(p) /\ q = CompareOf(p) /\ s = AddOf(p)
    BY <2>1 DEF HeadOf, CompareOf, AddOf
  <2>5. InWhile(h, q, s)
    <3>1. InWhile(HeadOf(program), CompareOf(program), AddOf(program))
      BY <1>1, <1>2, <1>8 DEF LoopInv
    <3> QED BY <1>2, <2>4, <3>1, Zenon
  <2>6. \/ Refused
        \/ Kept /\ InWhile(h, q, s)'
        \/ Ended /\ AllRounds'
    <3>1. /\ program.kind = "while" /\ program.from \in Word /\ program.to \in Word /\ h \in Nat
          /\ WhileLayout(program.from, program.to, h, q, s)
      BY <1>2, <1>3, <1>8, <2>2, <2>3
    <3>2. program.to # AllOnes
      BY <1>2, <1>8 DEF LoopInv
    <3> QED BY <1>1, <2>3, <2>5, <3>1, <3>2, WhileStep
  <2>7. CASE Kept /\ InWhile(h, q, s)'
    <3>1. program' = program /\ code' = code /\ running' = running /\ Shape' /\ History'
      BY <2>7 DEF Kept
    <3>2. InWhile(HeadOf(program), CompareOf(program), AddOf(program))'
      <4>1. HeadOf(program)' = h /\ CompareOf(program)' = q /\ AddOf(program)' = s
        BY <1>2, <2>4, <3>1
      <4> QED BY <2>7, <4>1, Zenon
    <3> QED BY <1>1, <1>2, <1>4, <1>8, <3>1, <3>2 DEF LoopInv
  <2> QED BY <1>5, <1>6, <2>6, <2>7
<1> QED BY <1>3, <1>7, <1>8

LEMMA LoopStutter ==
  ASSUME LoopInv, UNCHANGED loop_vars
  PROVE  LoopInv'
<1>1. /\ program' = program /\ shown' = shown /\ code' = code /\ ip' = ip /\ reg' = reg /\ mem' = mem
      /\ store' = store /\ flags' = flags /\ running' = running
  BY DEF loop_vars, machine
<1>2. (Shape => Shape') /\ (History => History') /\ (AllRounds => AllRounds')
  BY <1>1 DEF Shape, History, AllRounds
<1>3. \A h : InStart(h) => InStart(h)'
  BY <1>1 DEF InStart, InLiteral, Between
<1>4. InFor(HeadOf(program), TestOf(program)) => InFor(HeadOf(program), TestOf(program))'
  BY <1>1, Zenon DEF InFor, InStart, InLiteral, InShow, InShown, BeforeRound, InRound, AfterDisplay, AllRounds, Between
<1>5. InWhile(HeadOf(program), CompareOf(program), AddOf(program)) => InWhile(HeadOf(program), CompareOf(program), AddOf(program))'
  BY <1>1, Zenon DEF InWhile, InStart, InLiteral, InShow, InShown, InCondition, Verdict, InIncrement,
                     BeforeRound, InRound, AfterDisplay, AllRounds, Between
<1> QED BY <1>1, <1>2, <1>4, <1>5, Zenon DEF LoopInv

\* Where a program with one loop is, and what it has displayed so far, at every
\* instruction of the code of statement_for_post_check, statement_while_post_check
\* and the calls around them.
THEOREM LoopInvariant ==
  ASSUME Kinds \subseteq {"for", "while"}
  PROVE  Spec => []LoopInv
<1>1. Init => LoopInv
  BY LoopInit
<1>2. LoopInv /\ [Next]_loop_vars => LoopInv'
  <2>1. SUFFICES ASSUME LoopInv, [Next]_loop_vars
                 PROVE  LoopInv'
    OBVIOUS
  <2>2. CASE Run
    BY <2>1, <2>2, LoopRun
  <2>3. CASE UNCHANGED loop_vars
    BY <2>1, <2>3, LoopStutter
  <2> QED BY <2>1, <2>2, <2>3 DEF Next, Stopped
<1> QED BY <1>1, <1>2, PTL DEF Spec

-----------------------------------------------------------------------------
(* What follows from the invariant *)

\* Where the program with FOR is, the stack of every iteration is that of the first one.
LEMMA ForPlaces ==
  ASSUME NEW h \in 4 .. 5, NEW d \in Nat, d >= h + 2, h = 3 + Width(program.from), InFor(h, d)
  PROVE  ip \in Nat /\ ip >= 1 /\ (ip = h => Between)
<1>1. Width(program.from) \in 1 .. 2
  BY WidthRange
<1>2. CASE InStart(h)
  <2>1. ip = 1 \/ ip = 2 \/ (Width(program.from) = 2 /\ ip = 3) \/ ip = h - 1
    BY <1>2 DEF InStart, InLiteral
  <2> QED BY ONLY <1>1, <2>1, h \in 4 .. 5, h = 3 + Width(program.from)
<1>3. CASE ip = h /\ Between
  BY ONLY <1>3, h \in 4 .. 5
<1>4. CASE InLiteral(h + 1, program.to, <<ReturnAddress>>)
  <2>1. ip = h + 1 \/ ip = h + 2
    <3>1. PICK k : k = h + 1
      OBVIOUS
    <3>2. ip = k \/ ip = k + 1
      BY <1>4, <3>1 DEF InLiteral
    <3> QED BY ONLY <3>1, <3>2, h \in 4 .. 5
  <2> QED BY ONLY <2>1, h \in 4 .. 5
<1>5. CASE ip \in d .. d + 16
  BY ONLY <1>5, h \in 4 .. 5, d \in Nat, d >= h + 2
<1>6. InShow(d + 3, Counter) => ip \in d .. d + 16
  <2>1. PICK k : k = d + 3
    OBVIOUS
  <2>2. InShow(k, Counter) => \/ ip = k \/ ip = k + 1 \/ ip = k + 2 \/ ip = k + 3 \/ ip = k + 4
                              \/ ip = k + 5 \/ ip = k + 6 \/ ip = k + 7
    BY DEF InShow
  <2> QED BY ONLY <2>1, <2>2, d \in Nat
<1>7. InShown(d + 3) => ip \in d .. d + 16
  <2>1. InShown(d + 3) => ip = (d + 3) + 8
    BY DEF InShown
  <2> QED BY ONLY <2>1, d \in Nat
<1>8. \/ InStart(h) \/ (ip = h /\ Between) \/ InLiteral(h + 1, program.to, <<ReturnAddress>>)
      \/ ip = d \/ ip = d + 1 \/ ip = d + 2 \/ InShow(d + 3, Counter) \/ InShown(d + 3)
      \/ ip = d + 12 \/ ip = d + 13 \/ ip = d + 14 \/ ip = d + 15 \/ ip = d + 16
  BY DEF InFor
<1>9. \/ InStart(h) \/ (ip = h /\ Between) \/ InLiteral(h + 1, program.to, <<ReturnAddress>>)
      \/ ip \in d .. d + 16
  BY ONLY <1>6, <1>7, <1>8, d \in Nat
<1> QED BY ONLY <1>2, <1>3, <1>4, <1>5, <1>9

LEMMA WhilePlaces ==
  ASSUME NEW h \in 4 .. 5, NEW q \in Nat, NEW s \in Nat, q >= h + 3, s >= q + 23,
         h = 3 + Width(program.from), InWhile(h, q, s)
  PROVE  ip \in Nat /\ ip >= 1 /\ (ip = h => Between)
<1>1. Width(program.from) \in 1 .. 2
  BY WidthRange
<1>2. CASE InStart(h)
  <2>1. ip = 1 \/ ip = 2 \/ (Width(program.from) = 2 /\ ip = 3) \/ ip = h - 1
    BY <1>2 DEF InStart, InLiteral
  <2> QED BY ONLY <1>1, <2>1, h \in 4 .. 5, h = 3 + Width(program.from)
<1>3. CASE ip = h /\ Between
  BY ONLY <1>3, h \in 4 .. 5
<1>4. CASE ip \in h + 1 .. s + 8
  BY ONLY <1>4, h \in 4 .. 5, s \in Nat
<1>5. InCondition(h + 1, q, Counter, program.to) => ip \in h + 1 .. s + 8
  <2>1. PICK k : k = h + 1
    OBVIOUS
  <2>2. InCondition(k, q, Counter, program.to) =>
          \/ ip = k \/ ip = k + 1 \/ ip = k + 1 + 1 \/ ip = q \/ ip = q + 1 \/ ip = q + 2 \/ ip = q + 3 \/ ip = q + 4
          \/ ip = q + 5 \/ ip = q + 6 \/ ip = q + 7 \/ ip = q + 8 \/ ip = q + 9 \/ ip = q + 10 \/ ip = q + 11
    BY DEF InCondition, InLiteral
  <2> QED BY ONLY <2>1, <2>2, h \in 4 .. 5, q \in Nat, s \in Nat, q >= h + 3, s >= q + 23
<1>6. InShow(q + 12, Counter) => ip \in h + 1 .. s + 8
  <2>1. PICK k : k = q + 12
    OBVIOUS
  <2>2. InShow(k, Counter) => \/ ip = k \/ ip = k + 1 \/ ip = k + 2 \/ ip = k + 3 \/ ip = k + 4
                              \/ ip = k + 5 \/ ip = k + 6 \/ ip = k + 7
    BY DEF InShow
  <2> QED BY ONLY <2>1, <2>2, h \in 4 .. 5, q \in Nat, s \in Nat, q >= h + 3, s >= q + 23
<1>7. InShown(q + 12) => ip \in h + 1 .. s + 8
  <2>1. InShown(q + 12) => ip = (q + 12) + 8
    BY DEF InShown
  <2> QED BY ONLY <2>1, h \in 4 .. 5, q \in Nat, s \in Nat, q >= h + 3, s >= q + 23
<1>8. InIncrement(q + 21, s, Counter) => ip \in h + 1 .. s + 8
  <2>1. PICK k : k = q + 21
    OBVIOUS
  <2>2. InIncrement(k, s, Counter) =>
          \/ ip = k \/ ip = k + 1 \/ ip = k + 1 + 1 \/ ip = s \/ ip = s + 1 \/ ip = s + 2 \/ ip = s + 3 \/ ip = s + 4
    BY DEF InIncrement, InLiteral
  <2> QED BY ONLY <2>1, <2>2, h \in 4 .. 5, q \in Nat, s \in Nat, q >= h + 3, s >= q + 23
<1>9. \/ InStart(h) \/ (ip = h /\ Between) \/ InCondition(h + 1, q, Counter, program.to) \/ InShow(q + 12, Counter)
      \/ InShown(q + 12) \/ InIncrement(q + 21, s, Counter) \/ ip = s + 5 \/ ip = s + 6 \/ ip = s + 7 \/ ip = s + 8
  BY DEF InWhile
<1>10. ip \in {s + 5, s + 6, s + 7, s + 8} => ip \in h + 1 .. s + 8
  BY ONLY h \in 4 .. 5, q \in Nat, s \in Nat, q >= h + 3, s >= q + 23
<1> QED BY ONLY <1>2, <1>3, <1>4, <1>5, <1>6, <1>7, <1>8, <1>9, <1>10

\* Whatever its bounds, a loop whose body displays its counter leaves the stack as it
\* found it in every iteration: what parse_for_statement and parse_while_statement
\* write, and the DISPLAY in it, pops what it pushes.
THEOREM LoopsKeepTheStack ==
  ASSUME Kinds \subseteq {"for", "while"}
  PROVE  Spec => []IterationsKeepTheStack
<1>1. ASSUME LoopInv
      PROVE  IterationsKeepTheStack
  <2>1. SUFFICES ASSUME Runs({"label"}), Current.src \in {"__for", "__while"}
                 PROVE  Between
    BY DEF IterationsKeepTheStack, Between
  <2>2. running = "running" /\ ip <= Len(code) /\ code[ip].op = "label" /\ code[ip].src \in {"__for", "__while"}
    BY <2>1 DEF Runs, Current
  <2>3. PICK p : p = program
    OBVIOUS
  <2>4. p.kind \in {"for", "while"} /\ p.from \in Word /\ p.to \in Word /\ code = CodeOf(p)
    BY <1>1, <2>3 DEF LoopInv
  <2>5. Len(code) \in Nat => (ip \in Nat /\ ip >= 1 => ip \in 1 .. Len(code))
    BY <2>2
  <2>6. Width(p.from) \in 1 .. 2 /\ Width(p.to) \in 1 .. 2 /\ Width(1) \in 1 .. 2
    BY WidthRange
  <2>7. CASE p.kind = "for"
    <3>1. PICK h, d : h = 3 + Width(p.from) /\ d = h + 1 + Width(p.to)
      OBVIOUS
    <3>2. ForLayout(p.from, p.to, h, d)
      BY <2>4, <2>7, <3>1, ForProgram
    <3>3. h \in 4 .. 5 /\ d \in Nat /\ \A k \in 1 .. Len(code) : code[k].op = "label" => k \in {h, d + 14}
      BY <3>2, ForLabels
    <3>4. d >= h + 2
      BY ONLY <2>6, <3>1, <3>3
    <3>5. InFor(h, d)
      <4>1. InFor(HeadOf(program), TestOf(program))
        BY <1>1, <2>2, <2>3, <2>7 DEF LoopInv
      <4>2. h = HeadOf(p) /\ d = TestOf(p)
        BY <3>1 DEF HeadOf, TestOf
      <4> QED BY <2>3, <4>1, <4>2, Zenon
    <3>6. ip \in Nat /\ ip >= 1 /\ (ip = h => Between)
      BY <2>3, <3>1, <3>3, <3>4, <3>5, ForPlaces
    <3>7. Len(code) = d + 16 /\ code[d + 14] = Tag("label", "__next", 1)
      BY <3>2 DEF ForLayout
    <3>8. ip \in 1 .. Len(code)
      <4>1. Len(code) \in Nat
        BY ONLY <3>3, <3>7
      <4> QED BY <2>5, <3>6, <4>1
    <3>9. ip = h \/ ip = d + 14
      BY <2>2, <3>3, <3>8
    <3>10. ip # d + 14
      <4>1. code[d + 14].src = "__next"
        BY ONLY <3>7 DEF Tag
      <4> QED BY ONLY <2>2, <4>1
    <3> QED BY <3>6, <3>9, <3>10
  <2>8. CASE p.kind = "while"
    <3>1. PICK h, q, s : h = 3 + Width(p.from) /\ q = h + 2 + Width(p.to) /\ s = q + 22 + Width(1)
      OBVIOUS
    <3>2. WhileLayout(p.from, p.to, h, q, s)
      BY <2>4, <2>8, <3>1, WhileProgram
    <3>3. /\ h \in 4 .. 5 /\ q \in Nat /\ s \in Nat
          /\ \A k \in 1 .. Len(code) : code[k].op = "label" => k \in {h, q + 6, q + 8, s + 6}
      BY <3>2, WhileLabels
    <3>4. q >= h + 3 /\ s >= q + 23
      <4>1. PICK b, c : b = Width(p.to) /\ c = Width(1)
        OBVIOUS
      <4>2. b \in 1 .. 2 /\ c \in 1 .. 2 /\ q = h + 2 + b /\ s = q + 22 + c
        BY ONLY <2>6, <3>1, <4>1
      <4>3. h \in 4 .. 5 /\ q \in Nat /\ s \in Nat
        BY ONLY <3>3
      <4> QED BY ONLY <4>2, <4>3
    <3>5. InWhile(h, q, s)
      <4>1. InWhile(HeadOf(program), CompareOf(program), AddOf(program))
        BY <1>1, <2>2, <2>3, <2>8 DEF LoopInv
      <4>2. h = HeadOf(p) /\ q = CompareOf(p) /\ s = AddOf(p)
        BY <3>1 DEF HeadOf, CompareOf, AddOf
      <4> QED BY <2>3, <4>1, <4>2, Zenon
    <3>6. ip \in Nat /\ ip >= 1 /\ (ip = h => Between)
      BY <2>3, <3>1, <3>3, <3>4, <3>5, WhilePlaces
    <3>7. /\ Len(code) = s + 8 /\ code[s + 6] = Tag("label", "__next", 1)
          /\ code[q + 6] = Tag("label", "__true", 2) /\ code[q + 8] = Tag("label", "__next", 2)
      <4>1. ConditionCode(h + 1, q, Counter, p.to, 2, 1)
        BY <3>2 DEF WhileLayout
      <4> QED BY <3>2, <4>1 DEF WhileLayout, ConditionCode
    <3>8. ip \in 1 .. Len(code)
      <4>1. Len(code) \in Nat
        BY ONLY <3>3, <3>7
      <4> QED BY <2>5, <3>6, <4>1
    <3>9. ip \in {h, q + 6, q + 8, s + 6}
      BY <2>2, <3>3, <3>8
    <3>10. ip \notin {q + 6, q + 8, s + 6}
      <4>1. code[s + 6].src = "__next" /\ code[q + 6].src = "__true" /\ code[q + 8].src = "__next"
        BY ONLY <3>7 DEF Tag
      <4> QED BY ONLY <2>2, <4>1
    <3>11. ip = h
      BY ONLY <3>9, <3>10
    <3> QED BY <3>6, <3>11
  <2> QED BY <2>4, <2>7, <2>8
<1>2. Spec => []LoopInv
  BY LoopInvariant
<1> QED BY <1>1, <1>2, PTL

\* Where a loop counts, what it displays is its range.
LEMMA ShowsItsRange ==
  ASSUME LoopInv, Countable(program), Kinds \subseteq {"for", "while"}
  PROVE  LoopsVisitTheirRange
<1>1. PICK f, e, n, r : f = program.from /\ e = program.to /\ n = Len(shown) /\ r = Rounds(program)
  OBVIOUS
<1>2. /\ f \in Word /\ e \in Word /\ program.kind \in {"for", "while"}
      /\ shown \in Seq(Word) /\ n \in Nat /\ n <= r /\ \A i \in 1 .. n : shown[i] = Wrap(f + i - 1)
  <2>1. program.kind \in Kinds /\ program.from \in Word /\ program.to \in Word /\ History
    BY DEF LoopInv
  <2>2. /\ shown \in Seq(Word) /\ Len(shown) <= Rounds(program)
        /\ \A i \in 1 .. Len(shown) : shown[i] = Wrap(program.from + i - 1)
    BY <2>1 DEF History
  <2>3. n \in Nat /\ n <= r
    BY <1>1, <2>2
  <2>4. \A i \in 1 .. n : shown[i] = Wrap(f + i - 1)
    BY ONLY <1>1, <2>2
  <2> QED BY <1>1, <2>1, <2>2, <2>3, <2>4
<1>3. r = (IF f > e THEN 0 ELSE e - f + 1) /\ f \in Nat /\ e \in Nat /\ e < Modulus /\ Modulus \in Nat
  BY <1>1, <1>2, WordFacts DEF Rounds
<1>4. r \in Nat
  BY ONLY <1>3
<1>5. PICK t : t = UpTo(f, e)
  OBVIOUS
<1>6. t \in Seq(Word) /\ Len(t) = r /\ \A i \in 1 .. r : t[i] = f + i - 1
  <2>1. t = [i \in 1 .. r |-> f + i - 1]
    BY <1>3, <1>5 DEF UpTo
  <2>2. \A i \in 1 .. r : f + i - 1 \in Word
    <3>1. \A i \in 1 .. r : f + i - 1 \in 0 .. Modulus - 1
      BY ONLY <1>3, <1>4
    <3> QED BY <3>1 DEF Word
  <2> QED BY ONLY <1>4, <2>1, <2>2
<1>7. \A i \in 1 .. n : shown[i] = t[i]
  <2>1. SUFFICES ASSUME NEW i \in 1 .. n
                 PROVE  shown[i] = t[i]
    OBVIOUS
  <2>2. i \in 1 .. r
    BY ONLY <1>2, <1>4, i \in 1 .. n
  <2>3. PICK x : x = f + i - 1
    OBVIOUS
  <2>4. x \in Nat /\ x < Modulus
    BY ONLY <1>3, <2>2, <2>3
  <2>5. Wrap(x) = x
    BY <2>4, WordFacts
  <2>6. shown[i] = Wrap(x)
    BY ONLY <1>2, <2>3, i \in 1 .. n
  <2>7. t[i] = x
    BY ONLY <1>6, <2>2, <2>3
  <2> QED BY ONLY <2>5, <2>6, <2>7
<1>8. shown \in Seq(Word)
  BY <1>2
<1>9. IsPrefix(shown, t)
  <2>1. Len(shown) <= Len(t)
    BY <1>1, <1>2, <1>6
  <2>2. PICK a, b : a = SubSeq(shown, 1, n) /\ b = SubSeq(t, 1, n)
    OBVIOUS
  <2>3. a \in Seq(Word) /\ Len(a) = n /\ \A i \in 1 .. n : a[i] = shown[i]
    BY <1>1, <1>2, <1>8, <2>2
  <2>4. b \in Seq(Word) /\ Len(b) = n /\ \A i \in 1 .. n : b[i] = t[i]
    BY ONLY <1>2, <1>4, <1>6, <2>2
  <2>5. a = b
    <3>1. Len(a) = Len(b) /\ \A i \in 1 .. Len(a) : a[i] = b[i]
      BY ONLY <1>7, <2>3, <2>4
    <3> QED BY <2>3, <2>4, <3>1, SeqEqual, Zenon
  <2> QED BY <1>1, <2>1, <2>2, <2>5 DEF IsPrefix
<1>10. running = "returned" => shown = t
  <2>1. SUFFICES ASSUME running = "returned"
                 PROVE  shown = t
    OBVIOUS
  <2>2. n = r
    BY <1>1, <2>1 DEF LoopInv, AllRounds
  <2>3. Len(shown) = Len(t) /\ \A i \in 1 .. Len(shown) : shown[i] = t[i]
    BY <1>1, <1>6, <1>7, <2>2
  <2> QED BY <1>6, <1>8, <2>3, SeqEqual, Zenon
<1>11. Meant(program) = t
  BY <1>1, <1>2, <1>5 DEF Meant
<1> QED BY <1>9, <1>10, <1>11 DEF LoopsVisitTheirRange

\* A FOR whose bounds are on the same side of the largest signed number, and whose second
\* one is not that number, and any WHILE that can end, run their bodies once for each value
\* from the first bound to the second one, in order.
THEOREM LoopsCount ==
  ASSUME Kinds \subseteq {"for", "while"},
         \A b \in Bounds : "for" \in Kinds => (b[1] < Half <=> b[2] < Half) /\ b[2] # Half - 1
  PROVE  Spec => []LoopsVisitTheirRange
<1>1. ASSUME LoopInv
      PROVE  LoopsVisitTheirRange
  <2>1. Countable(program)
    <3>1. /\ program.kind \in Kinds /\ <<program.from, program.to>> \in Bounds
          /\ program.kind = "while" => program.to # AllOnes
      BY <1>1 DEF LoopInv
    <3>2. CASE program.kind = "for"
      <4>1. PICK b : b = <<program.from, program.to>>
        OBVIOUS
      <4>2. b \in Bounds /\ b[1] = program.from /\ b[2] = program.to
        BY <3>1, <4>1
      <4> QED BY <3>1, <3>2, <4>2 DEF Countable
    <3>3. CASE program.kind = "while"
      BY <3>1, <3>3 DEF Countable
    <3> QED BY <3>1, <3>2, <3>3
  <2> QED BY <1>1, <2>1, ShowsItsRange
<1>2. Spec => []LoopInv
  BY LoopInvariant
<1> QED BY <1>1, <1>2, PTL
=============================================================================
