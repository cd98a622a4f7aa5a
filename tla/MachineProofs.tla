---------------------------- MODULE MachineProofs ----------------------------
(***************************************************************************)
(* Proofs about the generated code on the processor: the code of doubles,  *)
(* conversions and calls of functions, and what the code of each call      *)
(* leaves on the stack, in the variables and in the registers, for all     *)
(* words, variables, functions and programs.                               *)
(***************************************************************************)
EXTENDS InstructionProofs

(***************************************************************************)
(* Doubles: the operands go to the x87 stack.                              *)
(***************************************************************************)
LEMMA DoubleShapes ==
  ASSUME IInv, Within, DoubleBinop
  PROVE  /\ op.call # "none" /\ Expects(op) = <<DOUBLE, DOUBLE>> /\ Len(Expects(op)) = 2 /\ ~Callers
         /\ Len(Leaves(op)) = 1 /\ (op.call \in Sums => Leaves(op) = <<DOUBLE>>) /\ op.type = DOUBLE
         /\ op.call \notin {"function_call_param", "store_variable", "store_value_to_pointer"}
         /\ A(1).type = DOUBLE /\ A(2).type = DOUBLE /\ Popped[1] = V(1) /\ Popped[2] = V(2)
         /\ ip \in 1 .. Len(Code(op)) /\ code = Code(op) /\ MachineTyped /\ Slots
<1>1. /\ op.call # "none" /\ ~Callers /\ op.call \notin {"function_call_param", "store_variable", "store_value_to_pointer"}
      /\ op.type = DOUBLE
  BY DEF Callers, Compares, Sums, DoubleBinop
<1>2. Slots /\ ip \in 1 .. Len(Code(op)) /\ code = Code(op) /\ MachineTyped
  BY <1>1, Facts
<1>3. /\ Expects(op) = <<DOUBLE, DOUBLE>> /\ Leaves(op) \in {<<DOUBLE>>, <<BOOL>>}
      /\ op.call \in Sums => Leaves(op) = <<DOUBLE>>
  <2>1. CASE op.call \in Compares
    BY <1>1, <2>1, Shapes DEF Compares, Sums
  <2>2. CASE op.call \in Sums
    BY <1>1, <2>2, Shapes DEF Sums, ArithmeticCalls
  <2> QED BY <2>1, <2>2 DEF DoubleBinop
<1>4. /\ Len(<<DOUBLE, DOUBLE>>) = 2 /\ Len(<<DOUBLE>>) = 1 /\ Len(<<BOOL>>) = 1
      /\ <<DOUBLE, DOUBLE>>[1] = DOUBLE /\ <<DOUBLE, DOUBLE>>[2] = DOUBLE
  OBVIOUS
<1>5. A(1).type = DOUBLE /\ A(2).type = DOUBLE /\ Popped[1] = V(1) /\ Popped[2] = V(2)
  BY <1>2, <1>3, <1>4 DEF Slots, Popped
<1> QED BY <1>1, <1>2, <1>3, <1>4, <1>5

LEMMA DoublePoints ==
  ASSUME Same, DoubleBinop, ip' \in 2 .. 4 \/ (op.call \in Sums /\ ip' \in 2 .. 6), AtDoubles'
  PROVE  Points'
<1>1. op' = op
  BY DEF Same
<1>2. CASE op.call \in Sums
  BY <1>2, OnlyPoints DEF DoubleBinop
<1>3. CASE op.call \in Compares
  <2>1. ip' \in 2 .. 4
    BY <1>3 DEF Compares, Sums
  <2>2. AtCompares'
    BY <1>1, <2>1 DEF AtCompares, Branch, DoubleBinop
  <2> QED BY <1>3, <2>1, <2>2, OnlyPoints DEF DoubleBinop
<1> QED BY <1>2, <1>3 DEF DoubleBinop

LEMMA DoubleCode ==
  ASSUME NEW o, o.call \in Sums \cup Compares, o.type = DOUBLE
  PROVE  /\ Len(Code(o)) >= 6
         /\ Code(o)[1] = Ins("fldl", "(%rsp)", NoName) /\ Code(o)[2] = Ins("fldl", "8(%rsp)", NoName)
         /\ Code(o)[3] = Imm("addq", 2, "rsp")
<1>1. CASE o.call \in Sums
  <2>1. Len(Code(o)) = 6
    BY <1>1, CodeOfDoubles, Zenon
  <2> QED BY <1>1, <2>1, CodeOfDoubles
<1>2. CASE o.call \in Compares
  <2>1. Len(Code(o)) = 11
    BY <1>2, CodeOfDoubleComparison, Zenon
  <2> QED BY <1>2, <2>1, CodeOfDoubleComparison
<1> QED BY <1>1, <1>2

LEMMA LoadDoubles ==
  ASSUME IInv, Within, Execute, Same, DoubleBinop, ip \in {1, 2, 3}
  PROVE  IInv'
<1>1. /\ op.call # "none" /\ Expects(op) = <<DOUBLE, DOUBLE>> /\ Len(Expects(op)) = 2 /\ ~Callers
      /\ A(1).type = DOUBLE /\ A(2).type = DOUBLE /\ MachineTyped /\ Slots
  BY DoubleShapes
<1>2. /\ Len(Code(op)) >= 6
      /\ Code(op)[1] = Ins("fldl", "(%rsp)", NoName) /\ Code(op)[2] = Ins("fldl", "8(%rsp)", NoName)
      /\ Code(op)[3] = Imm("addq", 2, "rsp")
  BY DoubleCode DEF DoubleBinop
<1>3. op' = op /\ DoubleBinop' /\ V(1)' = V(1) /\ V(2)' = V(2)
  BY SameCall DEF Same
<1>4. CASE ip = 1
  <2>1. Current = Ins("fldl", "(%rsp)", NoName)
    BY <1>1, <1>2, <1>4, Facts
  <2>2. Left(2) /\ st = <<>>
    BY <1>1, <1>4, Facts DEF Points, AtStart
  <2>3. Len(mem) >= 2 /\ Represents(A(2), mem[Len(mem)])
    BY <1>1, <2>2, LeftTop
  <2>4. V(2) = mem[Len(mem)] /\ V(2) \in Word
    BY <1>1, <2>3, TypeNumbers, Meant DEF V
  <2>5. /\ Advances /\ UNCHANGED <<reg, mem, store, flags>> /\ MachineTyped'
        /\ st' = <<mem[Len(mem) - 0]>> \o st
    BY <1>1, <2>1, <2>3, RunLoadDouble
  <2>6. st' = <<V(2)>>
    BY <2>2, <2>4, <2>5, Pairs
  <2>7. Left(2)' /\ ip' = 2
    BY <1>4, <2>2, <2>5, LeftStays DEF Advances, Advance
  <2>8. AtDoubles'
    BY <1>3, <2>6, <2>7 DEF AtDoubles
  <2>9. Points'
    BY <2>7, <2>8, DoublePoints
  <2> QED BY <1>1, <1>2, <1>4, <2>5, <2>9, InnerStep, UndisturbedIf
<1>5. CASE ip = 2
  <2>1. Current = Ins("fldl", "8(%rsp)", NoName)
    BY <1>1, <1>2, <1>5, Facts
  <2>2. Left(2) /\ st = <<V(2)>>
    BY <1>1, <1>5, Facts DEF Points, AtDoubles
  <2>3. Len(mem) >= 2 /\ Represents(A(2), mem[Len(mem)]) /\ Represents(A(1), mem[Len(mem) - 1])
    BY <1>1, <2>2, LeftTop
  <2>4. V(1) = mem[Len(mem) - 1] /\ V(1) \in Word /\ V(2) \in Word
    BY <1>1, <2>3, TypeNumbers, Meant DEF V
  <2>5. /\ Advances /\ UNCHANGED <<reg, mem, store, flags>> /\ MachineTyped'
        /\ st' = <<mem[Len(mem) - 1]>> \o st
    BY <1>1, <2>1, <2>3, RunLoadDouble
  <2>6. st' = <<V(1), V(2)>>
    BY <2>2, <2>4, <2>5, Pairs
  <2>7. Left(2)' /\ ip' = 3
    BY <1>5, <2>2, <2>5, LeftStays DEF Advances, Advance
  <2>8. AtDoubles'
    BY <1>3, <2>6, <2>7 DEF AtDoubles
  <2>9. Points'
    BY <2>7, <2>8, DoublePoints
  <2> QED BY <1>1, <1>2, <1>5, <2>5, <2>9, InnerStep, UndisturbedIf
<1>6. CASE ip = 3
  <2>1. Current = Imm("addq", 2, "rsp")
    BY <1>1, <1>2, <1>6, Facts
  <2>2. Left(2) /\ st = <<V(1), V(2)>>
    BY <1>1, <1>6, Facts DEF Points, AtDoubles
  <2>3. Len(mem) = 1 + Base + 2 /\ Base \in Nat
    BY <1>1, <2>2, LeftTop DEF Slots
  <2>4. Advances /\ UNCHANGED <<reg, store, st, flags>> /\ MachineTyped' /\ Shrinks(2)
    BY <1>1, <2>1, <2>3, RunDropWords
  <2>5. Left(0)'
    BY <1>1, <2>2, <2>4, LeftPops
  <2>6. ip' = 4 /\ st' = <<V(1), V(2)>>
    BY <1>6, <2>2, <2>4 DEF Advances, Advance
  <2>8. AtDoubles'
    BY <1>3, <2>5, <2>6 DEF AtDoubles
  <2>9. Points'
    BY <2>6, <2>8, DoublePoints
  <2> QED BY <1>1, <1>2, <1>6, <2>4, <2>9, InnerStep, UndisturbedIf
<1> QED BY <1>4, <1>5, <1>6

LEMMA DoubleSigns ==
  ASSUME NEW c \in Sums
  PROVE  /\ DoubleInstruction(c) \in {"faddp", "fsubp", "fmulp", "fdivp"}
         /\ X87Sign[DoubleInstruction(c)] = Was!Sign[c]
BY DEF Sums, DoubleInstruction, X87Sign, Was!Sign

\* The values of the operands on the x87 stack are words.
LEMMA DoubleWords ==
  ASSUME MachineTyped, st = <<V(1), V(2)>>
  PROVE  V(1) \in Word /\ V(2) \in Word
<1>1. st[1] \in Word /\ st[2] \in Word
  BY DEF MachineTyped
<1> QED BY <1>1

LEMMA ComputeDoubles ==
  ASSUME IInv, Within, Execute, Same, DoubleBinop, op.call \in Sums, ip \in {4, 5, 6}
  PROVE  IInv'
<1> DEFINE r == DoubleOp(Was!Sign[op.call], V(1), V(2))
<1>1. /\ op.call # "none" /\ ~Callers /\ MachineTyped /\ Slots /\ op.type = DOUBLE
      /\ op.call \notin {"function_call_param", "store_variable", "store_value_to_pointer"}
      /\ Leaves(op) = <<DOUBLE>> /\ Len(Leaves(op)) = 1 /\ Popped[1] = V(1) /\ Popped[2] = V(2)
  BY DoubleShapes
<1>2. /\ Len(Code(op)) = 6 /\ Code(op)[4] = Ins(DoubleInstruction(op.call), NoName, NoName)
      /\ Code(op)[5] = Imm("addq", -1, "rsp") /\ Code(op)[6] = Ins("fstpl", NoName, "(%rsp)")
  BY <1>1, CodeOfDoubles, Zenon
<1>3. op' = op /\ DoubleBinop' /\ V(1)' = V(1) /\ V(2)' = V(2) /\ Base' = Base /\ Base \in Nat
  BY <1>1, SameCall DEF Same, Slots
<1>4. r' = r /\ r \in Word
  BY <1>3, DoubleOpWord
<1> HIDE DEF r
<1>5. CASE ip = 4
  <2>1. Current = Ins(DoubleInstruction(op.call), NoName, NoName)
    BY <1>1, <1>2, <1>5, Facts
  <2>2. Left(0) /\ st = <<V(1), V(2)>>
    BY <1>1, <1>5, Facts DEF Points, AtDoubles
  <2>3. V(1) \in Word /\ V(2) \in Word
    BY <1>1, <2>2, DoubleWords
  <2>4. PICK i : i = DoubleInstruction(op.call)
    OBVIOUS
  <2>5. i \in {"faddp", "fsubp", "fmulp", "fdivp"} /\ X87Sign[i] = Was!Sign[op.call]
    BY <2>4, DoubleSigns
  <2>6. /\ Advances /\ UNCHANGED <<reg, mem, store, flags>> /\ MachineTyped'
        /\ st' = <<DoubleOp(X87Sign[i], V(1), V(2))>>
    BY <1>1, <2>1, <2>2, <2>3, <2>4, <2>5, RunArithmetic
  <2>7. Left(0)' /\ ip' = 5 /\ st' = <<r>>
    BY <1>5, <2>2, <2>5, <2>6, LeftStays DEF Advances, Advance, r
  <2>8. AtDoubles'
    BY <1>3, <1>4, <2>7 DEF AtDoubles, r
  <2>9. Points'
    BY <2>7, <2>8, DoublePoints
  <2> QED BY <1>1, <1>2, <1>5, <2>6, <2>9, InnerStep, UndisturbedIf
<1>6. CASE ip = 5
  <2>1. Current = Imm("addq", -1, "rsp")
    BY <1>1, <1>2, <1>6, Facts
  <2>2. Left(0) /\ st = <<r>>
    BY <1>1, <1>6, Facts DEF Points, AtDoubles, r
  <2>3. /\ Advances /\ UNCHANGED <<reg, store, st, flags>> /\ MachineTyped'
        /\ Keeps(Len(mem)) /\ Len(mem') = Len(mem) + 1
    BY <1>1, <2>1, RunMakeRoom
  <2>4. Pushed1'
    BY <1>1, <2>2, <2>3, LeftPushes
  <2>5. ip' = 6 /\ st' = <<r>>
    BY <1>6, <2>2, <2>3 DEF Advances, Advance
  <2>6. AtDoubles'
    BY <1>3, <1>4, <2>4, <2>5 DEF AtDoubles, r
  <2>7. Points'
    BY <1>1, <2>5, <2>6, DoublePoints
  <2> QED BY <1>1, <1>2, <1>6, <2>3, <2>7, InnerStep, UndisturbedIf
<1>7. CASE ip = 6
  <2>1. Current = Ins("fstpl", NoName, "(%rsp)")
    BY <1>1, <1>2, <1>7, Facts
  <2>2. Pushed1 /\ st = <<r>>
    BY <1>1, <1>7, Facts DEF Points, AtDoubles, r
  <2>3. Len(mem) = 2 + Base
    BY <2>2 DEF Pushed1
  <2>4. /\ Advances /\ UNCHANGED <<reg, store, flags>> /\ MachineTyped' /\ st' = <<>>
        /\ Keeps(Len(mem) - 1) /\ Len(mem') = Len(mem)
        /\ mem'[Len(mem)] = IF "fstpl" = "fstpl" THEN r ELSE IF r = NaN THEN Half ELSE Wrap(Real(r))
    BY <1>1, <1>3, <1>4, <2>1, <2>2, <2>3, RunStoreDouble
  <2>5. Intact(Base)'
    <3>1. Intact(Base) /\ Base < Len(mem) - 1 /\ Len(mem) - 1 \in Nat /\ before' = before
      BY <1>3, <2>2, <2>3 DEF Pushed1, Same
    <3>2. Intact(Base)' = Intact(Base)'
      OBVIOUS
    <3>3. PICK n : n = Base
      OBVIOUS
    <3>4. Intact(n)'
      BY <1>3, <2>4, <3>1, <3>3, IntactStays
    <3> QED BY <1>3, <3>3, <3>4
  <2>6. Top' = r
    BY <1>3, <2>3, <2>4 DEF Top
  <2>7. Sound(DOUBLE, r)
    BY <1>4, TypeNumbers DEF Sound
  <2>8. \E v \in Was!Values(op, Popped) : Denotes(DOUBLE, r) = Was!Kept(DOUBLE, v)
    <3>1. Was!Values(op, Popped) = {r}
      BY <1>1, ValuesOf DEF r, Sums, ArithmeticCalls
    <3>2. Denotes(DOUBLE, r) = r /\ Was!Kept(DOUBLE, r) = r
      BY TypeNumbers, WasNames DEF Denotes, Was!Kept
    <3> QED BY <3>1, <3>2
  <2>9. Yields'
    BY <1>1, <2>6, <2>7, <2>8, YieldsIf
  <2>10. Len(mem') = 1 + Base + Len(Leaves(op))
    BY <1>1, <1>3, <2>3, <2>4
  <2> QED BY <1>1, <1>2, <1>7, <2>4, <2>5, <2>9, <2>10, LastStep, UndisturbedIf
<1> QED BY <1>5, <1>6, <1>7

LEMMA RealInt == \A w \in Word : Real(w) \in Int
BY RealBound

LEMMA Singleton ==
  ASSUME NEW S, NEW s \in Seq(S), Len(s) = 1
  PROVE  s[1] \in S /\ s = <<s[1]>>
<1>1. s[1] \in S
  OBVIOUS
<1> DEFINE t == <<s[1]>>
<1>2. t \in Seq(S) /\ Len(t) = 1 /\ t[1] = s[1]
  BY <1>1
<1>3. \A i \in 1 .. Len(s) : s[i] = t[i]
  BY <1>2
<1>5. \A a \in Seq(S), b \in Seq(S) : Len(a) = Len(b) /\ (\A i \in 1 .. Len(a) : a[i] = b[i]) => a = b
  OBVIOUS
<1> HIDE DEF t
<1>4. s = t
  BY <1>2, <1>3, <1>5
<1> QED BY <1>1, <1>4 DEF t

LEMMA CompareDoubles ==
  ASSUME IInv, Within, Execute, Same, op.call \in Compares, op.type = DOUBLE, ip \in {4, 5}
  PROVE  IInv'
<1>1. DoubleBinop
  BY DEF DoubleBinop
<1>2. op.call # "none" /\ ~Callers /\ MachineTyped /\ Slots
  BY <1>1, DoubleShapes
<1>3. Len(Code(op)) = 11 /\ Code(op)[4] = Ins("fcomip", NoName, NoName) /\ Code(op)[5] = Ins("fstp", NoName, NoName)
  BY CodeOfDoubleComparison, Zenon
<1>4. op' = op /\ DoubleBinop' /\ Branch' = 6 /\ Branch = 6 /\ \A k : Maybe(k)' = Maybe(k)
  BY <1>1, SameCall DEF Same, Branch
<1>5. CASE ip = 4
  <2>1. Current = Ins("fcomip", NoName, NoName)
    BY <1>2, <1>3, <1>5, Facts
  <2>2. Left(0) /\ st = <<V(1), V(2)>>
    BY <1>1, <1>2, <1>5, Facts DEF Points, AtDoubles
  <2>3. V(1) \in Word /\ V(2) \in Word
    BY <1>2, <2>2, DoubleWords
  <2>4. /\ Advances /\ UNCHANGED <<reg, mem, store>> /\ MachineTyped' /\ st' = <<V(2)>>
        /\ \/ NaN \in {V(1), V(2)}
           \/ flags'.zf = (Real(V(1)) = Real(V(2))) /\ flags'.cf = (Real(V(1)) < Real(V(2)))
    BY <1>2, <2>1, <2>2, <2>3, RunCompareDoubles
  <2>5. Decides'
    <3>1. CASE NaN \in {V(1), V(2)}
      <4>1. Was!Compared(op.call, op.type, V(1), V(2)) = {0, 1}
        BY <3>1, WasNames DEF Was!Compared
      <4>2. Maybe(0)' /\ Maybe(1)'
        BY <1>4, <4>1 DEF Maybe
      <4> QED BY <4>2 DEF Decides
    <3>2. CASE NaN \notin {V(1), V(2)}
      <4>1. Was!Compared(op.call, op.type, V(1), V(2)) = {IF Was!Holds(op.call, Real(V(1)), Real(V(2))) THEN 1 ELSE 0}
        BY <3>2, WasNames DEF Was!Compared
      <4>2. (flags'.zf <=> Real(V(1)) = Real(V(2))) /\ (flags'.cf <=> Real(V(1)) < Real(V(2)))
        BY <2>4, <3>2
      <4>3. Real(V(1)) \in Int /\ Real(V(2)) \in Int
        BY <2>3, RealInt
      <4> HIDE DEF Real
      <4> QED BY <4>1, <4>2, <4>3, DecidesIf
    <3> QED BY <3>1, <3>2
  <2>6. Left(0)' /\ ip' = 5 /\ Len(st') = 1
    BY <1>5, <2>2, <2>4, LeftStays DEF Advances, Advance
  <2>7. AtCompares'
    BY <1>4, <2>5, <2>6 DEF AtCompares
  <2>8. AtDoubles'
    BY <1>4, <2>6 DEF AtDoubles, Compares, Sums
  <2>9. Points'
    BY <2>6, <2>7, <2>8, OnlyPoints
  <2> QED BY <1>2, <1>3, <1>5, <2>4, <2>9, InnerStep, UndisturbedIf
<1>6. CASE ip = 5
  <2>1. Current = Ins("fstp", NoName, NoName)
    BY <1>2, <1>3, <1>6, Facts
  <2>2. Left(0) /\ Len(st) = 1 /\ Decides
    BY <1>2, <1>6, Facts DEF Points, AtCompares
  <2>3. st[1] \in Word /\ st = <<st[1]>>
    <3>1. st \in Seq(Word) /\ Len(st) = 1
      BY <1>2, <2>2 DEF MachineTyped
    <3> QED BY <3>1, Singleton
  <2>4. /\ Advances /\ UNCHANGED <<reg, mem, store, flags>> /\ MachineTyped' /\ st' = <<>>
    BY <1>2, <2>1, <2>3, RunClear
  <2>5. Taken(JumpIf[op.call])' <=> Taken(JumpIf[op.call])
    BY <1>4, <2>4 DEF Taken
  <2>6. Decides'
    BY <1>4, <2>2, <2>5 DEF Decides
  <2>7. Left(0)' /\ ip' = 6
    BY <1>6, <2>2, <2>4, LeftStays DEF Advances, Advance
  <2>8. AtCompares'
    BY <1>4, <2>4, <2>6, <2>7 DEF AtCompares
  <2>9. Points'
    BY <1>4, <2>7, <2>8, ComparePoints
  <2> QED BY <1>2, <1>3, <1>6, <2>4, <2>9, InnerStep, UndisturbedIf
<1> QED BY <1>5, <1>6

LEMMA DoubleOperation ==
  ASSUME IInv, Within, Execute, Same, DoubleBinop
  PROVE  IInv'
<1>1. ip \in 1 .. Len(Code(op)) /\ op.type = DOUBLE
  BY DoubleShapes
<1>2. CASE op.call \in Sums
  <2>1. Len(Code(op)) = 6
    BY <1>1, <1>2, CodeOfDoubles, Zenon
  <2>2. ip \in {1, 2, 3} \/ ip \in {4, 5, 6}
    BY <1>1, <2>1
  <2> QED BY <1>2, <2>2, LoadDoubles, ComputeDoubles
<1>3. CASE op.call \in Compares
  <2>1. ip \in {1, 2, 3} \/ ip \in {4, 5} \/ ip >= Branch
    BY <1>1 DEF Branch
  <2> QED BY <1>1, <1>3, <2>1, LoadDoubles, CompareDoubles, BranchOperation
<1> QED BY <1>2, <1>3 DEF DoubleBinop

LEMMA ConvertedDouble ==
  ASSUME NEW a \in Word
  PROVE  (IF a = NaN THEN Half ELSE Wrap(Real(a))) \in Was!Converted(DOUBLE, UNSIGNED_INT, a)
<1>1. Half \in Word
  BY ModulusFacts DEF Word
<1>2. Real(a) \in Int /\ Real(a) < Modulus
  BY RealBound
<1>3. Wrap(Real(a)) \in Word /\ (Real(a) >= 0 => Wrap(Real(a)) = Real(a))
  <2>1. Real(a) >= 0 => Real(a) \in Word
    BY <1>2, ModulusFacts DEF Word
  <2> HIDE DEF Real, Wrap
  <2> QED BY <1>2, <2>1, WrapWord
<1>4. Was!Converted(DOUBLE, UNSIGNED_INT, a) = IF a # NaN /\ Real(a) >= 0 THEN {Real(a)} ELSE Word
  BY WasNames, TypeNumbers DEF Was!Converted
<1> HIDE DEF Real, Wrap, NaN
<1> QED BY <1>1, <1>3, <1>4

LEMMA ConvertedInteger ==
  ASSUME NEW a \in Word, a < Half
  PROVE  DoubleOf(Signed(a)) \in Was!Converted(UNSIGNED_INT, DOUBLE, a)
<1>1. Signed(a) = a
  BY DEF Signed
<1>2. Was!Converted(UNSIGNED_INT, DOUBLE, a) = {DoubleOf(a)}
  BY WasNames, TypeNumbers DEF Was!Converted
<1> QED BY <1>1, <1>2

LEMMA Conversion ==
  ASSUME IInv, Within, Execute, Same, op.call = "convert"
  PROVE  IInv'
<1>1. op.call # "none" /\ ~Callers
  BY DEF Callers
<1>2. MachineTyped /\ Slots /\ Careful /\ ip \in 1 .. Len(Code(op))
  BY <1>1, Facts
<1>3. \/ op.type = DOUBLE /\ op.dest = UNSIGNED_INT
      \/ op.type = UNSIGNED_INT /\ op.dest = DOUBLE
  <2>1. CASE Code(op) # <<>>
    BY <2>1, CodeOfConversions, Zenon
  <2>2. CASE Code(op) = <<>>
    BY <1>2, <2>2
  <2> QED BY <2>1, <2>2
<1>4. /\ Expects(op) = <<op.type>> /\ Len(Expects(op)) = 1 /\ Expects(op)[1] = op.type
      /\ Leaves(op) = <<op.dest>> /\ Len(Leaves(op)) = 1 /\ Leaves(op)[1] = op.dest
  BY Shapes
<1>5. /\ Len(Code(op)) = 2
      /\ Code(op)[1] = Ins(IF op.type = DOUBLE THEN "fldl" ELSE "fildq", "(%rsp)", NoName)
      /\ Code(op)[2] = Ins(IF op.type = DOUBLE THEN "fistpq" ELSE "fstpl", NoName, "(%rsp)")
  <2>1. CASE op.type = DOUBLE
    <3>1. op.dest = UNSIGNED_INT
      BY <1>3, <2>1, TypeNumbers
    <3> QED BY <2>1, <3>1, CodeOfConversions
  <2>2. CASE op.type # DOUBLE
    <3>1. op.type = UNSIGNED_INT /\ op.dest = DOUBLE
      BY <1>3, <2>2
    <3> QED BY <2>2, <3>1, CodeOfConversions
  <2> QED BY <2>1, <2>2
<1>6. op' = op /\ V(1)' = V(1)
  BY SameCall DEF Same
<1> DEFINE w == IF op.type = DOUBLE THEN V(1) ELSE DoubleOf(Signed(V(1)))
<1>7. w' = w
  BY <1>6
<1>8. CASE ip = 1
  <2>1. Left(1) /\ st = <<>>
    BY <1>1, <1>4, <1>8, Facts DEF Points, AtStart
  <2>2. Len(mem) >= 2 /\ Represents(A(1), mem[Len(mem)]) /\ A(1).type = op.type
    BY <1>2, <1>4, <2>1, LeftTop
  <2>3. V(1) = mem[Len(mem)] /\ V(1) \in Word
    <3>1. op.type \notin {BOOL, CHAR}
      BY <1>3, TypeNumbers
    <3> QED BY <2>2, <3>1, Meant DEF V
  <2>4. Advances /\ UNCHANGED <<reg, mem, store, flags>> /\ MachineTyped' /\ st' = <<w>>
    <3>1. CASE op.type = DOUBLE
      <4>1. Current = Ins("fldl", "(%rsp)", NoName)
        BY <1>1, <1>5, <1>8, <3>1, Facts
      <4>2. /\ Advances /\ UNCHANGED <<reg, mem, store, flags>> /\ MachineTyped'
            /\ st' = <<mem[Len(mem) - 0]>> \o st
        BY <1>2, <2>2, <4>1, RunLoadDouble
      <4>3. st' = <<V(1)>> \o <<>>
        BY <2>1, <2>3, <4>2
      <4>4. st' = <<V(1)>>
        BY <2>3, <4>3, Pairs
      <4> QED BY <3>1, <4>2, <4>4
    <3>2. CASE op.type # DOUBLE
      <4>1. Current = Ins("fildq", "(%rsp)", NoName)
        BY <1>1, <1>5, <1>8, <3>2, Facts
      <4>2. /\ Advances /\ UNCHANGED <<reg, mem, store, flags>> /\ MachineTyped'
            /\ st' = <<DoubleOf(Signed(mem[Len(mem)]))>>
        BY <1>2, <2>1, <4>1, RunLoadInteger
      <4> QED BY <2>3, <3>2, <4>2
    <3> QED BY <3>1, <3>2
  <2>5. Left(1)' /\ ip' = 2
    BY <1>8, <2>1, <2>4, LeftStays DEF Advances, Advance
  <2>6. AtConversions'
    BY <1>6, <2>4, <2>5 DEF AtConversions
  <2>7. Points'
    BY <2>5, <2>6, OnlyPoints
  <2> QED BY <1>1, <1>5, <1>8, <2>4, <2>7, InnerStep, UndisturbedIf
<1>9. CASE ip = 2
  <2>1. Left(1) /\ st = <<w>>
    BY <1>1, <1>9, Facts DEF Points, AtConversions
  <2>2. Len(mem) >= 2 /\ Represents(A(1), mem[Len(mem)]) /\ A(1).type = op.type
    BY <1>2, <1>4, <2>1, LeftTop
  <2>3. V(1) \in Word
    <3>1. op.type \notin {BOOL, CHAR}
      BY <1>3, TypeNumbers
    <3> QED BY <2>2, <3>1, Meant DEF V
  <2>4. w \in Word
    BY <2>3, DoubleOfWord
  <2> HIDE DEF w
  <2>5. PICK o : o = IF op.type = DOUBLE THEN "fistpq" ELSE "fstpl"
    OBVIOUS
  <2>6. Current = Ins(o, NoName, "(%rsp)")
    BY <1>1, <1>5, <1>9, <2>5, Facts
  <2>7. /\ Advances /\ UNCHANGED <<reg, store, flags>> /\ MachineTyped' /\ st' = <<>>
        /\ Keeps(Len(mem) - 1) /\ Len(mem') = Len(mem)
        /\ mem'[Len(mem)] = IF o = "fstpl" THEN w ELSE IF w = NaN THEN Half ELSE Wrap(Real(w))
        /\ mem'[Len(mem)] \in Word
    BY <1>2, <2>1, <2>2, <2>4, <2>5, <2>6, RunStoreDouble
  <2>8. PICK r : r = mem'[Len(mem)]
    OBVIOUS
  <2>9. op.dest \notin {BOOL, CHAR} /\ op.dest \notin DOMAIN PointsTo
    BY <1>3, TypeNumbers
  <2>10. Sound(op.dest, r)
    BY <2>7, <2>8, <2>9 DEF Sound
  <2>11. ASSUME Defects \subseteq {"immediate"}
         PROVE  \E v \in Was!Values(op, Popped) : Denotes(op.dest, r) = Was!Kept(op.dest, v)
    <3>1. Popped[1] = V(1)
      BY <1>4 DEF Popped
    <3>2. Was!Values(op, Popped) = Was!Converted(op.type, op.dest, V(1))
      BY <3>1, ValuesOf
    <3>3. r \in Was!Converted(op.type, op.dest, V(1))
      <4>1. CASE op.type = DOUBLE
        <5>1. op.dest = UNSIGNED_INT /\ w = V(1)
          BY <1>3, <4>1, TypeNumbers DEF w
        <5>2. r = IF V(1) = NaN THEN Half ELSE Wrap(Real(V(1)))
          BY <2>5, <2>7, <2>8, <4>1, <5>1
        <5> QED BY <2>3, <4>1, <5>1, <5>2, ConvertedDouble
      <4>2. CASE op.type # DOUBLE
        <5>1. op.type = UNSIGNED_INT /\ op.dest = DOUBLE /\ w = DoubleOf(Signed(V(1)))
          BY <1>3, <4>2 DEF w
        <5>2. r = DoubleOf(Signed(V(1)))
          BY <2>5, <2>7, <2>8, <4>2, <5>1
        <5>3. V(1) < Half
          BY <1>2, <2>11, <5>1, TypeNumbers DEF Careful
        <5> QED BY <2>3, <5>1, <5>2, <5>3, ConvertedInteger
      <4> QED BY <4>1, <4>2
    <3>4. Denotes(op.dest, r) = r /\ Was!Kept(op.dest, r) = r
      BY <2>9, WasNames DEF Denotes, Was!Kept
    <3> QED BY <3>2, <3>3, <3>4
  <2> QED BY <1>1, <1>4, <1>5, <1>9, <2>1, <2>7, <2>8, <2>10, <2>11, ReplacesTop
<1> QED BY <1>2, <1>5, <1>8, <1>9

(***************************************************************************)
(* Arguments: each has a register of its own.                              *)
(***************************************************************************)
Register == ArgumentRegister(op.type, op.n)

LEMMA ParameterPlaces ==
  ASSUME Control, op.call = "function_call_param"
  PROVE  /\ PassedTypes \in Seq(Concrete) /\ op.type \in Concrete
         /\ argTypes = Append(PassedTypes, op.type) /\ Register \in ParameterRegisters
         /\ Place(argTypes, Len(PassedTypes) + 1) = Register
         /\ \A i \in 1 .. Len(PassedTypes) :
              /\ Place(argTypes, i) = Place(PassedTypes, i) /\ argTypes[i] = PassedTypes[i]
              /\ Place(PassedTypes, i) \in ParameterRegisters \ {Register}
<1>1. PassedTypes \in Seq(Concrete) /\ op.type \in Concrete
  BY PassedTypesPassing DEF Control, WellFormed, Passing
<1>2. argTypes = Append(PassedTypes, op.type) /\ op.n = Position(PassedTypes, op.type) /\ Passing(argTypes)
  BY DEF Control
<1>3. PICK types : types = PassedTypes
  OBVIOUS
<1>4. PICK t : t = op.type
  OBVIOUS
<1>5. PICK all : all = Append(types, t)
  OBVIOUS
<1>6. all = argTypes /\ types \in Seq(Concrete) /\ t \in Concrete /\ all \in Seq(Concrete) /\ Len(all) = Len(types) + 1
  BY <1>1, <1>2, <1>3, <1>4, <1>5
<1>7. PICK f \in DOMAIN Signature : IsPrefix(all, Signature[f])
  BY <1>2, <1>6 DEF Passing
<1>8. /\ \A i \in 1 .. Len(types) : Place(all, i) = Place(types, i) /\ all[i] = types[i]
      /\ Place(all, Len(types) + 1) = ArgumentRegister(t, Position(types, t))
  <2>1. LET a == Append(types, t)
        IN /\ \A i \in 1 .. Len(types) : Place(a, i) = Place(types, i) /\ a[i] = types[i]
           /\ Place(a, Len(types) + 1) = ArgumentRegister(t, Position(types, t))
    BY <1>6, PrefixStays
  <2> QED BY <1>5, <2>1
<1>9. \A i \in 1 .. Len(all) : Place(all, i) \in ParameterRegisters
  BY <1>6, <1>7, PlaceRegisters
<1>10. \A j \in 1 .. Len(types) : Place(all, j) # Place(all, Len(types) + 1)
  <2> SUFFICES ASSUME NEW j \in 1 .. Len(types) PROVE Place(all, j) # Place(all, Len(types) + 1)
    OBVIOUS
  <2>1. PICK i : i = Len(types) + 1
    OBVIOUS
  <2>2. i \in 1 .. Len(all) /\ j \in 1 .. i - 1
    BY <1>6, <2>1
  <2> QED BY <1>6, <1>7, <2>1, <2>2, PlacesDiffer
<1>11. Register = Place(all, Len(types) + 1) /\ Len(types) + 1 \in 1 .. Len(all) /\ \A j \in 1 .. Len(types) : j \in 1 .. Len(all)
  BY <1>2, <1>3, <1>4, <1>6, <1>8 DEF Register
<1> QED BY <1>1, <1>2, <1>3, <1>6, <1>8, <1>9, <1>10, <1>11

LEMMA ParameterRegister ==
  ASSUME NEW r \in ParameterRegisters
  PROVE  r \in Registers \ {"rbp", "r12", "rax", "rbx"}
BY RegisterNames

LEMMA SameSequence ==
  ASSUME NEW S, NEW x \in Seq(S), NEW y \in Seq(S), Len(x) = Len(y), \A i \in 1 .. Len(x) : x[i] = y[i]
  PROVE  x = y
OBVIOUS

\* A sequence with one more element.
LEMMA OneMore ==
  ASSUME NEW S, NEW s \in Seq(S), NEW e \in S, NEW n \in Nat, Len(s) = n,
         NEW t \in Seq(S), Len(t) = n + 1, \A i \in 1 .. n : t[i] = s[i], t[n + 1] = e,
         NEW a, a = [i \in 1 .. 1 |-> e]
  PROVE  t = s \o a
<1>2. a \in Seq(S) /\ Len(a) = 1 /\ a[1] = e
  OBVIOUS
<1> DEFINE u == s \o a
<1>3. u \in Seq(S) /\ Len(u) = n + 1 /\ (\A i \in 1 .. n : u[i] = s[i]) /\ u[n + 1] = e
  BY <1>2
<1> HIDE DEF u
<1>4. \A i \in 1 .. Len(t) : t[i] = u[i]
  BY <1>3
<1>5. t = u
  BY <1>3, <1>4, SameSequence
<1> QED BY <1>5 DEF u

LEMMA ArgumentsAreWords ==
  ASSUME NEW types, types \in Seq(Concrete), MachineTyped',
         \A i \in 1 .. Len(types) : Place(types, i) \in ParameterRegisters
  PROVE  \A i \in 1 .. Len(types) : Received(types[i], reg'[Place(types, i)]) \in Word
<1>1. \A r \in ParameterRegisters : reg'[r] \in Word
  BY ParameterRegister DEF MachineTyped
<1>2. \A w \in Word : CharOf(w) \in Word
  BY CharOfWord
<1> QED BY <1>1, <1>2 DEF Received

LEMMA ParameterPasses ==
  ASSUME Control, Kept, Same, op.call = "function_call_param", MachineTyped',
         \A q \in Registers \ {Register} : reg'[q] = reg[q], Received(op.type, reg'[Register]) = V(1)
  PROVE  ArgumentsOf(argTypes)' = Was!Passed(op, Popped)'
<1>1. op' = op /\ argTypes' = argTypes /\ before' = before /\ Popped' = Popped /\ PassedTypes' = PassedTypes
  BY SameCall DEF Same
<1>2. before.args = ArgumentsOf(PassedTypes)
  BY DEF Kept
<1>3. Was!Passed(op, Popped)' = before.args \o Popped
  BY <1>1 DEF Was!Passed
<1>4. Popped = [i \in 1 .. 1 |-> V(1)]
  <2>1. Expects(op) = <<op.type>> /\ Len(<<op.type>>) = 1
    BY Shapes
  <2>2. Popped = [i \in 1 .. 1 |-> V(i)]
    BY <2>1 DEF Popped
  <2> QED BY <2>2
<1>5. PICK types : types = PassedTypes
  OBVIOUS
<1>6. PICK all : all = argTypes
  OBVIOUS
<1>7. /\ types \in Seq(Concrete) /\ all \in Seq(Concrete) /\ Len(all) = Len(types) + 1
      /\ \A i \in 1 .. Len(types) : /\ Place(all, i) = Place(types, i) /\ all[i] = types[i]
                                    /\ Place(types, i) \in ParameterRegisters \ {Register}
      /\ Place(all, Len(types) + 1) = Register /\ all[Len(types) + 1] = op.type /\ Register \in ParameterRegisters
  BY <1>5, <1>6, ParameterPlaces
<1>8. \A i \in 1 .. Len(all) : Place(all, i) \in ParameterRegisters
  BY <1>7
<1> DEFINE t == [i \in 1 .. Len(all) |-> Received(all[i], reg'[Place(all, i)])]
           s == [i \in 1 .. Len(types) |-> Received(types[i], reg[Place(types, i)])]
<1>9. t \in Seq(Word) /\ Len(t) = Len(all)
  BY <1>7, <1>8, ArgumentsAreWords
<1>10. ArgumentsOf(argTypes)' = t
  BY <1>1, <1>6, ArgumentAt DEF ArgumentsOf
<1>11. ArgumentsOf(PassedTypes) = s
  BY <1>5, ArgumentAt DEF ArgumentsOf
<1>12. t[Len(types) + 1] = V(1)
  BY <1>7
<1>13. \A i \in 1 .. Len(types) : t[i] = s[i]
  <2> SUFFICES ASSUME NEW i \in 1 .. Len(types) PROVE t[i] = s[i]
    OBVIOUS
  <2>1. Place(all, i) = Place(types, i) /\ all[i] = types[i] /\ reg'[Place(types, i)] = reg[Place(types, i)]
    BY <1>7, ParameterRegister
  <2>2. i \in 1 .. Len(all)
    BY <1>7
  <2> QED BY <2>1, <2>2
<1>14. s \in Seq(Word) /\ Len(s) = Len(types) /\ V(1) \in Word
  <2>1. \A i \in 1 .. Len(types) : s[i] \in Word
    <3> HIDE DEF s, t
    <3>1. \A i \in 1 .. Len(types) : t[i] \in Word
      BY <1>7, <1>9
    <3> QED BY <1>13, <3>1
  <2>2. V(1) \in Word
    BY <1>7, <1>9, <1>12
  <2> QED BY <1>7, <2>1, <2>2
<1>15. PICK n : n = Len(types)
  OBVIOUS
<1>16. n \in Nat
  BY <1>7, <1>15
<1> HIDE DEF s, t
<1>17. t = s \o Popped
  BY <1>4, <1>7, <1>9, <1>12, <1>13, <1>14, <1>15, <1>16, OneMore
<1> QED BY <1>2, <1>3, <1>10, <1>11, <1>17

LEMMA ParameterFinishes ==
  ASSUME IInv, Within, Same, op.call = "function_call_param", Advances, ip = Len(Code(op)), store' = store,
         MachineTyped', st' = <<>>, Left(0)',
         \A q \in Registers \ {Register} : reg'[q] = reg[q], Received(op.type, reg'[Register]) = V(1)
  PROVE  IInv'
<1>1. op.call # "none"
  OBVIOUS
<1>2. /\ Control /\ Kept /\ Slots /\ Unassigned /\ code = Code(op) /\ ip \in 1 .. Len(Code(op))
      /\ reg["rbp"] = StackBase - 1
  BY <1>1, Facts
<1>3. ip' = ip + 1 /\ UNCHANGED <<code, running, heard>>
  BY DEF Advances, Advance
<1>4. op' = op /\ before' = before /\ Base' = Base
  BY SameCall DEF Same
<1>5. Effects'
  <2>1. ArgumentsOf(argTypes)' = Was!Passed(op, Popped)'
    BY <1>2, ParameterPasses
  <2>2. Was!Assigned(op, Popped)' = before.variables
    BY <1>4 DEF Was!Assigned
  <2>3. before.variables = Stored'
    BY <1>2 DEF Unassigned, Stored
  <2>4. heard' = before.heard
    BY <1>2, <1>3 DEF Kept, Spoke, Callers
  <2>5. Was!Told(op, Popped)' = before.heard
    BY <1>4 DEF Was!Told
  <2> QED BY <2>1, <2>2, <2>3, <2>4, <2>5 DEF Effects
<1>6. Leaves(op) = <<>> /\ Len(<<>>) = 0
  BY Shapes
<1>7. Yields'
  BY <1>4, <1>6 DEF Yields
<1>8. Remains'
  <2>1. reg'["rbp"] = StackBase - 1
    <3>1. Register \in ParameterRegisters
      BY <1>2, ParameterPlaces
    <3> QED BY <1>2, <3>1, RegisterNames
  <2>2. Base \in Nat
    BY <1>2 DEF Slots
  <2>3. Len(mem') = 1 + Base' /\ Intact(Base)'
    BY <1>4, <2>2 DEF Left
  <2> QED BY <1>4, <1>6, <2>1, <2>2, <2>3 DEF Remains
<1> QED BY <1>2, <1>3, <1>5, <1>7, <1>8, Finish

LEMMA ParameterInner ==
  ASSUME IInv, Within, Same, op.call = "function_call_param", Advances, ip = 1, Len(Code(op)) = 2, store' = store,
         MachineTyped', st' = <<>>, NEW d, d = (IF op.type = BOOL THEN 0 ELSE 1), Left(d)',
         \A q \in Registers \ {Register} : reg'[q] = reg[q], Represents(A(1), reg'[Register])
  PROVE  IInv'
<1>1. op.call # "none"
  OBVIOUS
<1>2. Control /\ Kept /\ code = Code(op) /\ reg["rbp"] = StackBase - 1
  BY <1>1, Facts
<1>3. ip' = 2 /\ UNCHANGED <<code, running, heard>>
  BY DEF Advances, Advance
<1>4. op' = op /\ A(1)' = A(1)
  BY SameCall DEF Same
<1>5. AtArguments'
  BY <1>3, <1>4 DEF AtArguments, Register
<1>6. Points'
  BY <1>3, <1>5, OnlyPoints
<1>7. Register \in ParameterRegisters /\ \A i \in 1 .. Len(PassedTypes) : Place(PassedTypes, i) \in ParameterRegisters \ {Register}
  BY <1>2, ParameterPlaces
<1>8. Kept'
  <2>1. Spoke' <=> Spoke
    BY <1>4 DEF Spoke, Callers
  <2>2. \A i \in 1 .. Len(PassedTypes) : reg'[Place(PassedTypes, i)] = reg[Place(PassedTypes, i)]
    BY <1>7, RegisterNames
  <2> QED BY <1>2, <1>3, <2>1, <2>2, KeptStays
<1>9. reg'["rbp"] = StackBase - 1
  BY <1>2, <1>7, RegisterNames
<1> QED BY <1>2, <1>3, <1>6, <1>8, <1>9, Midway

LEMMA Argumentation ==
  ASSUME IInv, Within, Execute, Same, op.call = "function_call_param"
  PROVE  IInv'
<1>1. op.call # "none"
  OBVIOUS
<1>2. MachineTyped /\ Slots /\ Control /\ ip \in 1 .. Len(Code(op)) /\ op.type \in Concrete
  BY <1>1, Facts DEF WellFormed
<1>3. Register \in ParameterRegisters /\ Register \in Registers \ {"rbp", "r12"}
  BY <1>2, ParameterPlaces, RegisterNames
<1>4. Expects(op) = <<op.type>> /\ Len(Expects(op)) = 1 /\ Expects(op)[1] = op.type
  BY Shapes
<1>5. /\ op.type = BOOL => /\ Len(Code(op)) = 2 /\ Code(op)[1] = PopTo(Register)
                           /\ Code(op)[2] = Imm("andq", 1, Register)
      /\ op.type = DOUBLE => /\ Len(Code(op)) = 2 /\ Code(op)[1] = Ins("movsd", "(%rsp)", Register)
                             /\ Code(op)[2] = Imm("addq", 1, "rsp")
      /\ op.type \notin {BOOL, DOUBLE} => Len(Code(op)) = 1 /\ Code(op)[1] = PopTo(Register)
  BY CodeOfArguments DEF Register
<1>6. BOOL # DOUBLE
  BY TypeNumbers
<1>7. Len(Code(op)) = IF op.type \in {BOOL, DOUBLE} THEN 2 ELSE 1
  BY <1>5
<1>8. ip = 1 \/ (ip = 2 /\ op.type \in {BOOL, DOUBLE})
  BY <1>2, <1>7
<1>9. CASE ip = 1
  <2>1. Left(1) /\ st = <<>>
    BY <1>1, <1>4, <1>9, Facts DEF Points, AtStart
  <2>2. Len(mem) >= 2 /\ Represents(A(1), mem[Len(mem)]) /\ A(1).type = op.type
    BY <1>2, <1>4, <2>1, LeftTop
  <2>3. CASE op.type = DOUBLE
    <3>1. Current = Ins("movsd", "(%rsp)", Register)
      BY <1>1, <1>5, <1>9, <2>3, Facts
    <3>2. /\ Advances /\ UNCHANGED <<mem, store, st, flags>> /\ MachineTyped'
          /\ reg'[Register] = mem[Len(mem)] /\ \A q \in Registers \ {Register} : reg'[q] = reg[q]
      BY <1>2, <1>3, <3>1, RunMoveTop
    <3>3. Left(1)' /\ st' = <<>>
      BY <2>1, <3>2, LeftStays
    <3> QED BY <1>5, <1>6, <1>9, <2>2, <2>3, <3>2, <3>3, ParameterInner
  <2>4. CASE op.type # DOUBLE
    <3>1. Current = PopTo(Register)
      BY <1>1, <1>5, <1>9, <2>4, Facts
    <3>2. /\ Advances /\ UNCHANGED <<store, st, flags>> /\ Shrinks(1) /\ MachineTyped'
          /\ reg'[Register] = mem[Len(mem)] /\ \A q \in Registers \ {Register} : reg'[q] = reg[q]
      BY <1>2, <1>3, <2>2, <3>1, RunPopRegister
    <3>3. Left(0)' /\ st' = <<>>
      BY <1>2, <1>4, <2>1, <3>2, LeftPops
    <3>4. Represents(A(1), reg'[Register])
      BY <2>2, <3>2
    <3>5. CASE op.type = BOOL
      BY <1>5, <1>9, <3>2, <3>3, <3>4, <3>5, ParameterInner
    <3>6. CASE op.type # BOOL
      <4>1. Received(op.type, reg'[Register]) = V(1)
        BY <2>2, <3>4, <3>6, Meant DEF V, Received
      <4> QED BY <1>5, <1>9, <2>4, <3>2, <3>3, <3>6, <4>1, ParameterFinishes
    <3> QED BY <3>5, <3>6
  <2> QED BY <2>3, <2>4
<1>10. CASE ip = 2
  <2>1. op.type \in {BOOL, DOUBLE} /\ Len(Code(op)) = 2
    BY <1>10, <1>7, <1>8
  <2>2. /\ Left(IF op.type = BOOL THEN 0 ELSE 1) /\ st = <<>>
        /\ Represents(A(1), reg[Register])
    BY <1>1, <1>10, Facts DEF Points, AtArguments, Register
  <2>3. A(1).type = op.type
    BY <1>2, <1>4 DEF Slots
  <2>4. CASE op.type = BOOL
    <3>1. Current = Imm("andq", 1, Register)
      BY <1>1, <1>5, <1>10, <2>4, Facts
    <3>2. /\ Advances /\ UNCHANGED <<mem, store, st, flags>> /\ MachineTyped'
          /\ reg'[Register] = BitAnd(reg[Register], 1) /\ \A p \in Registers \ {Register} : reg'[p] = reg[p]
      BY <1>2, <1>3, <3>1, RunMask
    <3>3. reg'[Register] = V(1)
      BY <2>2, <2>3, <2>4, <3>2, Meant, BitwiseAssumption DEF V
    <3>4. Received(op.type, reg'[Register]) = V(1)
      BY <2>4, <3>3, TypeNumbers DEF Received
    <3>5. Left(0)' /\ st' = <<>>
      BY <2>2, <2>4, <3>2, LeftStays
    <3> QED BY <1>10, <2>1, <3>2, <3>4, <3>5, ParameterFinishes
  <2>5. CASE op.type # BOOL
    <3>1. op.type = DOUBLE /\ Left(1)
      BY <2>1, <2>2, <2>5
    <3>2. Current = Imm("addq", 1, "rsp") /\ Len(mem) = 1 + Base + 1 /\ Base \in Nat
      BY <1>1, <1>2, <1>4, <1>5, <1>10, <3>1, Facts, LeftTop DEF Slots
    <3>3. Advances /\ UNCHANGED <<reg, store, st, flags>> /\ MachineTyped' /\ Shrinks(1)
      BY <1>2, <3>2, RunDropWords
    <3>4. Left(0)' /\ st' = <<>>
      BY <1>2, <1>4, <2>2, <3>1, <3>3, LeftPops
    <3>5. Received(op.type, reg'[Register]) = V(1)
      BY <2>2, <2>3, <3>1, <3>3, Meant, TypeNumbers DEF V, Received
    <3> QED BY <1>10, <2>1, <3>3, <3>4, <3>5, ParameterFinishes
  <2> QED BY <2>4, <2>5
<1> QED BY <1>9, <1>10, <1>8

(***************************************************************************)
(* Calls of functions: what a function understands of its registers.       *)
(***************************************************************************)
LEMMA FmodPlaces ==
  /\ Place(<<DOUBLE, DOUBLE>>, 1) = "xmm0" /\ Place(<<DOUBLE, DOUBLE>>, 2) = "xmm1"
<1> DEFINE t == <<DOUBLE, DOUBLE>>
<1>1. t[1] = DOUBLE /\ t[2] = DOUBLE
  OBVIOUS
<1>2. {k \in 1 .. 1 - 1 : IsFloat(t[k]) = IsFloat(t[1])} = {}
  OBVIOUS
<1>3. {k \in 1 .. 2 - 1 : IsFloat(t[k]) = IsFloat(t[2])} = {1}
  BY <1>1
<1>4. Cardinality({}) = 0 /\ Cardinality({1}) = 1
  BY FS_EmptySet, FS_Singleton
<1>5. ArgumentRegister(DOUBLE, 0) = "xmm0" /\ ArgumentRegister(DOUBLE, 1) = "xmm1"
  BY TypeNumbers DEF ArgumentRegister, IsRegular, FloatRegisters
<1>6. Place(t, 1) = "xmm0"
  BY <1>1, <1>2, <1>4, <1>5 DEF Place
<1>7. Place(t, 2) = "xmm1"
  BY <1>1, <1>3, <1>4, <1>5 DEF Place
<1> QED BY <1>6, <1>7

LEMMA HeardIs ==
  /\ \A f \in DOMAIN Signature : Heard(f) = ArgumentsOf(Signature[f])
  /\ \A f \in DOMAIN Signature : Heard(f)' = ArgumentsOf(Signature[f])'
  /\ Heard("fmod") = [i \in 1 .. 2 |-> reg[IF i = 1 THEN "xmm0" ELSE "xmm1"]]
  /\ Heard("fmod")' = [i \in 1 .. 2 |-> reg'[IF i = 1 THEN "xmm0" ELSE "xmm1"]]
  /\ Heard("printf") = Printed /\ Heard("printf")' = Printed'
<1>1. \A f \in DOMAIN Signature : f \notin {"printf", "fmod"}
  BY SignatureAssumption
<1>2. \A f \in DOMAIN Signature : Heard(f) = ArgumentsOf(Signature[f])
  BY <1>1 DEF Heard, Parameters, ArgumentsOf
<1>3. \A f \in DOMAIN Signature : Heard(f)' = ArgumentsOf(Signature[f])'
  BY <1>1 DEF Heard, Parameters, ArgumentsOf
<1>4. Heard("printf") = Printed /\ Heard("printf")' = Printed'
  BY DEF Heard
<1> DEFINE t == <<DOUBLE, DOUBLE>>
<1>5. Len(t) = 2 /\ t[1] = DOUBLE /\ t[2] = DOUBLE
  OBVIOUS
<1>6. \A w : Received(DOUBLE, w) = w
  BY TypeNumbers DEF Received
<1>7. Place(t, 1) = "xmm0" /\ Place(t, 2) = "xmm1"
  BY FmodPlaces
<1>8. Parameters("fmod") = t
  BY DEF Parameters
<1> HIDE DEF t
<1>9. Heard("fmod") = [i \in 1 .. 2 |-> Received(t[i], Argument(t, i))]
  BY <1>5, <1>8 DEF Heard
<1>10. Heard("fmod")' = [i \in 1 .. 2 |-> Received(t[i], Argument(t, i)')]
  BY <1>5, <1>8 DEF Heard, Parameters, t
<1>11. \A i \in 1 .. 2 : /\ Received(t[i], Argument(t, i)) = reg[IF i = 1 THEN "xmm0" ELSE "xmm1"]
                         /\ Received(t[i], Argument(t, i)') = reg'[IF i = 1 THEN "xmm0" ELSE "xmm1"]
  <2>1. Received(t[1], Argument(t, 1)) = reg["xmm0"] /\ Received(t[1], Argument(t, 1)') = reg'["xmm0"]
    BY <1>5, <1>6, <1>7, ArgumentAt
  <2>2. Received(t[2], Argument(t, 2)) = reg["xmm1"] /\ Received(t[2], Argument(t, 2)') = reg'["xmm1"]
    BY <1>5, <1>6, <1>7, ArgumentAt
  <2> QED BY <2>1, <2>2
<1> QED BY <1>2, <1>3, <1>4, <1>9, <1>10, <1>11

LEMMA SignaturePlaces ==
  ASSUME NEW f \in DOMAIN Signature
  PROVE  /\ Signature[f] \in Seq(Concrete)
         /\ \A i \in 1 .. Len(Signature[f]) : Place(Signature[f], i) \in ParameterRegisters
<1>1. Signature[f] \in Seq(Concrete) /\ IsPrefix(Signature[f], Signature[f])
  <2>1. Signature[f] \in Seq(Concrete)
    BY SignatureAssumption
  <2> QED BY <2>1 DEF IsPrefix
<1> QED BY <1>1, PlaceRegisters

\* Where the code calls a function, and which.
LEMMA Called ==
  ASSUME IInv, Within, Callers
  PROVE  /\ op.call # "none" /\ MachineTyped /\ Slots /\ Control /\ Kept /\ Unassigned
         /\ op.call \notin {"function_call_param", "store_variable", "store_value_to_pointer"}
         /\ ip \in 1 .. Len(Code(op)) /\ code = Code(op) /\ Current = Code(op)[ip] /\ reg["rbp"] = StackBase - 1
         /\ Segment \in {1, 4, 5, 8} /\ Segments(Code(op), Segment, Callee) /\ argTypes = <<>>
         /\ Len(Code(op)) = Segment + (IF Returned = VOID THEN 4 ELSE IF Returned = DOUBLE THEN 6 ELSE 5)
         /\ \/ op.call = "function_call_finalize" /\ Callee \in DOMAIN Signature /\ Callee = op.name
               /\ Returned = op.type
            \/ op.call = "alu_modulus" /\ Callee = "fmod" /\ op.type = DOUBLE /\ Returned = DOUBLE
            \/ op.call = "debug_display" /\ Callee = "printf" /\ op.type \in Concrete /\ Returned = VOID
         /\ Returned \in {UNSIGNED_INT, DOUBLE, CHAR, VOID} /\ ReturnType(Callee) = Returned
<1>1. op.call # "none" /\ op.call \notin {"function_call_param", "store_variable", "store_value_to_pointer"}
  BY DEF Callers
<1>2. /\ MachineTyped /\ Slots /\ Control /\ Kept /\ Unassigned /\ WellFormed(op)
      /\ ip \in 1 .. Len(Code(op)) /\ code = Code(op) /\ Current = Code(op)[ip] /\ reg["rbp"] = StackBase - 1
  BY <1>1, Facts
<1>3. argTypes = <<>>
  BY <1>2 DEF Control, Callers, ChangesArguments
<1>4. \/ op.call = "function_call_finalize" /\ Callee \in DOMAIN Signature /\ Callee = op.name
         /\ Returned = op.type
      \/ op.call = "alu_modulus" /\ Callee = "fmod" /\ op.type = DOUBLE /\ Returned = DOUBLE
      \/ op.call = "debug_display" /\ Callee = "printf" /\ op.type \in Concrete /\ Returned = VOID
  BY <1>2 DEF Callers, Callee, Returned, WellFormed
<1>5. Returned \in {UNSIGNED_INT, DOUBLE, CHAR, VOID} /\ ReturnType(Callee) = Returned
  <2>1. CASE op.call = "function_call_finalize"
    <3>1. op.type = Returns[op.name] /\ op.name \in DOMAIN Signature
      BY <1>2, <2>1 DEF WellFormed
    <3>2. op.name \notin {"printf", "fmod"} /\ CanReturn(Returns[op.name])
      BY <3>1, SignatureAssumption
    <3>3. op.type \in {UNSIGNED_INT, DOUBLE, CHAR, VOID}
      BY <3>1, <3>2, TypeNumbers DEF CanReturn, IsRegular, IsFloat
    <3> QED BY <1>4, <2>1, <3>1, <3>2, <3>3 DEF ReturnType
  <2>2. CASE op.call # "function_call_finalize"
    BY <1>4, <2>2 DEF ReturnType
  <2> QED BY <2>1, <2>2
<1>6. /\ Segment \in {1, 4, 5, 8} /\ Segments(Code(op), Segment, Callee)
      /\ Len(Code(op)) = Segment + (IF Returned = VOID THEN 4 ELSE IF Returned = DOUBLE THEN 6 ELSE 5)
  <2>0. DOUBLE # VOID
    BY TypeNumbers
  <2>1. CASE op.call = "function_call_finalize"
    <3>1. Segment = 1 /\ Callee = op.name /\ Returned = op.type
      BY <2>1 DEF Segment, Callee, Returned
    <3>2. Segments(Code(op), 1, op.name)
      BY <2>1, CodeOfCalls
    <3>3. Len(Code(op)) = IF Returned = VOID THEN 5 ELSE IF Returned = DOUBLE THEN 7 ELSE 6
      BY <2>1, <3>1, CodeOfCalls
    <3> QED BY <3>1, <3>2, <3>3
  <2>2. CASE op.call = "alu_modulus"
    <3>1. Segment = 8 /\ Callee = "fmod" /\ op.type = DOUBLE
      BY <2>2 DEF Segment, Callee, Callers
    <3>2. Len(Code(op)) = 14 /\ Segments(Code(op), 8, "fmod")
      BY <2>2, <3>1, CodeOfFmod
    <3>3. Returned = DOUBLE
      BY <2>2 DEF Returned
    <3> QED BY <2>0, <3>1, <3>2, <3>3
  <2>3. CASE op.call = "debug_display"
    <3>0. Returned = VOID
      BY <2>3 DEF Returned
    <3>1. Segment = (IF op.type \in {BOOL, DOUBLE} THEN 5 ELSE 4) /\ Callee = "printf" /\ op.type \in Concrete
      BY <1>2, <2>3 DEF Segment, Callee, WellFormed
    <3>2. CASE op.type \in {BOOL, DOUBLE}
      <4>1. Len(Code(op)) = 9 /\ Segments(Code(op), 5, "printf")
        BY <2>3, <3>1, <3>2, CodeOfDisplays
      <4> QED BY <3>0, <3>1, <3>2, <4>1
    <3>3. CASE op.type \notin {BOOL, DOUBLE}
      <4>1. op.type \in {UNSIGNED_INT, CHAR}
        BY <3>1, <3>3, TypeNumbers
      <4>2. Len(Code(op)) = 8 /\ Segments(Code(op), 4, "printf")
        BY <2>3, <3>1, <4>1, CodeOfDisplays
      <4> QED BY <3>0, <3>1, <3>3, <4>2
    <3> QED BY <3>2, <3>3
  <2> QED BY <1>4, <2>1, <2>2, <2>3
<1> QED BY <1>1, <1>2, <1>3, <1>4, <1>5, <1>6

\* The code after the call, and what it pushes.
LEMMA CalledTail ==
  ASSUME IInv, Within, Callers
  PROVE  /\ Leaves(op) = IF Returned = VOID THEN <<>> ELSE <<Returned>>
         /\ Len(Leaves(op)) = IF Returned = VOID THEN 0 ELSE 1
         /\ Returned = DOUBLE => /\ Code(op)[Segment + 5] = Imm("addq", -1, "rsp")
                                /\ Code(op)[Segment + 6] = Ins("movsd", "xmm0", "(%rsp)")
         /\ Returned \notin {VOID, DOUBLE} => Code(op)[Segment + 5] = Push("rax")
<1>1. \/ op.call = "function_call_finalize" /\ Returned = op.type
      \/ op.call = "alu_modulus" /\ op.type = DOUBLE /\ Returned = DOUBLE
      \/ op.call = "debug_display" /\ Returned = VOID
  BY Called
<1>2. DOUBLE # VOID
  BY TypeNumbers
<1>3. Leaves(op) = IF Returned = VOID THEN <<>> ELSE <<Returned>>
  BY <1>1, <1>2, Shapes DEF ArithmeticCalls
<1>4. Len(Leaves(op)) = IF Returned = VOID THEN 0 ELSE 1
  BY <1>3
<1>5. CASE op.call = "function_call_finalize"
  <2>1. Segment = 1
    BY <1>5 DEF Segment
  <2> QED BY <1>1, <1>3, <1>4, <1>5, <2>1, CodeOfCalls
<1>6. CASE op.call = "alu_modulus"
  <2>1. Segment = 8 /\ Returned = DOUBLE
    BY <1>1, <1>6 DEF Segment
  <2> QED BY <1>1, <1>3, <1>4, <1>6, <2>1, CodeOfFmod
<1>7. CASE op.call = "debug_display"
  BY <1>1, <1>2, <1>3, <1>4, <1>7
<1> QED BY <1>1, <1>5, <1>6, <1>7

LEMMA HeardStays ==
  ASSUME IInv, Within, Callers, Same, \A r \in ParameterRegisters \cup {"rax"} : reg'[r] = reg[r]
  PROVE  Heard(Callee)' = Heard(Callee)
<1>1. Callee' = Callee
  BY SameCall
<1>2. PICK f : f = Callee
  OBVIOUS
<1>3. f \in DOMAIN Signature \/ f = "fmod" \/ f = "printf"
  BY <1>2, Called
<1>4. {"rdi", "rsi", "xmm0", "xmm1"} \subseteq ParameterRegisters
  BY RegisterNames
<1>5. CASE f \in DOMAIN Signature
  <2>1. \A i \in 1 .. Len(Signature[f]) : Place(Signature[f], i) \in ParameterRegisters
    BY <1>5, SignaturePlaces
  <2>2. ArgumentsOf(Signature[f])' = ArgumentsOf(Signature[f])
    BY <2>1, ArgumentAt DEF ArgumentsOf
  <2> QED BY <1>1, <1>2, <1>5, <2>2, HeardIs
<1>6. CASE f = "fmod"
  BY <1>1, <1>2, <1>4, <1>6, HeardIs
<1>7. CASE f = "printf"
  <2>1. Printed' = Printed
    BY <1>4 DEF Printed
  <2> QED BY <1>1, <1>2, <1>7, <2>1, HeardIs
<1> QED BY <1>3, <1>5, <1>6, <1>7

LEMMA ResultIsWord ==
  ASSUME MachineTyped, NEW f, f \in DOMAIN Signature \/ f = "fmod"
  PROVE  Result(f, Heard(f)) \in Word
<1>1. CASE f = "fmod"
  BY <1>1, DoubleOpWord DEF Result
<1>2. CASE f # "fmod" /\ f \in DOMAIN Signature
  <2>1. PICK h : h = Heard(f)
    OBVIOUS
  <2>2. \A i \in 1 .. Len(Signature[f]) : h[i] \in Word
    <3>1. \A r \in ParameterRegisters : reg[r] \in Word
      BY ParameterRegister DEF MachineTyped
    <3>2. \A w \in Word : CharOf(w) \in Word
      BY CharOfWord
    <3>3. h = [i \in 1 .. Len(Signature[f]) |-> Received(Signature[f][i], reg[Place(Signature[f], i)])]
      BY <1>2, <2>1, HeardIs, ArgumentAt DEF ArgumentsOf
    <3> QED BY <1>2, <3>1, <3>2, <3>3, SignaturePlaces DEF Received
  <2>3. Len(h) = Len(Signature[f]) /\ Len(Signature[f]) \in Nat
    BY <1>2, <2>1, HeardIs, SignaturePlaces DEF ArgumentsOf
  <2>4. CASE Len(h) = 2
    <3>1. h[1] \in Int /\ h[2] \in Int
      BY <2>2, <2>3, <2>4, WordNat
    <3>2. Wrap(h[1] - h[2]) \in Word
      BY <3>1, WrapWord
    <3> QED BY <1>2, <2>1, <2>4, <3>2 DEF Result
  <2>5. CASE Len(h) # 2
    BY <1>2, <2>1, <2>5, ModulusFacts DEF Result
  <2> QED BY <2>4, <2>5
<1> QED BY <1>1, <1>2

LEMMA SegmentPoints ==
  ASSUME IInv, Within, Callers, Same, ip' \in Nat, ip' > Segment, AtSegment'
  PROVE  Points'
<1>1. PICK s : s = Segment
  OBVIOUS
<1>2. /\ s \in {1, 4, 5, 8} /\ Segment' = s /\ op' = op
      /\ op.call = "debug_display" => s \in {4, 5}
      /\ op.call = "alu_modulus" => s = 8
      /\ op.call = "alu_modulus" => op.type = DOUBLE
      /\ op.call \in {"function_call_finalize", "debug_display", "alu_modulus"}
  BY <1>1, SameCall DEF Segment, Callers, Same
<1>3. ip' \in Nat /\ ip' > s /\ ip' # 1
  BY <1>1, <1>2
<1>4. op.call = "debug_display" => AtDisplays'
  <2> SUFFICES ASSUME op.call = "debug_display" PROVE AtDisplays'
    OBVIOUS
  <2>1. s \in {4, 5} /\ ip' > s
    BY <1>2, <1>3
  <2>2. ip' \notin 2 .. s /\ ip' \notin 2 .. s - 1 /\ ip' # 2 /\ ip' # 3 /\ ~(ip' = 4 /\ s = 5)
    BY <1>3, <2>1
  <2> QED BY <1>2, <2>2 DEF AtDisplays
<1>5. op.call = "alu_modulus" => AtFmod'
  <2> SUFFICES ASSUME op.call = "alu_modulus" PROVE AtFmod'
    OBVIOUS
  <2>1. ip' > 8
    BY <1>2, <1>3
  <2> QED BY <1>2, <1>3, <2>1 DEF AtFmod
<1> QED BY <1>2, <1>3, <1>4, <1>5, OnlyPoints

\* Before the call: %r12 takes the stack pointer, then its low bit.
LEMMA Aligning ==
  ASSUME IInv, Within, Execute, Same, Callers, ip \in Segment .. Segment + 2
  PROVE  IInv'
<1>1. PICK s : s = Segment
  OBVIOUS
<1>2. /\ op.call # "none" /\ MachineTyped /\ Slots
      /\ s \in {1, 4, 5, 8} /\ Segments(Code(op), s, Callee) /\ Current = Code(op)[ip]
      /\ Len(Code(op)) >= s + 4 /\ ip \in s .. s + 2 /\ ip \in Nat
  BY <1>1, Called
<1>3. Left(0) /\ st = <<>> /\ Heard(Callee) = Said
  <2>1. ip \in s .. s + 6 /\ ip \in s .. s + 3
    BY <1>2
  <2> QED BY <1>1, <1>2, <2>1, Facts DEF Points, AtSegment
<1>4. Base \in Nat /\ Len(mem) = 1 + Base /\ Intact(Base) /\ Len(mem) + 3 <= StackBase /\ StackBase \in Nat
  <2>1. Len(Expects(op)) \in Nat
    BY <1>2 DEF Slots
  <2> QED BY <1>2, <1>3, <2>1, FewOperands, MemoryAssumption DEF Left, Slots
<1>5. /\ op' = op /\ Segment' = s /\ Base' = Base /\ Callee' = Callee /\ Said' = Said /\ Excess' = Excess
      /\ Callers'
  BY <1>1, SameCall DEF Same
<1>6. Excess = (StackBase - 1 - Base) % 2
  BY DEF Excess
<1>7. PICK e : e = Excess
  OBVIOUS
<1>8. PICK b : b = Base
  OBVIOUS
<1>9. ASSUME Advances, UNCHANGED <<store, st>>, MachineTyped', \A q \in Registers \ {"r12"} : reg'[q] = reg[q],
             NEW k, k = ip + 1,
             k <= s + 2 => Left(0)', k = s + 1 => reg'["r12"] = StackBase - 1 - b,
             k > s + 1 => reg'["r12"] = e, k = s + 3 => Len(mem') = 1 + b + e /\ Intact(Base)'
      PROVE  IInv'
  <2>1. Undisturbed /\ \A r \in ParameterRegisters \cup {"rax"} : reg'[r] = reg[r]
    BY <1>9, UndisturbedIf, RegisterNames
  <2>2. Heard(Callee)' = Said'
    <3>1. Heard(Callee)' = Heard(Callee)
      BY <2>1, HeardStays
    <3> QED BY <1>3, <1>5, <3>1
  <2>3. ip' = k /\ k \in s + 1 .. s + 3 /\ k \in Nat
    BY <1>2, <1>9 DEF Advances, Advance
  <2>4. st' = <<>>
    BY <1>3, <1>9
  <2>5. AtSegment'
    <3>1. Base' = b /\ Excess' = e /\ Segment' = s
      BY <1>5, <1>7, <1>8
    <3>2. /\ k \in s .. s + 2 => k <= s + 2
          /\ k = s + 1 => k <= s + 2
          /\ k \in s + 2 .. s + 4 => k > s + 1
          /\ k \in s + 3 .. s + 4 => k = s + 3
          /\ k \notin s + 4 .. s + 6 /\ k # s + 5 /\ k # s + 6
      BY <1>2, <2>3
    <3> QED BY <1>9, <2>2, <2>3, <2>4, <3>1, <3>2 DEF AtSegment
  <2>6. Points'
    BY <1>1, <1>2, <2>3, <2>5, SegmentPoints
  <2>7. ip < Len(Code(op)) /\ ip # Segment + 3
    BY <1>1, <1>2
  <2> QED BY <1>2, <1>9, <2>1, <2>6, <2>7, InnerStep
<1>10. CASE ip = s
  <2>1. Current = Ins("movq", "rsp", "r12")
    BY <1>2, <1>10 DEF Segments
  <2>2. /\ Advances /\ UNCHANGED <<mem, store, st, flags>> /\ MachineTyped'
        /\ reg'["r12"] = StackBase - Len(mem) /\ \A q \in Registers \ {"r12"} : reg'[q] = reg[q]
    BY <1>2, <1>4, <2>1, RunSaveStack
  <2>3. Left(0)'
    BY <1>3, <2>2, LeftStays
  <2>4. reg'["r12"] = StackBase - 1 - b
    BY <1>4, <1>8, <2>2
  <2> QED BY <1>2, <1>9, <1>10, <2>2, <2>3, <2>4
<1>11. CASE ip = s + 1
  <2>1. Current = Imm("andq_low", 0, "r12") /\ reg["r12"] = StackBase - 1 - Base
    BY <1>1, <1>2, <1>11, Facts DEF Segments, Points, AtSegment
  <2>2. /\ Advances /\ UNCHANGED <<mem, store, st, flags>> /\ MachineTyped'
        /\ reg'["r12"] = reg["r12"] % 2 /\ \A p \in Registers \ {"r12"} : reg'[p] = reg[p]
    BY <1>2, <2>1, RunLowBit
  <2>3. Left(0)' /\ reg'["r12"] = e
    BY <1>3, <1>6, <1>7, <2>1, <2>2, LeftStays
  <2> QED BY <1>2, <1>9, <1>11, <2>2, <2>3
<1>12. CASE ip = s + 2
  <2>1. Current = Imm("andq_high", 0, "rsp")
    BY <1>2, <1>12 DEF Segments
  <2>0. reg["r12"] = e
    <3>1. ip \in s + 2 .. s + 4
      BY <1>2, <1>12
    <3> QED BY <1>1, <1>2, <1>7, <3>1, Facts DEF Points, AtSegment
  <2>2. /\ Advances /\ UNCHANGED <<reg, store, st, flags>> /\ MachineTyped'
        /\ Keeps(Len(mem)) /\ Len(mem') = Len(mem) + ((StackBase - Len(mem)) % 2)
    BY <1>2, <1>4, <2>1, RunRoundDown
  <2>3. StackBase - Len(mem) = StackBase - 1 - b
    BY <1>4, <1>8
  <2>4. e = (StackBase - 1 - b) % 2
    BY <1>6, <1>7, <1>8
  <2>5. Len(mem') = 1 + b + e
    BY <1>4, <1>8, <2>2, <2>3, <2>4
  <2>6. Intact(Base)'
    <3>1. b \in Nat /\ Len(mem) \in Nat /\ b < Len(mem) /\ Intact(b) /\ before' = before
      BY <1>4, <1>8 DEF Same
    <3>2. Intact(b)'
      BY <2>2, <3>1, IntactStays
    <3>3. Base' = b
      BY <1>5, <1>8
    <3> QED BY <3>2, <3>3 DEF Intact
  <2>7. reg'["r12"] = e /\ \A q \in Registers \ {"r12"} : reg'[q] = reg[q]
    BY <2>0, <2>2
  <2>8. ip + 1 = s + 3 /\ ~(s + 3 <= s + 2) /\ s + 3 # s + 1
    BY <1>2, <1>12
  <2> QED BY <1>9, <2>2, <2>5, <2>6, <2>7, <2>8
<1> QED BY <1>2, <1>10, <1>11, <1>12

LEMMA NoArguments == ArgumentsOf(<<>>) = <<>> /\ ArgumentsOf(<<>>)' = <<>>
<1>1. Len(<<>>) = 0 /\ 1 .. 0 = {}
  OBVIOUS
<1>2. ArgumentsOf(<<>>) = <<>>
  BY <1>1 DEF ArgumentsOf
<1>3. ArgumentsOf(<<>>)' = <<>>
  BY <1>1 DEF ArgumentsOf
<1> QED BY <1>2, <1>3

\* The call itself, of the function with the arguments that the source gives it.
LEMMA Calling ==
  ASSUME IInv, Within, Execute, Same, Callers, ip = Segment + 3
  PROVE  IInv'
<1>1. PICK s : s = Segment
  OBVIOUS
<1>2. /\ op.call # "none" /\ MachineTyped /\ Slots /\ Kept /\ code = Code(op)
      /\ s \in {1, 4, 5, 8} /\ Segments(Code(op), s, Callee) /\ Current = Code(op)[ip]
      /\ ip = s + 3 /\ reg["rbp"] = StackBase - 1
      /\ argTypes = <<>> /\ op.call # "function_call_param"
      /\ (ReturnType(Callee) = VOID \/ Callee \in DOMAIN Signature \/ Callee = "fmod")
      /\ ReturnType(Callee) = Returned
  BY <1>1, Called
<1> Len(Code(op)) >= s + 4 /\ Len(Code(op)) \in Nat
  BY <1>1, <1>2, Called
<1>3. st = <<>> /\ Heard(Callee) = Said /\ reg["r12"] = Excess /\ Len(mem) = 1 + Base + Excess /\ Intact(Base)
  <2>1. ip \in s .. s + 6 /\ ip \in s .. s + 3 /\ ip \in s + 2 .. s + 4 /\ ip \in s + 3 .. s + 4
    BY <1>2
  <2> QED BY <1>1, <1>2, <2>1, Facts DEF Points, AtSegment
<1>4. /\ op' = op /\ Segment' = s /\ Base' = Base /\ Callee' = Callee /\ Said' = Said /\ Excess' = Excess
      /\ Callers' /\ before' = before /\ PassedTypes' = PassedTypes /\ Returned' = Returned
  BY <1>1, SameCall DEF Same
<1>5. Current = Tag("call", Callee, 0)
  BY <1>2 DEF Segments
<1>6. PICK f : f = Callee
  OBVIOUS
<1>7. /\ Advance /\ UNCHANGED <<mem, store, st, flags>> /\ MachineTyped'
      /\ heard' = [function |-> f, args |-> Heard(f)]
      /\ ReturnType(f) # VOID => reg'[ResultRegister(ReturnType(f))] = Result(f, Heard(f))
      /\ \A r \in {"rbx", "rbp", "r12"} : reg'[r] = reg[r]
  <2>1. ReturnType(f) = VOID \/ Result(f, Heard(f)) \in Word
    BY <1>2, <1>6, ResultIsWord
  <2> QED BY <1>2, <1>5, <1>6, <2>1, RunCall
<1>8. ip' = s + 4 /\ ip' \in 1 .. Len(code) /\ UNCHANGED <<code, running>>
  BY <1>2, <1>7 DEF Advance
<1>9. Kept'
  <2>1. Spoke'
    <3>1. s + 4 > s + 3
      BY <1>2
    <3> QED BY <1>4, <1>8, <3>1 DEF Spoke
  <2>2. heard' = [function |-> Callee', args |-> Said']
    BY <1>3, <1>4, <1>6, <1>7
  <2>3. op.call = "function_call_finalize" \/ before'.args = ArgumentsOf(PassedTypes)'
    <3>1. CASE op.call # "function_call_finalize"
      <4>1. PassedTypes = <<>>
        BY <1>2, <3>1 DEF PassedTypes
      <4>2. before.args = <<>>
        BY <1>2, <3>1, <4>1, NoArguments DEF Kept
      <4>3. PassedTypes' = <<>>
        BY <1>4, <4>1
      <4>4. ArgumentsOf(PassedTypes)' = <<>>
        BY <4>3, NoArguments DEF ArgumentsOf
      <4> QED BY <1>4, <4>2, <4>4
    <3> QED BY <3>1
  <2> QED BY <1>4, <2>1, <2>2, <2>3 DEF Kept
<1>10. Points'
  <2>1. Intact(Base)'
    BY <1>3, <1>4, <1>7 DEF Intact
  <2>2. PICK b, e : b = Base /\ e = Excess
    OBVIOUS
  <2>3. Base' = b /\ Excess' = e /\ Len(mem') = 1 + b + e /\ reg'["r12"] = e /\ st' = <<>>
    BY <1>3, <1>4, <1>7, <2>2
  <2>4. Returned' # VOID => reg'[ResultRegister(Returned')] = Result(Callee', Said')
    BY <1>2, <1>3, <1>4, <1>6, <1>7
  <2>5. /\ s + 4 \notin s .. s + 2 /\ s + 4 \notin s .. s + 3 /\ s + 4 # s + 1 /\ s + 4 # s + 5 /\ s + 4 # s + 6
        /\ s + 4 \in Nat /\ s + 4 > s
    BY <1>2
  <2>6. AtSegment'
    BY <1>4, <1>8, <2>1, <2>3, <2>4, <2>5 DEF AtSegment
  <2> QED BY <1>1, <1>8, <2>5, <2>6, SegmentPoints
<1>11. reg'["rbp"] = StackBase - 1
  BY <1>2, <1>7
<1> QED BY <1>2, <1>7, <1>8, <1>9, <1>10, <1>11, Midway

\* The stack pointer moves back.
LEMMA MovesBack ==
  ASSUME IInv, Within, Execute, Same, Callers, ip = Segment + 4
  PROVE  /\ Advances /\ UNCHANGED <<reg, store, st, flags>> /\ MachineTyped' /\ Left(0)' /\ st = <<>>
         /\ Returned # VOID => reg[ResultRegister(Returned)] = Result(Callee, Said)
<1>1. PICK s : s = Segment
  OBVIOUS
<1>2. /\ op.call # "none" /\ MachineTyped /\ Slots
      /\ s \in {1, 4, 5, 8} /\ Segments(Code(op), s, Callee) /\ Current = Code(op)[ip] /\ ip = s + 4
  BY <1>1, Called
<1>3. /\ st = <<>> /\ reg["r12"] = Excess /\ Len(mem) = 1 + Base + Excess /\ Intact(Base)
      /\ Returned # VOID => reg[ResultRegister(Returned)] = Result(Callee, Said)
  <2>1. ip \in s .. s + 6 /\ ip \in s + 2 .. s + 4 /\ ip \in s + 3 .. s + 4 /\ ip \in s + 4 .. s + 6
    BY <1>2
  <2> QED BY <1>1, <1>2, <2>1, Facts DEF Points, AtSegment
<1>4. Current = Ins("orq", "r12", "rsp")
  BY <1>2 DEF Segments
<1>5. PICK b, e : b = Base /\ e = Excess
  OBVIOUS
<1>6. b \in Nat /\ b + 4 <= StackBase /\ StackBase \in Nat
  <2>1. /\ Len(before.stack) = Base + Len(Expects(op)) /\ Len(Expects(op)) \in Nat /\ Len(before.stack) <= count
        /\ Base \in Nat /\ count \in 0 .. MaxOperations
    BY DEF IInv, Slots, Control
  <2> QED BY <1>5, <2>1, ProgramAssumption, MemoryAssumption
<1>7. e \in {0, 1} /\ (StackBase - (1 + b + e)) % 2 = 0
  <2>1. PICK a \in 0 .. StackBase : a = StackBase - 1 - b
    BY <1>6
  <2>2. a % 2 \in {0, 1} /\ (a - (a % 2)) % 2 = 0
    BY <2>1, Parity
  <2>3. e = a % 2
    BY <1>5, <2>1 DEF Excess
  <2>4. StackBase - (1 + b + e) = a - (a % 2)
    BY <1>6, <2>1, <2>2, <2>3
  <2> QED BY <2>2, <2>3, <2>4
<1>8. Len(mem) = 1 + b + e /\ Len(mem) <= StackBase /\ reg["r12"] = e /\ e < Len(mem)
  BY <1>3, <1>5, <1>6, <1>7
<1>9. Advances /\ UNCHANGED <<reg, store, st, flags>> /\ MachineTyped' /\ Shrinks(e)
  BY <1>2, <1>4, <1>7, <1>8, RunMoveBack
<1>10. Left(0)'
  <2>1. Keeps(1 + b) /\ Len(mem') = 1 + b
    BY <1>6, <1>7, <1>8, <1>9 DEF Shrinks
  <2>2. Intact(b) /\ before' = before /\ b < 1 + b /\ 1 + b \in Nat
    BY <1>3, <1>5, <1>6 DEF Same
  <2>3. Intact(b)'
    BY <1>6, <2>1, <2>2, IntactStays
  <2>4. Base' = b /\ b + 0 = b
    BY <1>5, <1>6, SameCall
  <2> QED BY <1>6, <2>1, <2>3, <2>4 DEF Left, Intact
<1> QED BY <1>3, <1>9, <1>10

\* The last instruction of a call that called a function.
LEMMA CallerFinishes ==
  ASSUME IInv, Within, Same, Callers, Advances, ip = Len(Code(op)), UNCHANGED <<reg, store>>, MachineTyped',
         st' = <<>>, Len(mem') = 1 + Base + Len(Leaves(op)), Intact(Base)',
         Leaves(op) # <<>> => Top' \in Word /\ Top' = Result(Callee, Said)
  PROVE  IInv'
<1>1. /\ op.call # "none" /\ Slots /\ Kept /\ Unassigned /\ code = Code(op) /\ ip \in 1 .. Len(Code(op))
      /\ reg["rbp"] = StackBase - 1 /\ argTypes = <<>>
      /\ op.call \notin {"function_call_param", "store_variable", "store_value_to_pointer"}
  BY Called
<1>2. /\ \/ op.call = "function_call_finalize" /\ Callee = op.name /\ Returned = op.type
         \/ op.call = "alu_modulus" /\ Callee = "fmod" /\ op.type = DOUBLE
         \/ op.call = "debug_display" /\ Callee = "printf" /\ op.type \in Concrete
      /\ Returned \in {UNSIGNED_INT, DOUBLE, CHAR, VOID}
      /\ Segment \in {1, 4, 5, 8} /\ Len(Code(op)) >= Segment + 4
  BY Called
<1>3. ip' = Len(code) + 1 /\ UNCHANGED <<code, running, heard>>
  BY <1>1 DEF Advances, Advance
<1>4. op' = op /\ before' = before /\ Base' = Base /\ argTypes' = argTypes /\ Popped' = Popped
  BY SameCall DEF Same
<1>5. heard = [function |-> Callee, args |-> Said]
  <2>1. Spoke
    BY <1>2 DEF Spoke
  <2> QED BY <1>1, <2>1 DEF Kept
<1>6. /\ op.call = "function_call_finalize" =>
           Expects(op) = <<>> /\ Leaves(op) = (IF Returned = VOID THEN <<>> ELSE <<Returned>>)
      /\ op.call = "alu_modulus" => Expects(op) = <<DOUBLE, DOUBLE>> /\ Leaves(op) = <<DOUBLE>>
      /\ op.call = "debug_display" => Expects(op) = <<op.type>> /\ Leaves(op) = <<>>
  <2>1. op.call = "function_call_finalize" => Returned = op.type
    BY <1>2
  <2>2. op.call = "alu_modulus" => op.type = DOUBLE /\ op.call \in ArithmeticCalls
    BY <1>2 DEF ArithmeticCalls
  <2> QED BY <1>2, <2>1, <2>2, Shapes
<1>7. Remains'
  <2>1. reg'["rbp"] = StackBase - 1
    BY <1>1
  <2> QED BY <1>4, <2>1 DEF Remains
<1>8. op.call = "alu_modulus" => Popped = Said /\ Said = [i \in 1 .. 2 |-> V(i)]
  <2>1. Len(<<DOUBLE, DOUBLE>>) = 2
    OBVIOUS
  <2> QED BY <1>6, <2>1 DEF Popped, Said
<1>9. Yields'
  <2>1. PICK w : w = Top'
    OBVIOUS
  <2>2. CASE op.call = "function_call_finalize" /\ Returned # VOID
    <3>0. PICK r : r = Returned
      OBVIOUS
    <3>1. Leaves(op)[1] = r /\ Leaves(op) # <<>>
      <4>1. <<r>>[1] = r /\ <<r>> # <<>>
        OBVIOUS
      <4> QED BY <1>6, <2>2, <3>0, <4>1
    <3>2. w \in Word /\ w = Result(op.name, before.args)
      BY <1>2, <2>1, <2>2, <3>1 DEF Said
    <3>3. r \in {UNSIGNED_INT, DOUBLE, CHAR}
      BY <1>2, <2>2, <3>0
    <3>4. Sound(r, w)
      BY <3>2, <3>3, TypeNumbers DEF Sound
    <3>5. Was!Values(op, Popped) = {w}
      BY <2>2, <3>2, ValuesOf
    <3>6. Denotes(r, w) = Was!Kept(r, w)
      BY <3>3, TypeNumbers, WasNames DEF Denotes, Was!Kept
    <3>7. \E v \in Was!Values(op, Popped) : Denotes(r, w) = Was!Kept(r, v)
      BY <3>5, <3>6
    <3> QED BY <2>1, <3>1, <3>4, <3>7, YieldsIf
  <2>5. CASE op.call = "function_call_finalize" /\ Returned = VOID
    BY <1>4, <1>6, <2>5 DEF Yields
  <2>3. CASE op.call = "alu_modulus"
    <3>1. Leaves(op)[1] = DOUBLE /\ Leaves(op) # <<>>
      <4>1. <<DOUBLE>>[1] = DOUBLE /\ <<DOUBLE>> # <<>>
        OBVIOUS
      <4> QED BY <1>6, <2>3, <4>1
    <3>2. w \in Word /\ w = DoubleOp("%", Popped[1], Popped[2])
      BY <1>2, <1>8, <2>1, <2>3, <3>1 DEF Result
    <3>3. Sound(DOUBLE, w)
      BY <3>2, TypeNumbers DEF Sound, Concrete, Arithmetic, Floating
    <3>4. Was!Values(op, Popped) = {w}
      <4>1. Was!Sign["alu_modulus"] = "%" /\ op.call \in ArithmeticCalls /\ op.type = DOUBLE
        BY <1>2, <2>3 DEF Was!Sign, ArithmeticCalls
      <4> QED BY <2>3, <3>2, <4>1, ValuesOf
    <3>5. Denotes(DOUBLE, w) = w /\ Was!Kept(DOUBLE, w) = w
      BY TypeNumbers, WasNames DEF Denotes, Was!Kept
    <3>6. \E v \in Was!Values(op, Popped) : Denotes(DOUBLE, w) = Was!Kept(DOUBLE, v)
      BY <3>4, <3>5
    <3> QED BY <2>1, <3>1, <3>3, <3>6, YieldsIf
  <2>4. CASE op.call = "debug_display"
    BY <1>4, <1>6, <2>4 DEF Yields
  <2> QED BY <1>2, <2>2, <2>3, <2>4, <2>5
<1>10. Effects'
  <2>1. Stored' = Was!Assigned(op, Popped)'
    <3>1. Was!Assigned(op, Popped)' = before.variables
      BY <1>1, <1>4 DEF Was!Assigned
    <3> QED BY <1>1, <3>1 DEF Unassigned, Stored
  <2>2. ArgumentsOf(argTypes)' = Was!Passed(op, Popped)'
    <3>1. ArgumentsOf(argTypes)' = <<>>
      <4>1. argTypes' = <<>>
        BY <1>1, <1>4
      <4> QED BY <4>1, NoArguments DEF ArgumentsOf
    <3>2. CASE op.call = "function_call_finalize"
      BY <1>4, <3>1, <3>2 DEF Was!Passed
    <3>3. CASE op.call # "function_call_finalize"
      <4>1. PassedTypes = <<>>
        BY <1>1, <3>3 DEF PassedTypes
      <4>2. before.args = <<>>
        BY <1>1, <3>3, <4>1, NoArguments DEF Kept
      <4> QED BY <1>1, <1>4, <3>1, <3>3, <4>2 DEF Was!Passed
    <3> QED BY <3>2, <3>3
  <2>3. heard' = Was!Told(op, Popped)'
    <3>1. Was!Told(op, Popped)' = Was!Told(op, Popped)
      BY <1>4, Zenon DEF Was!Told
    <3>2. CASE op.call = "function_call_finalize"
      BY <1>2, <1>3, <1>5, <3>1, <3>2 DEF Was!Told, Said
    <3>3. CASE op.call = "alu_modulus"
      BY <1>2, <1>3, <1>5, <1>8, <3>1, <3>3, WasNames DEF Was!Told
    <3>4. CASE op.call = "debug_display"
      <4>1. Popped[1] = V(1)
        <5>1. Len(Expects(op)) = 1
          BY <1>6, <3>4
        <5> QED BY ONLY <5>1 DEF Popped
      <4> QED BY <1>2, <1>3, <1>5, <3>1, <3>4, <4>1 DEF Was!Told, Said
    <3> QED BY <1>2, <3>2, <3>3, <3>4
  <2> QED BY <2>1, <2>2, <2>3 DEF Effects
<1> QED BY <1>1, <1>3, <1>7, <1>9, <1>10, Finish

LEMMA AfterTheCall ==
  ASSUME IInv, Within, Execute, Same, Callers, ip \in Segment + 4 .. Segment + 6
  PROVE  IInv'
<1>1. PICK s : s = Segment
  OBVIOUS
<1>2. /\ op.call # "none" /\ MachineTyped /\ Slots /\ Current = Code(op)[ip]
      /\ Returned \in {UNSIGNED_INT, DOUBLE, CHAR, VOID}
      /\ s \in {1, 4, 5, 8} /\ ip \in s + 4 .. s + 6 /\ ip \in Nat
  BY <1>1, Called
<1>3. PICK n \in Nat : n = Len(Code(op)) /\ ip <= n /\ n = s + (IF Returned = VOID THEN 4 ELSE IF Returned = DOUBLE THEN 6 ELSE 5)
  <2>1. Len(Code(op)) \in Nat /\ ip <= Len(Code(op))
    BY <1>1, <1>2, Called
  <2> QED BY <1>1, <1>2, <2>1, Called
<1>4. /\ op' = op /\ Segment' = s /\ Base' = Base /\ Callee' = Callee /\ Said' = Said /\ Callers'
      /\ Base \in Nat /\ Returned' = Returned
  BY <1>1, <1>2, SameCall DEF Same, Slots
<1>5. /\ Len(Leaves(op)) = IF Returned = VOID THEN 0 ELSE 1
      /\ Returned = VOID => Leaves(op) = <<>>
      /\ Returned = DOUBLE => /\ Code(op)[s + 5] = Imm("addq", -1, "rsp")
                             /\ Code(op)[s + 6] = Ins("movsd", "xmm0", "(%rsp)")
      /\ Returned \notin {VOID, DOUBLE} => Code(op)[s + 5] = Push("rax")
  BY <1>1, CalledTail
<1>6. PICK w : w = Result(Callee, Said)
  OBVIOUS
<1>0. DOUBLE # VOID /\ ResultRegister(DOUBLE) = "xmm0" /\ \A t \in {UNSIGNED_INT, CHAR} : ResultRegister(t) = "rax"
  BY TypeNumbers DEF ResultRegister, IsFloat
<1>7. Returned # VOID => reg[ResultRegister(Returned)] = w
  BY <1>1, <1>2, <1>6, Facts DEF Points, AtSegment
<1>8. {"rax", "xmm0"} \subseteq Registers \ {"rbp", "r12"}
  BY RegisterNames
<1>9. Returned # VOID => w \in Word
  BY <1>0, <1>2, <1>7, <1>8 DEF MachineTyped
<1>10. ASSUME Advances, UNCHANGED <<reg, store>>, MachineTyped', ip < n, st' = <<>>,
              ip = s + 4 => Left(0)', ip = s + 5 => Pushed1'
       PROVE  IInv'
  <2>1. Returned # VOID
    BY <1>2, <1>3, <1>10
  <2>2. ip' = ip + 1 /\ (ip = s + 4 \/ ip = s + 5)
    BY <1>2, <1>3, <1>10 DEF Advances, Advance
  <2>3. reg'[ResultRegister(Returned')] = w /\ Result(Callee', Said') = w
    BY <1>4, <1>6, <1>7, <1>10, <2>1
  <2>4. AtSegment'
    <3>1. CASE ip = s + 4
      <4>1. /\ s + 5 \notin s .. s + 2 /\ s + 5 \notin s .. s + 3 /\ s + 5 # s + 1 /\ s + 5 \notin s + 2 .. s + 4
            /\ s + 5 \notin s + 3 .. s + 4 /\ s + 5 # s + 6 /\ ip' = s + 5
        BY <1>2, <2>2, <3>1
      <4> QED BY <1>4, <1>10, <2>3, <3>1, <4>1 DEF AtSegment
    <3>2. CASE ip = s + 5
      <4>1. /\ s + 6 \notin s .. s + 2 /\ s + 6 \notin s .. s + 3 /\ s + 6 # s + 1 /\ s + 6 \notin s + 2 .. s + 4
            /\ s + 6 \notin s + 3 .. s + 4 /\ s + 6 # s + 5 /\ ip' = s + 6
        BY <1>2, <2>2, <3>2
      <4> QED BY <1>4, <1>10, <2>3, <3>2, <4>1 DEF AtSegment
    <3> QED BY <2>2, <3>1, <3>2
  <2>5. Points'
    <3>1. ip' \in Nat /\ ip' > s
      BY <1>2, <2>2
    <3> QED BY <1>1, <2>4, <3>1, SegmentPoints
  <2>6. Undisturbed /\ ip # s + 3
    BY <1>2, <1>10, UndisturbedIf
  <2> QED BY <1>1, <1>2, <1>3, <1>10, <2>5, <2>6, InnerStep
<1>11. CASE ip = s + 4
  <2>1. /\ Advances /\ UNCHANGED <<reg, store, st, flags>> /\ MachineTyped' /\ Left(0)' /\ st = <<>>
    BY <1>1, <1>11, MovesBack
  <2>2. CASE Returned = VOID
    <3>1. ip = Len(Code(op))
      BY <1>2, <1>3, <1>11, <2>2
    <3>2. Len(mem') = 1 + Base + Len(Leaves(op)) /\ Intact(Base)'
      BY <1>4, <1>5, <2>1, <2>2 DEF Left
    <3> QED BY <1>5, <2>1, <2>2, <3>1, <3>2, CallerFinishes
  <2>3. CASE Returned # VOID
    <3>1. ip < n /\ ip # s + 5
      BY <1>2, <1>3, <1>11, <2>3
    <3> QED BY <1>10, <2>1, <3>1
  <2> QED BY <2>2, <2>3
<1>12. CASE ip = s + 5
  <2>1. Left(0) /\ st = <<>>
    <3>1. ip \in s .. s + 6
      BY <1>2
    <3> QED BY <1>1, <1>2, <1>12, <3>1, Facts DEF Points, AtSegment
  <2>2. CASE Returned \notin {VOID, DOUBLE}
    <3>1. Current = Push("rax") /\ ip = Len(Code(op))
      BY <1>2, <1>3, <1>5, <1>12, <2>2
    <3>2. OnlyStack /\ Grows(reg["rax"]) /\ MachineTyped'
      BY <1>2, <1>8, <3>1, RunPushRegister
    <3>3. /\ Advances /\ reg' = reg /\ store' = store /\ st' = <<>>
          /\ Keeps(Len(mem)) /\ Len(mem') = Len(mem) + 1 /\ mem'[Len(mem')] = w
      BY <1>0, <1>2, <1>7, <2>1, <2>2, <3>2 DEF OnlyStack, Grows
    <3>4. Pushed1' /\ Top' = w
      BY <1>2, <2>1, <3>3, LeftPushes
    <3>5. Len(mem') = 1 + Base + Len(Leaves(op)) /\ Intact(Base)'
      <4>1. Len(mem') = 2 + Base /\ Intact(Base)'
        BY <1>4, <3>4 DEF Pushed1
      <4>2. Len(Leaves(op)) = 1 /\ 1 + Base + 1 = 2 + Base
        BY <1>4, <1>5, <2>2
      <4> QED BY <4>1, <4>2
    <3> QED BY <1>6, <1>9, <2>2, <3>1, <3>2, <3>3, <3>4, <3>5, CallerFinishes
  <2>3. CASE Returned = DOUBLE
    <3>1. Current = Imm("addq", -1, "rsp") /\ ip < n
      BY <1>0, <1>2, <1>3, <1>5, <1>12, <2>3
    <3>2. /\ Advances /\ UNCHANGED <<reg, store, st, flags>> /\ MachineTyped'
          /\ Keeps(Len(mem)) /\ Len(mem') = Len(mem) + 1
      BY <1>2, <3>1, RunMakeRoom
    <3>3. Pushed1' /\ ip # s + 4
      BY <1>2, <1>12, <2>1, <3>2, LeftPushes
    <3> QED BY <1>10, <2>1, <3>1, <3>2, <3>3
  <2> QED BY <1>2, <1>3, <1>12, <2>2, <2>3
<1>13. CASE ip = s + 6
  <2>1. Returned = DOUBLE /\ ip = Len(Code(op)) /\ Current = Ins("movsd", "xmm0", "(%rsp)")
    BY <1>2, <1>3, <1>5, <1>13
  <2>2. Pushed1 /\ st = <<>>
    <3>1. ip \in s .. s + 6
      BY <1>2
    <3> QED BY <1>1, <1>2, <1>13, <3>1, Facts DEF Points, AtSegment
  <2>3. Len(mem) = 2 + Base /\ Intact(Base)
    BY <2>2 DEF Pushed1
  <2>4. /\ Advances /\ UNCHANGED <<reg, store, st, flags>> /\ MachineTyped'
        /\ Keeps(Len(mem) - 1) /\ Len(mem') = Len(mem) /\ mem'[Len(mem)] = reg["xmm0"]
    <3>1. Len(mem) >= 2
      BY <1>4, <2>3
    <3> QED BY <1>2, <1>8, <2>1, <3>1, RunMoveToStack
  <2>5. Intact(Base)'
    <3>1. PICK b \in Nat : b = Base
      BY <1>4
    <3>2. Len(mem) - 1 = b + 1 /\ Intact(b) /\ before' = before /\ b < b + 1
      BY <2>3, <3>1 DEF Same
    <3>3. Intact(b)'
      BY <2>4, <3>2, IntactStays
    <3> QED BY <1>4, <3>1, <3>3 DEF Intact
  <2>6. Top' = w /\ Len(mem') = 1 + Base + Len(Leaves(op))
    <3>1. Base + 2 = Len(mem)
      BY <1>4, <2>3
    <3>2. mem'[Base + 2] = w
      BY <1>0, <1>7, <2>1, <2>4, <3>1
    <3>3. Len(Leaves(op)) = 1 /\ 1 + Base + 1 = 2 + Base
      BY <1>0, <1>4, <1>5, <2>1
    <3>4. Top' = w
      BY <1>4, <3>2 DEF Top
    <3> QED BY <2>3, <2>4, <3>3, <3>4
  <2>7. st' = <<>> /\ Returned # VOID
    BY <1>0, <2>1, <2>2, <2>4
  <2> QED BY <1>6, <1>9, <2>1, <2>4, <2>5, <2>6, <2>7, CallerFinishes
<1> QED BY <1>2, <1>11, <1>12, <1>13

LEMMA CallSegment ==
  ASSUME IInv, Within, Execute, Same, Callers, ip >= Segment
  PROVE  IInv'
<1>1. PICK s : s = Segment
  OBVIOUS
<1>2. s \in {1, 4, 5, 8} /\ ip \in Nat /\ ip >= s
  BY <1>1, Called
<1>3. ip <= s + 6
  BY <1>1, Called
<1>4. ip \in s .. s + 2 \/ ip = s + 3 \/ ip \in s + 4 .. s + 6
  BY <1>2, <1>3
<1> QED BY <1>1, <1>4, Aligning, Calling, AfterTheCall

LEMMA BeforeSegment ==
  ASSUME Same, Callers, NEW k \in Nat, ip' = k, NEW s \in {1, 4, 5, 8}, s = Segment
  PROVE  /\ k < s => AtSegment'
         /\ k = s /\ st' = <<>> /\ Left(0)' /\ Heard(Callee)' = Said => AtSegment'
<1>1. Segment' = s /\ Callers' /\ Said' = Said
  BY SameCall
<1>2. ASSUME k < s PROVE AtSegment'
  <2>1. /\ k \notin s .. s + 6 /\ k \notin s .. s + 2 /\ k \notin s .. s + 3 /\ k # s + 1 /\ k \notin s + 2 .. s + 4
        /\ k \notin s + 3 .. s + 4 /\ k \notin s + 4 .. s + 6 /\ k # s + 5 /\ k # s + 6
    BY <1>2
  <2> QED BY <1>1, <2>1 DEF AtSegment
<1>3. ASSUME k = s, st' = <<>>, Left(0)', Heard(Callee)' = Said PROVE AtSegment'
  <2>1. /\ k # s + 1 /\ k \notin s + 2 .. s + 4
        /\ k \notin s + 3 .. s + 4 /\ k \notin s + 4 .. s + 6 /\ k # s + 5 /\ k # s + 6
    BY <1>3
  <2> QED BY <1>1, <1>3, <2>1 DEF AtSegment
<1> QED BY <1>2, <1>3

\* The value displayed goes to the register printf looks in.
Where == IF op.type = DOUBLE THEN "xmm0" ELSE "rsi"

LEMMA DisplayInner ==
  ASSUME IInv, Within, Same, op.call = "debug_display", NEW k \in 2 .. 5, ip + 1 = k, k <= Segment, Advances, store' = store,
         MachineTyped', reg'["rbp"] = reg["rbp"], reg'["rdi"] = FormatOf(op.type), st' = <<>>,
         k = 2 => Left(1)',
         k = 3 /\ k < Segment => (op.type = DOUBLE => Left(1)') /\ (op.type # DOUBLE => Left(0)') /\ Represents(A(1), reg'[Where]),
         k = 4 /\ Segment = 5 => Left(0)' /\ reg'[Where] = V(1),
         k = Segment => Left(0)' /\ Heard("printf")' = Said
  PROVE  IInv'
<1>1. Callers
  BY DEF Callers
<1>2. PICK s : s = Segment
  OBVIOUS
<1>3. /\ op.call # "none" /\ s \in {1, 4, 5, 8} /\ argTypes = <<>> /\ Callee = "printf" /\ ip \in Nat
      /\ s \in {4, 5}
  BY <1>1, <1>2, Called DEF Segment
<1>4. Len(Code(op)) = s + 4
  BY <1>1, <1>2, Called
<1>5. op' = op /\ Segment' = s /\ (\A i : A(i)' = A(i) /\ V(i)' = V(i)) /\ Callee' = Callee
  BY <1>2, SameCall DEF Same
<1>6. ip' = k /\ k \in Nat
  BY DEF Advances, Advance
<1>7. AtSegment'
  <2>1. CASE k < s
    BY <1>1, <1>2, <1>3, <1>6, <2>1, BeforeSegment
  <2>2. CASE k = s
    <3>1. Heard(Callee)' = Said
      BY <1>2, <1>3, <1>5, <2>2 DEF Heard
    <3> QED BY <1>1, <1>2, <1>3, <1>6, <2>2, <3>1, BeforeSegment
  <2> QED BY <1>2, <1>3, <2>1, <2>2
<1>8. AtDisplays'
  <2>1. FormatOf(op.type)' = FormatOf(op.type)
    BY <1>5 DEF FormatOf
  <2>2. k = 3 => k < s
    BY <1>3
  <2>3. k = 3 => Left(IF op.type = DOUBLE THEN 1 ELSE 0)'
    <3>1. CASE op.type = DOUBLE
      <4>1. op'.type = DOUBLE
        BY <1>5, <3>1
      <4> QED BY <1>2, <2>2, <3>1, <4>1
    <3>2. CASE op.type # DOUBLE
      <4>1. op'.type # DOUBLE
        BY <1>5, <3>2
      <4> QED BY <1>2, <2>2, <3>2, <4>1
    <3> QED BY <3>1, <3>2
  <2> QED BY <1>2, <1>5, <1>6, <2>1, <2>2, <2>3 DEF AtDisplays, Where, FormatOf
<1>9. Points'
  BY <1>6, <1>7, <1>8, OnlyPoints
<1>10. Undisturbed
  <2>1. PassedTypes = <<>>
    BY <1>3 DEF PassedTypes
  <2> QED BY <2>1 DEF Undisturbed
<1>11. ip < Len(Code(op)) /\ ip # Segment + 3
  BY <1>2, <1>3, <1>4
<1> QED BY <1>3, <1>9, <1>10, <1>11, InnerStep

\* The last instruction before the segment sets %al.
LEMMA DisplayCounts ==
  ASSUME IInv, Within, Execute, Same, op.call = "debug_display", NEW n, n = (IF op.type = DOUBLE THEN 1 ELSE 0),
         Current = Imm("movb", n, "rax"), ip + 1 = Segment, reg["rdi"] = FormatOf(op.type), st = <<>>, Left(0),
         op.type = CHAR => CharOf(reg["rsi"]) = V(1), op.type # CHAR => reg[Where] = V(1)
  PROVE  IInv'
<1>1. Callers
  BY DEF Callers
<1>2. MachineTyped /\ Segment \in {4, 5} /\ op.type \in Concrete
  BY <1>1, Called DEF Segment
<1>3. n \in Word /\ "rax" \in Registers \ {"rbp", "r12"} /\ {"rdi", "rsi", "xmm0", "rbp"} \subseteq Registers \ {"rax"}
  BY ModulusFacts, RegisterNames
<1>4. /\ Advances /\ UNCHANGED <<mem, store, st, flags>> /\ MachineTyped'
      /\ reg'["rax"] = n /\ \A q \in Registers \ {"rax"} : reg'[q] = reg[q]
  BY <1>2, <1>3, RunMoveImmediate
<1>5. Left(0)' /\ st' = <<>>
  BY <1>4, LeftStays
<1>6. reg'["rdi"] = FormatOf(op.type) /\ reg'["rsi"] = reg["rsi"] /\ reg'["xmm0"] = reg["xmm0"] /\ reg'["rbp"] = reg["rbp"]
  BY <1>3, <1>4
<1>7. Printed' = Said
  <2>1. Format.llu = 1 /\ Format.c = 2 /\ Format.f = 3
    BY DEF Format
  <2>2. Said = <<IF op.type = BOOL THEN UNSIGNED_INT ELSE op.type, V(1)>>
    BY WasNames DEF Said, Was!Shown
  <2>3. CASE op.type = DOUBLE
    <3>1. reg'["rdi"] = 3 /\ reg'["rax"] = 1 /\ reg'["xmm0"] = V(1)
      BY <1>4, <1>6, <2>1, <2>3, TypeNumbers DEF FormatOf, Where
    <3> QED BY <2>1, <2>2, <2>3, <3>1, TypeNumbers DEF Printed
  <2>4. CASE op.type = CHAR
    <3>1. reg'["rdi"] = 2 /\ CharOf(reg'["rsi"]) = V(1)
      BY <1>4, <1>6, <2>1, <2>4, TypeNumbers DEF FormatOf
    <3> QED BY <2>1, <2>2, <2>4, <3>1, TypeNumbers DEF Printed
  <2>5. CASE op.type \in {UNSIGNED_INT, BOOL}
    <3>1. reg'["rdi"] = 1 /\ reg'["rsi"] = V(1)
      BY <1>4, <1>6, <2>1, <2>5, TypeNumbers DEF FormatOf, Where
    <3> QED BY <2>1, <2>2, <2>5, <3>1, TypeNumbers DEF Printed
  <2> QED BY <1>2, <2>3, <2>4, <2>5, TypeNumbers
<1>8. Heard("printf")' = Said
  BY <1>7, HeardIs
<1>9. PICK k \in {4, 5} : k = Segment
  BY <1>2
<1>10. k \in 2 .. 5 /\ k # 2 /\ ~(k = 3) /\ ~(k = 4 /\ k = 5)
  BY <1>9
<1> QED BY <1>4, <1>5, <1>6, <1>8, <1>9, <1>10, DisplayInner

LEMMA DisplayPrelude ==
  ASSUME IInv, Within, Execute, Same, op.call = "debug_display", ip < Segment
  PROVE  IInv'
<1>1. Callers
  BY DEF Callers
<1>2. PICK s : s = Segment
  OBVIOUS
<1>3. /\ op.call # "none" /\ MachineTyped /\ Slots /\ Current = Code(op)[ip] /\ op.type \in Concrete
      /\ ip \in Nat /\ ip >= 1 /\ ip < s /\ s = (IF op.type \in {BOOL, DOUBLE} THEN 5 ELSE 4)
  BY <1>1, <1>2, Called DEF Segment
<1>4. /\ Code(op)[1] = Imm("leaq", FormatOf(op.type), "rdi")
      /\ Code(op)[2] = (IF op.type = DOUBLE THEN Ins("movsd", "(%rsp)", "xmm0") ELSE PopTo("rsi"))
      /\ op.type = BOOL => Code(op)[3] = Imm("andq", 1, "rsi")
      /\ op.type = DOUBLE => Code(op)[3] = Imm("addq", 1, "rsp")
      /\ Code(op)[s - 1] = Imm("movb", IF op.type = DOUBLE THEN 1 ELSE 0, "rax")
  <2>1. CASE op.type = BOOL
    <3>1. /\ Code(op)[1] = Imm("leaq", Format.llu, "rdi") /\ Code(op)[2] = PopTo("rsi")
          /\ Code(op)[3] = Imm("andq", 1, "rsi") /\ Code(op)[4] = Imm("movb", 0, "rax")
      BY <1>3, <2>1, CodeOfDisplays
    <3>2. s - 1 = 4 /\ FormatOf(op.type) = Format.llu
      BY <1>3, <2>1, TypeNumbers DEF FormatOf
    <3> QED BY <2>1, <3>1, <3>2, TypeNumbers
  <2>2. CASE op.type = DOUBLE
    <3>1. /\ Code(op)[1] = Imm("leaq", Format.f, "rdi") /\ Code(op)[2] = Ins("movsd", "(%rsp)", "xmm0")
          /\ Code(op)[3] = Imm("addq", 1, "rsp") /\ Code(op)[4] = Imm("movb", 1, "rax")
      BY <1>3, <2>2, CodeOfDisplays
    <3>2. s - 1 = 4 /\ FormatOf(op.type) = Format.f
      BY <1>3, <2>2, TypeNumbers DEF FormatOf
    <3> QED BY <2>2, <3>1, <3>2, TypeNumbers
  <2>3. CASE op.type \in {UNSIGNED_INT, CHAR}
    <3>1. /\ Code(op)[1] = Imm("leaq", IF op.type = CHAR THEN Format.c ELSE Format.llu, "rdi")
          /\ Code(op)[2] = PopTo("rsi") /\ Code(op)[3] = Imm("movb", 0, "rax")
      BY <1>3, <2>3, CodeOfDisplays
    <3>2. s - 1 = 3 /\ FormatOf(op.type) = IF op.type = CHAR THEN Format.c ELSE Format.llu
      BY <1>3, <2>3, TypeNumbers DEF FormatOf
    <3> QED BY <2>3, <3>1, <3>2, TypeNumbers
  <2> QED BY <1>3, <2>1, <2>2, <2>3, TypeNumbers
<1>5. Expects(op) = <<op.type>> /\ Len(Expects(op)) = 1 /\ Expects(op)[1] = op.type
  BY Shapes
<1>6. {"rsi", "xmm0", "rdi"} \subseteq Registers \ {"rbp", "r12"} /\ "rbp" \in Registers
  BY RegisterNames
<1>7. ip = s - 1 \/ ip = 1 \/ ip = 2 \/ (ip = 3 /\ s = 5)
  BY <1>3
<1>8. ASSUME ip \in 2 .. s - 1
      PROVE  reg["rdi"] = FormatOf(op.type) /\ st = <<>>
  <2>1. ip \in 2 .. s /\ ip \in 2 .. s - 1
    BY <1>3, <1>8
  <2> QED BY <1>2, <1>3, <2>1, Facts DEF Points, AtDisplays
<1>9. CASE ip = 1
  <2>1. Current = Imm("leaq", FormatOf(op.type), "rdi") /\ FormatOf(op.type) \in Word
    BY <1>3, <1>4, <1>9, ModulusFacts DEF FormatOf, Format
  <2>2. Left(1) /\ st = <<>>
    BY <1>3, <1>5, <1>9, Facts DEF Points, AtStart
  <2>3. /\ Advances /\ UNCHANGED <<mem, store, st, flags>> /\ MachineTyped'
        /\ reg'["rdi"] = FormatOf(op.type) /\ \A q \in Registers \ {"rdi"} : reg'[q] = reg[q]
    BY <1>3, <1>6, <2>1, RunMoveImmediate
  <2>4. Left(1)' /\ st' = <<>> /\ reg'["rbp"] = reg["rbp"]
    BY <1>6, <2>2, <2>3, LeftStays
  <2>5. 2 \in 2 .. 5 /\ ip + 1 = 2 /\ 2 <= Segment /\ 2 # Segment
    BY <1>2, <1>3, <1>9
  <2> QED BY <2>3, <2>4, <2>5, DisplayInner
<1>10. CASE ip = 2
  <2>1. Left(1) /\ st = <<>> /\ reg["rdi"] = FormatOf(op.type)
    <3>1. ip \in 2 .. s - 1
      BY <1>3, <1>10
    <3>2. Left(1)
      BY <1>3, <1>10, Facts DEF Points, AtDisplays
    <3> QED BY <1>8, <3>1, <3>2
  <2>2. Len(mem) >= 2 /\ Represents(A(1), mem[Len(mem)]) /\ A(1).type = op.type
    BY <1>3, <1>5, <2>1, LeftTop
  <2>3. 3 \in 2 .. 5 /\ ip + 1 = 3 /\ 3 <= Segment /\ 3 # Segment
    BY <1>2, <1>3, <1>10
  <2>4. CASE op.type = DOUBLE
    <3>1. Current = Ins("movsd", "(%rsp)", "xmm0") /\ Where = "xmm0"
      BY <1>3, <1>4, <1>10, <2>4 DEF Where
    <3>2. /\ Advances /\ UNCHANGED <<mem, store, st, flags>> /\ MachineTyped'
          /\ reg'["xmm0"] = mem[Len(mem)] /\ \A q \in Registers \ {"xmm0"} : reg'[q] = reg[q]
      BY <1>3, <1>6, <3>1, RunMoveTop
    <3>3. Left(1)' /\ st' = <<>> /\ reg'["rbp"] = reg["rbp"] /\ reg'["rdi"] = reg["rdi"]
      BY <1>6, <2>1, <3>2, LeftStays
    <3>4. Represents(A(1), reg'[Where])
      BY <2>2, <3>1, <3>2
    <3> QED BY <2>1, <2>3, <2>4, <3>2, <3>3, <3>4, DisplayInner
  <2>5. CASE op.type # DOUBLE
    <3>1. Current = PopTo("rsi") /\ Where = "rsi"
      BY <1>3, <1>4, <1>10, <2>5 DEF Where
    <3>2. /\ Advances /\ UNCHANGED <<store, st, flags>> /\ Shrinks(1) /\ MachineTyped'
          /\ reg'["rsi"] = mem[Len(mem)] /\ \A q \in Registers \ {"rsi"} : reg'[q] = reg[q]
      BY <1>3, <1>6, <2>2, <3>1, RunPopRegister
    <3>3. Left(0)' /\ st' = <<>> /\ reg'["rbp"] = reg["rbp"] /\ reg'["rdi"] = reg["rdi"]
      BY <1>3, <1>5, <1>6, <2>1, <3>2, LeftPops
    <3>4. Represents(A(1), reg'[Where])
      BY <2>2, <3>1, <3>2
    <3> QED BY <2>1, <2>3, <2>5, <3>2, <3>3, <3>4, DisplayInner
  <2> QED BY <2>4, <2>5
<1>11. CASE ip = 3 /\ s = 5
  <2>1. op.type \in {BOOL, DOUBLE} /\ BOOL # DOUBLE
    BY <1>3, <1>11, TypeNumbers
  <2>2. /\ Left(IF op.type = DOUBLE THEN 1 ELSE 0) /\ st = <<>> /\ reg["rdi"] = FormatOf(op.type)
        /\ Represents(A(1), reg[Where]) /\ A(1).type = op.type
    <3>1. ip \in 2 .. s - 1
      BY <1>11
    <3>2. Left(IF op.type = DOUBLE THEN 1 ELSE 0) /\ Represents(A(1), reg[Where])
      BY <1>3, <1>11, Facts DEF Points, AtDisplays, Where
    <3>3. A(1).type = op.type
      BY <1>3, <1>5 DEF Slots
    <3> QED BY <1>8, <3>1, <3>2, <3>3
  <2>3. 4 \in 2 .. 5 /\ ip + 1 = 4 /\ 4 <= Segment /\ 4 # Segment
    BY <1>2, <1>11
  <2>4. CASE op.type = DOUBLE
    <3>1. Current = Imm("addq", 1, "rsp") /\ Where = "xmm0" /\ Left(1)
      BY <1>3, <1>4, <1>11, <2>2, <2>4 DEF Where
    <3>2. Advances /\ UNCHANGED <<reg, store, st, flags>> /\ MachineTyped' /\ Shrinks(1)
      <4>1. 1 \in 1 .. Len(mem) - 1
        BY <1>3, <1>5, <3>1, LeftTop
      <4> QED BY <1>3, <3>1, <4>1, RunDropWords
    <3>3. Left(0)' /\ st' = <<>> /\ reg' = reg
      BY <1>3, <1>5, <2>2, <3>1, <3>2, LeftPops
    <3>4. reg'[Where] = V(1)
      BY <2>2, <2>4, <3>3, Meant, TypeNumbers DEF V
    <3> QED BY <2>2, <2>3, <3>2, <3>3, <3>4, DisplayInner
  <2>5. CASE op.type = BOOL
    <3>1. Current = Imm("andq", 1, "rsi") /\ Where = "rsi" /\ Left(0)
      BY <1>3, <1>4, <1>11, <2>1, <2>2, <2>5 DEF Where
    <3>2. /\ Advances /\ UNCHANGED <<mem, store, st, flags>> /\ MachineTyped'
          /\ reg'["rsi"] = BitAnd(reg["rsi"], 1) /\ \A p \in Registers \ {"rsi"} : reg'[p] = reg[p]
      BY <1>3, <1>6, <3>1, RunMask
    <3>3. Left(0)' /\ st' = <<>> /\ reg'["rbp"] = reg["rbp"] /\ reg'["rdi"] = reg["rdi"]
      BY <1>6, <2>2, <3>1, <3>2, LeftStays
    <3>4. reg'[Where] = V(1)
      BY <2>2, <2>5, <3>1, <3>2, Meant, BitwiseAssumption DEF V
    <3> QED BY <2>2, <2>3, <3>2, <3>3, <3>4, DisplayInner
  <2> QED BY <2>1, <2>4, <2>5
<1>12. CASE ip = s - 1 /\ ip # 1 /\ ip # 2 /\ ~(ip = 3 /\ s = 5)
  <2>1. Current = Imm("movb", IF op.type = DOUBLE THEN 1 ELSE 0, "rax") /\ ip + 1 = Segment
    BY <1>2, <1>3, <1>4, <1>12
  <2>2. reg["rdi"] = FormatOf(op.type) /\ st = <<>>
    <3>1. ip \in 2 .. s - 1
      BY <1>3, <1>12
    <3> QED BY <1>8, <3>1
  <2>3. Left(0) /\ (op.type = CHAR => CharOf(reg["rsi"]) = V(1)) /\ (op.type # CHAR => reg[Where] = V(1))
    <3>1. CASE op.type \in {BOOL, DOUBLE}
      <4>1. ip = 4 /\ s = 5
        BY <1>3, <1>12, <3>1
      <4>2. Left(0) /\ reg[Where] = V(1)
        BY <1>2, <1>3, <4>1, Facts DEF Points, AtDisplays, Where
      <4> QED BY <3>1, <4>2, TypeNumbers
    <3>2. CASE op.type \notin {BOOL, DOUBLE}
      <4>1. ip = 3 /\ op.type # DOUBLE /\ op.type # BOOL
        BY <1>3, <1>12, <3>2
      <4>2. Left(0) /\ Represents(A(1), reg["rsi"]) /\ Where = "rsi"
        BY <1>3, <4>1, Facts DEF Points, AtDisplays, Where
      <4>3. A(1).type = op.type
        BY <1>3, <1>5 DEF Slots
      <4> QED BY <4>1, <4>2, <4>3, Meant DEF V
    <3> QED BY <3>1, <3>2
  <2> QED BY <2>1, <2>2, <2>3, DisplayCounts
<1> QED BY <1>7, <1>9, <1>10, <1>11, <1>12

(***************************************************************************)
(* The remainder of doubles: the operands are popped into the registers of *)
(* the arguments, last first, and swapped by three exclusive ors.          *)
(***************************************************************************)
LEMMA FmodInner ==
  ASSUME IInv, Within, Same, op.call = "alu_modulus", op.type = DOUBLE, NEW k \in 2 .. 8, ip + 1 = k, Advances,
         store' = store, MachineTyped', reg'["rbp"] = reg["rbp"], st' = <<>>,
         k = 2 => Left(2)', k \in {3, 4} => Left(1)', k > 4 => Left(0)',
         k < 7 => reg'["xmm0"] = V(2), k \in {4, 5} => reg'["xmm1"] = V(1),
         k \in {6, 7} => reg'["xmm1"] = BitXor(V(1), V(2)), k > 6 => reg'["xmm0"] = V(1),
         k = 8 => reg'["xmm1"] = V(2)
  PROVE  IInv'
<1>1. Callers
  BY DEF Callers
<1>2. op.call # "none" /\ Segment = 8 /\ argTypes = <<>> /\ Callee = "fmod" /\ ip \in Nat
  BY <1>1, Called DEF Segment
<1>3. Len(Code(op)) = 14
  BY CodeOfFmod
<1>4. op' = op /\ Segment' = Segment /\ (\A i : V(i)' = V(i)) /\ Callee' = Callee
  BY SameCall DEF Same
<1>5. ip' = k /\ k \in Nat
  BY DEF Advances, Advance
<1>6. AtSegment'
  <2>1. CASE k < 8
    BY <1>1, <1>2, <1>5, <2>1, BeforeSegment
  <2>2. CASE k = 8
    <3>1. Heard("fmod")' = [i \in 1 .. 2 |-> V(i)]
      <4>1. \A i \in 1 .. 2 : reg'[IF i = 1 THEN "xmm0" ELSE "xmm1"] = V(i)
        BY <2>2
      <4> QED BY <4>1, HeardIs
    <3>2. Heard(Callee)' = Said
      BY <1>2, <1>4, <3>1 DEF Heard, Said, Parameters
    <3> QED BY <1>1, <1>2, <1>5, <2>2, <3>2, BeforeSegment
  <2> QED BY <2>1, <2>2
<1>7. AtFmod'
  <2>1. /\ k \in 5 .. 7 => k > 4
        /\ k \in 3 .. 4 => k \in {3, 4}
        /\ k \in 2 .. 6 => k < 7
        /\ k \in 4 .. 5 => k \in {4, 5}
        /\ k \in 6 .. 7 => k \in {6, 7}
        /\ k = 7 => k > 6
    OBVIOUS
  <2> QED BY <1>4, <1>5, <2>1 DEF AtFmod
<1>8. Points'
  BY <1>5, <1>6, <1>7, OnlyPoints
<1>9. Undisturbed
  <2>1. PassedTypes = <<>>
    BY <1>2 DEF PassedTypes
  <2> QED BY <2>1 DEF Undisturbed
<1>10. ip < Len(Code(op)) /\ ip # Segment + 3
  BY <1>2, <1>3
<1> QED BY <1>2, <1>8, <1>9, <1>10, InnerStep

LEMMA FmodSwap ==
  ASSUME IInv, Within, Execute, Same, op.call = "alu_modulus", op.type = DOUBLE, ip \in 5 .. 7
  PROVE  IInv'
<1>1. Callers
  BY DEF Callers
<1>2. op.call # "none" /\ MachineTyped /\ Slots /\ Current = Code(op)[ip] /\ ip \in Nat
  BY <1>1, Called
<1>3. /\ Code(op)[5] = Ins("pxor", "xmm0", "xmm1") /\ Code(op)[6] = Ins("pxor", "xmm1", "xmm0")
      /\ Code(op)[7] = Ins("pxor", "xmm0", "xmm1")
  BY CodeOfFmod
<1>4. {"xmm0", "xmm1"} \subseteq Registers \ {"rbp", "r12"} /\ "rbp" \in Registers \ {"xmm0", "xmm1"}
  BY RegisterNames
<1>5. st = <<>> /\ Left(0)
  BY <1>2, Facts DEF Points, AtFmod
<1>6. PICK a, b : a = V(1) /\ b = V(2)
  OBVIOUS
<1>7. /\ ip \in 5 .. 6 => reg["xmm0"] = b
      /\ ip = 5 => reg["xmm1"] = a
      /\ ip \in 6 .. 7 => reg["xmm1"] = BitXor(a, b)
      /\ ip = 7 => reg["xmm0"] = a
  BY <1>2, <1>6, Facts DEF Points, AtFmod
<1>8. /\ a \in Word /\ b \in Word /\ BitXor(a, b) \in Word /\ BitXor(a, b) = BitXor(b, a)
      /\ BitXor(b, BitXor(a, b)) = a /\ BitXor(BitXor(a, b), a) = b
  <2>1. Base \in Nat /\ Intact(Base + 0)
    BY <1>2, <1>5 DEF Slots, Left
  <2>2. a \in Word /\ b \in Word
    <3>1. Expects(op) = <<DOUBLE, DOUBLE>> /\ Len(<<DOUBLE, DOUBLE>>) = 2
      BY Shapes DEF ArithmeticCalls
    <3>2. /\ before.stack \in Seq([type : Types, value : Word]) /\ Len(before.stack) = Base + 2
      BY <1>2, <3>1 DEF Slots
    <3>3. Base + 1 \in 1 .. Len(before.stack) /\ Base + 2 \in 1 .. Len(before.stack)
      BY <2>1, <3>2
    <3>4. A(1) \in [type : Types, value : Word] /\ A(2) \in [type : Types, value : Word]
      <4>1. PICK T : T = [type : Types, value : Word]
        OBVIOUS
      <4>2. before.stack \in Seq(T)
        BY <3>2, <4>1
      <4>3. \A i \in 1 .. Len(before.stack) : before.stack[i] \in T
        BY ONLY <4>2
      <4> QED BY <3>3, <4>1, <4>3 DEF A
    <3> QED BY <1>6, <3>4 DEF V
  <2> QED BY <2>2, BitwiseAssumption
<1>9. PICK k : k = ip + 1
  OBVIOUS
<1>10. ASSUME NEW q \in {"xmm0", "xmm1"}, NEW r \in {"xmm0", "xmm1"}, q # r, Current = Ins("pxor", q, r)
       PROVE  /\ Advances /\ UNCHANGED <<mem, store, st, flags>> /\ MachineTyped' /\ st' = <<>> /\ Left(0)'
              /\ reg'[r] = BitXor(reg[r], reg[q]) /\ reg'[q] = reg[q] /\ reg'["rbp"] = reg["rbp"]
  <2>1. /\ Advances /\ UNCHANGED <<mem, store, st, flags>> /\ MachineTyped'
        /\ reg'[r] = BitXor(reg[r], reg[q]) /\ \A p \in Registers \ {r} : reg'[p] = reg[p]
    BY <1>2, <1>4, <1>10, RunAluRegisters
  <2> QED BY <1>4, <1>5, <1>10, <2>1, LeftStays
<1>11. CASE ip = 5
  <2>1. /\ Advances /\ UNCHANGED <<mem, store, st, flags>> /\ MachineTyped' /\ st' = <<>> /\ Left(0)'
        /\ reg'["xmm1"] = BitXor(a, b) /\ reg'["xmm0"] = b /\ reg'["rbp"] = reg["rbp"]
    BY <1>2, <1>3, <1>7, <1>10, <1>11
  <2>2. k = 6 /\ k \in 2 .. 8 /\ k > 4 /\ k < 7
    BY <1>9, <1>11
  <2> QED BY <1>6, <1>9, <2>1, <2>2, FmodInner
<1>12. CASE ip = 6
  <2>1. /\ Advances /\ UNCHANGED <<mem, store, st, flags>> /\ MachineTyped' /\ st' = <<>> /\ Left(0)'
        /\ reg'["xmm0"] = a /\ reg'["xmm1"] = BitXor(a, b) /\ reg'["rbp"] = reg["rbp"]
    BY <1>2, <1>3, <1>7, <1>8, <1>10, <1>12
  <2>2. k = 7 /\ k \in 2 .. 8 /\ k > 4 /\ k > 6 /\ ~ k < 7
    BY <1>9, <1>12
  <2> QED BY <1>6, <1>9, <2>1, <2>2, FmodInner
<1>13. CASE ip = 7
  <2>1. /\ Advances /\ UNCHANGED <<mem, store, st, flags>> /\ MachineTyped' /\ st' = <<>> /\ Left(0)'
        /\ reg'["xmm1"] = b /\ reg'["xmm0"] = a /\ reg'["rbp"] = reg["rbp"]
    BY <1>2, <1>3, <1>7, <1>8, <1>10, <1>13
  <2>2. k = 8 /\ k \in 2 .. 8 /\ k > 4 /\ k > 6 /\ ~ k < 7
    BY <1>9, <1>13
  <2> QED BY <1>6, <1>9, <2>1, <2>2, FmodInner
<1> QED BY <1>2, <1>11, <1>12, <1>13

LEMMA FmodPrelude ==
  ASSUME IInv, Within, Execute, Same, op.call = "alu_modulus", op.type = DOUBLE, ip < 8
  PROVE  IInv'
<1>1. Callers
  BY DEF Callers
<1>2. op.call # "none" /\ MachineTyped /\ Slots /\ Current = Code(op)[ip] /\ ip \in Nat /\ ip >= 1
  BY <1>1, Called
<1>3. /\ Code(op)[1] = Ins("movsd", "(%rsp)", "xmm0") /\ Code(op)[2] = Imm("addq", 1, "rsp")
      /\ Code(op)[3] = Ins("movsd", "(%rsp)", "xmm1") /\ Code(op)[4] = Imm("addq", 1, "rsp")
  BY CodeOfFmod
<1>4. {"xmm0", "xmm1"} \subseteq Registers \ {"rbp", "r12"} /\ "rbp" \in Registers \ {"xmm0", "xmm1"}
  BY RegisterNames
<1>5. Expects(op) = <<DOUBLE, DOUBLE>> /\ Len(Expects(op)) = 2 /\ Expects(op)[1] = DOUBLE /\ Expects(op)[2] = DOUBLE
  BY Shapes DEF ArithmeticCalls
<1>6. ip = 1 => Left(2) /\ st = <<>>
  BY <1>2, <1>5, Facts DEF Points, AtStart
<1>7. /\ ip = 2 => Left(2) /\ st = <<>> /\ reg["xmm0"] = V(2)
      /\ ip = 3 => Left(1) /\ st = <<>> /\ reg["xmm0"] = V(2)
      /\ ip = 4 => Left(1) /\ st = <<>> /\ reg["xmm0"] = V(2) /\ reg["xmm1"] = V(1)
  BY <1>2, Facts DEF Points, AtFmod
<1>8. CASE ip = 1
  <2>1. mem[Len(mem)] = V(2)
    BY <1>2, <1>5, <1>6, <1>8, LeftTop, Meant, TypeNumbers DEF V
  <2>2. /\ Advances /\ UNCHANGED <<mem, store, st, flags>> /\ MachineTyped'
        /\ reg'["xmm0"] = mem[Len(mem)] /\ \A q \in Registers \ {"xmm0"} : reg'[q] = reg[q]
    BY <1>2, <1>3, <1>4, <1>8, RunMoveTop
  <2>3. Left(2)' /\ st' = <<>> /\ reg'["rbp"] = reg["rbp"]
    BY <1>4, <1>6, <1>8, <2>2, LeftStays
  <2>4. 2 \in 2 .. 8 /\ ip + 1 = 2
    BY <1>8
  <2> QED BY <2>1, <2>2, <2>3, <2>4, FmodInner
<1>9. CASE ip = 2
  <2>1. Len(mem) = 1 + Base + 2 /\ Base \in Nat
    BY <1>2, <1>5, <1>7, <1>9, LeftTop DEF Slots
  <2>2. Advances /\ UNCHANGED <<reg, store, st, flags>> /\ MachineTyped' /\ Shrinks(1)
    <3>1. 1 \in 1 .. Len(mem) - 1
      BY <2>1
    <3> QED BY <1>2, <1>3, <1>9, <3>1, RunDropWords
  <2>3. Left(1)' /\ st' = <<>> /\ reg'["xmm0"] = V(2)
    BY <1>2, <1>5, <1>7, <1>9, <2>2, LeftPops
  <2>4. 3 \in 2 .. 8 /\ ip + 1 = 3
    BY <1>9
  <2> QED BY <2>2, <2>3, <2>4, FmodInner
<1>10. CASE ip = 3
  <2>1. mem[Len(mem)] = V(1)
    BY <1>2, <1>5, <1>7, <1>10, LeftTop, Meant, TypeNumbers DEF V
  <2>2. /\ Advances /\ UNCHANGED <<mem, store, st, flags>> /\ MachineTyped'
        /\ reg'["xmm1"] = mem[Len(mem)] /\ \A q \in Registers \ {"xmm1"} : reg'[q] = reg[q]
    BY <1>2, <1>3, <1>4, <1>10, RunMoveTop
  <2>3. Left(1)' /\ st' = <<>> /\ reg'["rbp"] = reg["rbp"] /\ reg'["xmm0"] = V(2)
    BY <1>4, <1>7, <1>10, <2>2, LeftStays
  <2>4. 4 \in 2 .. 8 /\ ip + 1 = 4
    BY <1>10
  <2> QED BY <2>1, <2>2, <2>3, <2>4, FmodInner
<1>11. CASE ip = 4
  <2>1. Len(mem) = 1 + Base + 1 /\ Base \in Nat
    BY <1>2, <1>5, <1>7, <1>11, LeftTop DEF Slots
  <2>2. Advances /\ UNCHANGED <<reg, store, st, flags>> /\ MachineTyped' /\ Shrinks(1)
    <3>1. 1 \in 1 .. Len(mem) - 1
      BY <2>1
    <3> QED BY <1>2, <1>3, <1>11, <3>1, RunDropWords
  <2>3. Left(0)' /\ st' = <<>> /\ reg'["xmm0"] = V(2) /\ reg'["xmm1"] = V(1)
    BY <1>2, <1>5, <1>7, <1>11, <2>2, LeftPops
  <2>4. 5 \in 2 .. 8 /\ ip + 1 = 5
    BY <1>11
  <2> QED BY <2>2, <2>3, <2>4, FmodInner
<1>12. CASE ip \in 5 .. 7
  BY <1>12, FmodSwap
<1> QED BY <1>2, <1>8, <1>9, <1>10, <1>11, <1>12

LEMMA CallsOfFunctions ==
  ASSUME IInv, Within, Execute, Same, Callers
  PROVE  IInv'
<1>1. CASE ip >= Segment
  BY <1>1, CallSegment
<1>2. CASE ~ ip >= Segment
  <2>1. PICK s : s = Segment
    OBVIOUS
  <2>2. s \in {1, 4, 5, 8} /\ ip \in Nat /\ ip >= 1 /\ ip < s
    BY <1>2, <2>1, Called
  <2>3. CASE op.call = "function_call_finalize"
    BY <2>1, <2>2, <2>3 DEF Segment
  <2>4. CASE op.call = "alu_modulus"
    <3>1. op.type = DOUBLE /\ s = 8
      BY <2>1, <2>4 DEF Segment, Callers
    <3> QED BY <2>2, <2>4, <3>1, FmodPrelude
  <2>5. CASE op.call = "debug_display"
    BY <2>1, <2>2, <2>5, DisplayPrelude
  <2> QED BY <2>3, <2>4, <2>5 DEF Callers
<1> QED BY <1>1, <1>2

(***************************************************************************)
(* The code before and after the block of main.                            *)
(***************************************************************************)
LEMMA EndOfMain ==
  ASSUME IInv, Within, Execute, Same, op.call = "finalize_main_procedure"
  PROVE  IInv'
<1>1. op.call # "none" /\ ~Callers
  BY DEF Callers
<1>2. MachineTyped /\ ip \in 1 .. Len(Code(op)) /\ Current = Code(op)[ip] /\ reg["rbp"] = StackBase - 1
  BY <1>1, Facts
<1>3. Len(Code(op)) = 2 /\ Code(op)[1] = Ins("movq", "rbp", "rsp") /\ Code(op)[2] = Ins("ret", NoName, NoName)
  BY CodeOfMain
<1>4. CASE ip = 1
  <2>1. Advances /\ UNCHANGED <<reg, store, st, flags>> /\ MachineTyped' /\ Len(mem') = 1
    BY <1>2, <1>3, <1>4, RunRestoreStack
  <2>2. ip' = 2
    BY <1>4, <2>1 DEF Advances, Advance
  <2>3. Points'
    BY <2>1, <2>2, OnlyPoints DEF AtEnd
  <2> QED BY <1>1, <1>3, <1>4, <2>1, <2>3, InnerStep, UndisturbedIf
<1>5. CASE ip = 2
  <2>1. Stop("returned")
    BY <1>2, <1>3, <1>5, RunReturn
  <2>2. Len(mem) = 1
    BY <1>1, <1>5, Facts DEF Points, AtEnd
  <2> QED BY <2>1, <2>2, Stays
<1> QED BY <1>2, <1>3, <1>4, <1>5

LEMMA StartOfMain ==
  ASSUME IInv, Within, Execute, Same, op.call = "none"
  PROVE  IInv'
<1>1. MachineTyped /\ Control /\ Slots /\ Unassigned /\ Kept /\ Points /\ ~Callers
  BY DEF IInv, Callers
<1>2. code = BeginMain /\ ip \in 1 .. Len(code) + 1 /\ ip <= Len(code) /\ count = 0
  BY <1>1 DEF Control, Within
<1>3. Len(code) = 1 /\ ip = 1 /\ Current = Ins("movq", "rsp", "rbp")
  BY <1>2, CodeOfMain DEF Current
<1>4. Expects(op) = <<>> /\ Leaves(op) = <<>> /\ Len(<<>>) = 0
  BY Shapes
<1>5. Left(0) /\ st = <<>>
  BY <1>1, <1>3, <1>4 DEF Points, AtStart
<1>6. Base = 0 /\ Len(mem) = 1
  <2>1. Base \in Nat /\ Len(operands) \in Nat /\ Len(operands) <= 0
    BY <1>1, <1>2 DEF Slots, Control
  <2>2. Base = Len(operands)
    BY <1>4, <2>1 DEF Base
  <2> QED BY <1>5, <2>1, <2>2 DEF Left
<1>7. Len(mem) <= StackBase
  BY <1>6, ProgramAssumption, MemoryAssumption
<1>8. /\ Advances /\ UNCHANGED <<mem, store, st, flags>> /\ MachineTyped'
      /\ reg'["rbp"] = StackBase - 1 /\ \A q \in Registers \ {"rbp"} : reg'[q] = reg[q]
  BY <1>1, <1>3, <1>6, <1>7, RunSaveStack
<1>9. ip' = Len(code) + 1 /\ UNCHANGED <<code, running, heard>>
  BY <1>3, <1>8 DEF Advances, Advance
<1>10. op' = op /\ Base' = Base /\ Callers' = Callers
  BY SameCall DEF Same
<1>11. Kept'
  <2>1. Spoke' <=> Spoke
    BY <1>1, <1>10 DEF Spoke
  <2>2. \A i \in 1 .. Len(PassedTypes) : reg'[Place(PassedTypes, i)] = reg[Place(PassedTypes, i)]
    <3>1. \A r \in ParameterRegisters : r \in Registers \ {"rbp"}
      BY ParameterRegister
    <3> QED BY <1>1, <1>8, <3>1, PassedPlaces
  <2> QED BY <1>1, <1>9, <2>1, <2>2, KeptStays
<1>12. Effects'
  BY <1>1, <1>8, <1>11, EffectsStay
<1>13. Yields'
  BY <1>4, <1>10 DEF Yields
<1>14. Remains'
  <2>1. Left(0)'
    BY <1>5, <1>8, LeftStays
  <2>2. Len(mem') = 1 /\ Intact(Base)'
    BY <1>6, <1>8, <1>10, <2>1 DEF Left
  <2> QED BY <1>4, <1>5, <1>6, <1>8, <1>10, <2>2 DEF Remains
<1> QED BY <1>8, <1>9, <1>12, <1>13, <1>14, Finish

(***************************************************************************)
(* Any instruction.                                                        *)
(***************************************************************************)
LEMMA RunStep ==
  ASSUME IInv, Run
  PROVE  IInv'
<1>1. Execute /\ Same /\ Within
  BY Dispatch DEF Run, Same, Within
<1>2. WellFormed(op)
  BY DEF IInv, Control
<1>3. CASE Callers
  BY <1>1, <1>3, CallsOfFunctions
<1>4. CASE op.call \in ArithmeticCalls /\ ~Callers
  <2>1. op.type \in Arithmetic
    BY <1>2, <1>4 DEF WellFormed
  <2>2. CASE op.type = DOUBLE
    <3>1. op.call # "alu_modulus"
      BY <1>4, <2>2 DEF Callers
    <3>2. op.call \in Sums
      BY <1>4, <3>1 DEF ArithmeticCalls, Sums
    <3> QED BY <1>1, <2>2, <3>2, DoubleOperation DEF DoubleBinop
  <2>3. CASE op.type # DOUBLE
    BY <1>1, <1>4, <2>3, IntegerOperation
  <2> QED BY <2>2, <2>3
<1>5. CASE op.call \in Bools
  <2>1. op.type # DOUBLE
    BY <1>2, <1>5, TypeNumbers DEF WellFormed
  <2> QED BY <1>1, <1>5, <2>1, IntegerOperation
<1>6. CASE op.call \in Compares
  <2>1. CASE op.type = DOUBLE
    BY <1>1, <1>6, <2>1, DoubleOperation DEF DoubleBinop
  <2>2. CASE op.type # DOUBLE
    BY <1>1, <1>6, <2>2, IntegerComparison
  <2> QED BY <2>1, <2>2
<1>7. CASE op.call \in {"none", "finalize_main_procedure"}
  BY <1>1, <1>7, StartOfMain, EndOfMain
<1>8. CASE op.call \in {"load_i64", "load_variable", "load_pointer_to_variable", "load_value_from_pointer"}
  BY <1>1, <1>8, LoadLiteral, LoadVariable, LoadAddress, LoadPointed
<1>9. CASE op.call \in {"store_variable", "store_value_to_pointer", "alu_not_bool"}
  BY <1>1, <1>9, StoreVariable, StorePointed, Negation
<1>10. CASE op.call \in {"convert", "function_call_param"}
  BY <1>1, <1>10, Conversion, Argumentation
<1>11. CASE op.call \in {"debug_display", "function_call_finalize"}
  BY <1>3, <1>11 DEF Callers
<1> QED BY <1>2, <1>3, <1>4, <1>5, <1>6, <1>7, <1>8, <1>9, <1>10, <1>11 DEF WellFormed

(***************************************************************************)
(* Between two calls.                                                      *)
(***************************************************************************)
LEMMA FewLeaves ==
  \A o : /\ Leaves(o) = <<>> \/ \E t : Leaves(o) = <<t>>
         /\ Len(Leaves(o)) \in {0, 1} /\ (Len(Leaves(o)) = 0 <=> Leaves(o) = <<>>)
<1> TAKE o
<1>1. Leaves(o) = <<>> \/ \E t : Leaves(o) = <<t>>
  BY DEF Leaves
<1>2. Len(<<>>) = 0 /\ \A t : Len(<<t>>) = 1 /\ <<t>> # <<>>
  OBVIOUS
<1> QED BY <1>1, <1>2

LEMMA DenotesWord ==
  ASSUME NEW t, NEW w \in Word
  PROVE  Denotes(t, w) \in Word
BY CharOfWord, ModulusFacts DEF Denotes

LEMMA BoundaryStack ==
  ASSUME IInv, AtBoundary
  PROVE  /\ Len(operands) \in Nat /\ Len(mem) = 1 + Len(operands) /\ Base \in Nat
         /\ \A i \in 1 .. Len(operands) : Sound(operands[i], mem[i + 1])
         /\ MachineTyped /\ Control /\ Remains /\ Yields /\ Effects /\ st = <<>> /\ reg["rbp"] = StackBase - 1
<1>1. MachineTyped /\ Control /\ Slots /\ Remains /\ Yields /\ Effects
  BY DEF IInv
<1>2. PICK n, b, l : n = Len(operands) /\ b = Base /\ l = Len(Leaves(op))
  OBVIOUS
<1>0. l \in {0, 1} /\ (l = 0 <=> Leaves(op) = <<>>)
  <2>1. Len(Leaves(op)) \in {0, 1} /\ (Len(Leaves(op)) = 0 <=> Leaves(op) = <<>>)
    BY FewLeaves
  <2> QED BY <1>2, <2>1
<1>3. n \in Nat /\ b \in Nat /\ l \in {0, 1} /\ b = n - l
  <2>1. operands \in Seq(Types) /\ Base \in Nat
    BY <1>1 DEF Control, Slots
  <2>2. n \in Nat
    BY <1>2, <2>1
  <2> QED BY <1>0, <1>2, <2>1, <2>2 DEF Base
<1>4. Len(mem) = 1 + b + l /\ Intact(Base)
  BY <1>1, <1>2 DEF Remains
<1>5. Len(mem) = 1 + n
  BY <1>3, <1>4
<1>6. ASSUME NEW i \in 1 .. n PROVE Sound(operands[i], mem[i + 1])
  <2>1. CASE i \in 1 .. b
    <3>1. Represents(before.stack[i], mem[i + 1]) /\ before.stack[i].type = operands[i]
      BY <1>1, <1>2, <1>4, <2>1 DEF Intact, Slots
    <3> QED BY <3>1 DEF Represents
  <2>2. CASE i \notin 1 .. b
    <3>1. i = b + 1 /\ l = 1
      BY <1>3, <2>2
    <3>2. Leaves(op) # <<>>
      BY <1>0, <3>1
    <3>3. operands[b + 1] = Leaves(op)[1] /\ Sound(Leaves(op)[1], mem[b + 2])
      BY <1>1, <1>2, <3>2 DEF Slots, Yields, Top
    <3>4. i + 1 = b + 2
      BY <1>3, <3>1
    <3> QED BY <3>1, <3>3, <3>4
  <2> QED BY <2>1, <2>2
<1> QED BY <1>1, <1>2, <1>3, <1>5, <1>6 DEF Remains

\* What the history variable takes.
LEMMA MeaningIs ==
  ASSUME IInv, AtBoundary
  PROVE  /\ Meaning.stack = [i \in 1 .. Len(operands) |-> [type |-> operands[i], value |-> Denotes(operands[i], mem[i + 1])]]
         /\ Meaning.stack \in Seq([type : Types, value : Word]) /\ Len(Meaning.stack) = Len(operands)
         /\ \A i \in 1 .. Len(operands) : /\ Represents(Meaning.stack[i], mem[i + 1])
                                          /\ Meaning.stack[i].type = operands[i]
                                          /\ Meaning.stack[i].value = Denotes(operands[i], mem[i + 1])
         /\ Meaning.variables = Stored /\ Meaning.args = ArgumentsOf(argTypes) /\ Meaning.heard = heard
         /\ Meaning.last = op
<1>1. PICK n \in Nat : n = Len(operands) /\ Len(mem) = 1 + n
  BY BoundaryStack
<1>2. \A i \in 1 .. n : i < Len(mem) /\ operands[i] \in Types /\ mem[i + 1] \in Word
  <2>1. operands \in Seq(Types) /\ mem \in Seq(Word)
    BY BoundaryStack DEF Control, MachineTyped
  <2> QED BY <1>1, <2>1
<1> DEFINE value(i) == Denotes(operands[i], mem[i + 1])
           slot(i) == [type |-> operands[i], value |-> value(i)]
<1>3. Meaning.stack = [i \in 1 .. n |-> slot(i)]
  BY <1>1, <1>2 DEF Meaning
<1>4. \A i \in 1 .. n : value(i) \in Word
  BY <1>2, DenotesWord
<1>5. \A i \in 1 .. n : slot(i) \in [type : Types, value : Word] /\ slot(i).type = operands[i] /\ slot(i).value = value(i)
  BY <1>2, <1>4
<1>6. \A i \in 1 .. n : Represents(slot(i), mem[i + 1])
  BY <1>1, <1>5, BoundaryStack DEF Represents
<1> HIDE DEF slot
<1>7. PICK T : T = [type : Types, value : Word]
  OBVIOUS
<1>8. Meaning.stack \in Seq(T) /\ Len(Meaning.stack) = n
  BY <1>3, <1>5, <1>7
<1>9. /\ Meaning.variables = Stored /\ Meaning.args = ArgumentsOf(argTypes) /\ Meaning.heard = heard
      /\ Meaning.last = op
  BY DEF Meaning, Stored, ArgumentsOf
<1>10. Meaning.stack = [i \in 1 .. Len(operands) |-> [type |-> operands[i], value |-> Denotes(operands[i], mem[i + 1])]]
  BY <1>1, <1>3 DEF slot
<1> QED BY <1>1, <1>3, <1>5, <1>6, <1>7, <1>8, <1>9, <1>10

(***************************************************************************)
(* The calls the parser can make have the arguments they should.           *)
(***************************************************************************)
LEMMA Fields ==
  ASSUME NEW c, NEW t, NEW d, NEW k
  PROVE  /\ OpOf(c, t).call = c /\ OpOf(c, t).type = t
         /\ OpTo(c, t, d).call = c /\ OpTo(c, t, d).type = t /\ OpTo(c, t, d).dest = d
         /\ OpNamed(c, t, d).call = c /\ OpNamed(c, t, d).type = t /\ OpNamed(c, t, d).name = d
         /\ [OpOf(c, t) EXCEPT !.n = d].call = c /\ [OpOf(c, t) EXCEPT !.n = d].type = t
         /\ [OpOf(c, t) EXCEPT !.n = d].n = d
         /\ [OpTo(c, t, d) EXCEPT !.n = k].call = c /\ [OpTo(c, t, d) EXCEPT !.n = k].type = t
         /\ [OpTo(c, t, d) EXCEPT !.n = k].dest = d
         /\ [OpNamed(c, t, d) EXCEPT !.n = k].call = c /\ [OpNamed(c, t, d) EXCEPT !.n = k].type = t
         /\ [OpNamed(c, t, d) EXCEPT !.n = k].name = d
BY DEF OpOf, OpTo, OpNamed, NoOp

LEMMA PositionNatural == \A types, t : types \in Seq(Concrete) => Position(types, t) \in Nat
<1> TAKE types, t
<1> HAVE types \in Seq(Concrete)
<1> DEFINE S == {k \in DOMAIN types : IsFloat(types[k]) = IsFloat(t)}
<1>1. S \subseteq 1 .. Len(types) /\ Len(types) \in Nat
  OBVIOUS
<1>2. IsFiniteSet(1 .. Len(types))
  BY <1>1, FS_Interval
<1>3. IsFiniteSet(S)
  BY <1>1, <1>2, FS_Subset
<1>4. Cardinality(S) \in Nat
  BY <1>3, FS_CardinalityType
<1> QED BY <1>4 DEF Position

\* The calls with a value the language has, by what their texts are.
LEMMA TypedCases ==
  ASSUME NEW o \in Typed
  PROVE  \/ \E t \in Arithmetic \cup {CHAR} : o = OpOf("load_i64", t)
         \/ \E c \in {"load_variable", "store_variable"}, v \in DOMAIN VarType : o = OpNamed(c, VarType[v], v)
         \/ \E v \in DOMAIN VarType, t \in DOMAIN PointsTo :
              PointsTo[t] = VarType[v] /\ o = OpNamed("load_pointer_to_variable", t, v)
         \/ \E t \in DOMAIN PointsTo : \/ o = OpTo("load_value_from_pointer", t, PointsTo[t])
                                       \/ o = OpTo("store_value_to_pointer", PointsTo[t], t)
         \/ \E c \in ArithmeticCalls \cup Compares, t \in Arithmetic : o = OpOf(c, t)
         \/ \E c \in {"alu_and_bool", "alu_or_bool", "alu_not_bool"} : o = OpOf(c, BOOL)
         \/ \E s \in Concrete, t \in Concrete : CanConvert(s, t) /\ o = OpTo("convert", s, t)
         \/ \E c \in {"debug_display", "function_call_param"}, t \in Concrete : o = OpOf(c, t)
         \/ \E f \in DOMAIN Signature : o = OpNamed("function_call_finalize", Returns[f], f)
<1> DEFINE
      A1 == {OpOf("load_i64", t) : t \in Arithmetic \cup {CHAR}}
      A2 == {OpNamed(c, VarType[v], v) : c \in {"load_variable", "store_variable"}, v \in DOMAIN VarType}
      A3 == UNION {{OpNamed("load_pointer_to_variable", t, v) : t \in {u \in DOMAIN PointsTo : PointsTo[u] = VarType[v]}} :
                     v \in DOMAIN VarType}
      A4 == {OpTo("load_value_from_pointer", t, PointsTo[t]) : t \in DOMAIN PointsTo}
      A5 == {OpTo("store_value_to_pointer", PointsTo[t], t) : t \in DOMAIN PointsTo}
      A6 == {OpOf(c, t) : c \in ArithmeticCalls \cup Compares, t \in Arithmetic}
      A7 == {OpOf(c, BOOL) : c \in {"alu_and_bool", "alu_or_bool", "alu_not_bool"}}
      A8 == {OpTo("convert", s[1], s[2]) : s \in {p \in Concrete \X Concrete : CanConvert(p[1], p[2])}}
      A9 == {OpOf(c, t) : c \in {"debug_display", "function_call_param"}, t \in Concrete}
      A10 == {OpNamed("function_call_finalize", Returns[f], f) : f \in {g \in DOMAIN Returns : CanReturn(Returns[g])}}
<1>0. o \in A1 \cup A2 \cup A3 \cup A4 \cup A5 \cup A6 \cup A7 \cup A8 \cup A9 \cup A10
  BY DEF Typed, TypedCalls
<1>1. o \in A1 => \E t \in Arithmetic \cup {CHAR} : o = OpOf("load_i64", t)
  OBVIOUS
<1>2. o \in A2 => \E c \in {"load_variable", "store_variable"}, v \in DOMAIN VarType : o = OpNamed(c, VarType[v], v)
  OBVIOUS
<1>3. o \in A3 => \E v \in DOMAIN VarType, t \in DOMAIN PointsTo :
                    PointsTo[t] = VarType[v] /\ o = OpNamed("load_pointer_to_variable", t, v)
  <2> SUFFICES ASSUME o \in A3
               PROVE  \E v \in DOMAIN VarType, t \in DOMAIN PointsTo :
                        PointsTo[t] = VarType[v] /\ o = OpNamed("load_pointer_to_variable", t, v)
    OBVIOUS
  <2>1. PICK v \in DOMAIN VarType :
          o \in {OpNamed("load_pointer_to_variable", t, v) : t \in {u \in DOMAIN PointsTo : PointsTo[u] = VarType[v]}}
    OBVIOUS
  <2>2. PICK t \in {u \in DOMAIN PointsTo : PointsTo[u] = VarType[v]} : o = OpNamed("load_pointer_to_variable", t, v)
    BY <2>1
  <2> QED BY <2>2
<1>4. o \in A4 \cup A5 => \E t \in DOMAIN PointsTo : \/ o = OpTo("load_value_from_pointer", t, PointsTo[t])
                                                  \/ o = OpTo("store_value_to_pointer", PointsTo[t], t)
  OBVIOUS
<1>5. o \in A6 => \E c \in ArithmeticCalls \cup Compares, t \in Arithmetic : o = OpOf(c, t)
  OBVIOUS
<1>6. o \in A7 => \E c \in {"alu_and_bool", "alu_or_bool", "alu_not_bool"} : o = OpOf(c, BOOL)
  OBVIOUS
<1>7. o \in A8 => \E s \in Concrete, t \in Concrete : CanConvert(s, t) /\ o = OpTo("convert", s, t)
  <2> SUFFICES ASSUME o \in A8 PROVE \E s \in Concrete, t \in Concrete : CanConvert(s, t) /\ o = OpTo("convert", s, t)
    OBVIOUS
  <2>1. PICK p \in {q \in Concrete \X Concrete : CanConvert(q[1], q[2])} : o = OpTo("convert", p[1], p[2])
    OBVIOUS
  <2>2. p[1] \in Concrete /\ p[2] \in Concrete /\ CanConvert(p[1], p[2])
    OBVIOUS
  <2> QED BY <2>1, <2>2
<1>8. o \in A9 => \E c \in {"debug_display", "function_call_param"}, t \in Concrete : o = OpOf(c, t)
  OBVIOUS
<1>9. o \in A10 => \E f \in DOMAIN Signature : o = OpNamed("function_call_finalize", Returns[f], f)
  BY SignatureAssumption
<1> HIDE DEF A1, A2, A3, A4, A5, A6, A7, A8, A9, A10
<1>10. o \in A1 \cup A2 \cup A3 \/ o \in A4 \cup A5 \/ o \in A6 \cup A7 \cup A8 \/ o \in A9 \cup A10
  BY <1>0
<1> QED BY <1>10, <1>1, <1>2, <1>3, <1>4, <1>5, <1>6, <1>7, <1>8, <1>9, Zenon

\* The call for a literal carries the value of a literal of its type.
LEMMA LiteralNumbers ==
  ASSUME NEW b, b.call = "load_i64"
  PROVE  Numbers(b) = {l.value : l \in {m \in Literals : m.type = b.type}}
<1>1. b.call \notin Compares /\ b.call # "function_call_param"
  BY DEF Compares
<1> DEFINE Values == {l.value : l \in {m \in Literals : m.type = b.type}}
           Spots  == {Position(argTypes, b.type)}
<1>2. Numbers(b) = CASE b.call = "load_i64"            -> Values
                     [] b.call \in Compares            -> {1}
                     [] b.call = "function_call_param" -> Spots
                     [] OTHER                          -> {0}
  BY Zenon DEF Numbers
<1> HIDE DEF Values, Spots
<1>3. Numbers(b) = Values
  BY <1>1, <1>2, SMT
<1> QED BY <1>3 DEF Values

LEMMA WellFormedPossible ==
  ASSUME argTypes \in Seq(Concrete), NEW o \in Possible
  PROVE  /\ WellFormed(o) /\ o.call \notin {"none", "finalize_main_procedure"}
         /\ o.call = "function_call_param" => o.n = Position(argTypes, o.type)
<1>1. PICK b \in Typed : o \in {[b EXCEPT !.n = k] : k \in Numbers(b)}
  BY DEF Possible
<1>2. PICK k \in Numbers(b) : o = [b EXCEPT !.n = k]
  BY <1>1
<1>3. /\ \A c, t : b = OpOf(c, t) => (b.call = c /\ b.type = t /\ o.call = c /\ o.type = t /\ o.n = k)
      /\ \A c, t, d : b = OpTo(c, t, d) => (o.call = c /\ o.type = t /\ o.dest = d)
      /\ \A c, t, d : b = OpNamed(c, t, d) => (o.call = c /\ o.type = t /\ o.name = d)
  BY <1>2, Fields
<1>4. CASE \E t \in Arithmetic \cup {CHAR} : b = OpOf("load_i64", t)
  <2>1. PICK t \in Arithmetic \cup {CHAR} : b = OpOf("load_i64", t)
    BY <1>4
  <2>2. b.call = "load_i64" /\ o.call = "load_i64" /\ o.type = t /\ o.n = k
    BY <1>3, <2>1
  <2>3. k \in {l.value : l \in {m \in Literals : m.type = b.type}}
    BY <2>2, LiteralNumbers, Zenon
  <2>4. PICK l \in Literals : k = l.value
    BY <2>3, Zenon
  <2>5. k \in Word
    BY <2>4, ProgramAssumption
  <2> QED BY <2>2, <2>5 DEF WellFormed, Compares, ArithmeticCalls, Bools
<1>5. CASE \E c \in {"load_variable", "store_variable"}, v \in DOMAIN VarType : b = OpNamed(c, VarType[v], v)
  <2>1. PICK c \in {"load_variable", "store_variable"}, v \in DOMAIN VarType : b = OpNamed(c, VarType[v], v)
    BY <1>5
  <2>2. o.call = c /\ o.type = VarType[v] /\ o.name = v
    BY <1>3, <2>1
  <2> QED BY <2>2 DEF WellFormed, Compares, ArithmeticCalls, Bools
<1>6. CASE \E v \in DOMAIN VarType, t \in DOMAIN PointsTo :
             PointsTo[t] = VarType[v] /\ b = OpNamed("load_pointer_to_variable", t, v)
  <2>1. PICK v \in DOMAIN VarType, t \in DOMAIN PointsTo :
          PointsTo[t] = VarType[v] /\ b = OpNamed("load_pointer_to_variable", t, v)
    BY <1>6
  <2>2. o.call = "load_pointer_to_variable" /\ o.type = t /\ o.name = v
    BY <1>3, <2>1
  <2> QED BY <2>1, <2>2 DEF WellFormed, Compares, ArithmeticCalls, Bools
<1>7. CASE \E t \in DOMAIN PointsTo : \/ b = OpTo("load_value_from_pointer", t, PointsTo[t])
                                     \/ b = OpTo("store_value_to_pointer", PointsTo[t], t)
  <2>1. PICK t \in DOMAIN PointsTo : \/ b = OpTo("load_value_from_pointer", t, PointsTo[t])
                                    \/ b = OpTo("store_value_to_pointer", PointsTo[t], t)
    BY <1>7
  <2>2. \/ o.call = "load_value_from_pointer" /\ o.type = t /\ o.dest = PointsTo[t]
        \/ o.call = "store_value_to_pointer" /\ o.type = PointsTo[t] /\ o.dest = t
    BY <1>3, <2>1
  <2> QED BY <2>2 DEF WellFormed, Compares, ArithmeticCalls, Bools
<1>8. CASE \E c \in ArithmeticCalls \cup Compares, t \in Arithmetic : b = OpOf(c, t)
  <2>1. PICK c \in ArithmeticCalls \cup Compares, t \in Arithmetic : b = OpOf(c, t)
    BY <1>8
  <2>2. o.call = c /\ o.type = t
    BY <1>3, <2>1
  <2> QED BY <2>2 DEF WellFormed, Compares, ArithmeticCalls, Bools
<1>9. CASE \E c \in {"alu_and_bool", "alu_or_bool", "alu_not_bool"} : b = OpOf(c, BOOL)
  <2>1. PICK c \in {"alu_and_bool", "alu_or_bool", "alu_not_bool"} : b = OpOf(c, BOOL)
    BY <1>9
  <2>2. o.call = c /\ o.type = BOOL
    BY <1>3, <2>1
  <2> QED BY <2>2 DEF WellFormed, Compares, ArithmeticCalls, Bools
<1>10. CASE \E s \in Concrete, t \in Concrete : CanConvert(s, t) /\ b = OpTo("convert", s, t)
  <2>1. PICK s \in Concrete, t \in Concrete : CanConvert(s, t) /\ b = OpTo("convert", s, t)
    BY <1>10
  <2>2. o.call = "convert" /\ o.type = s /\ o.dest = t
    BY <1>3, <2>1
  <2> QED BY <2>1, <2>2 DEF WellFormed, Compares, ArithmeticCalls, Bools
<1>11. CASE \E c \in {"debug_display", "function_call_param"}, t \in Concrete : b = OpOf(c, t)
  <2>1. PICK c \in {"debug_display", "function_call_param"}, t \in Concrete : b = OpOf(c, t)
    BY <1>11
  <2>2. b.call = c /\ b.type = t /\ o.call = c /\ o.type = t /\ o.n = k
    BY <1>3, <2>1
  <2>3. Position(argTypes, t) \in Nat
    BY PositionNatural
  <2>4. c = "function_call_param" => k = Position(argTypes, t)
    BY <2>2 DEF Numbers, Compares
  <2> QED BY <2>2, <2>3, <2>4 DEF WellFormed, Compares, ArithmeticCalls, Bools
<1>12. CASE \E f \in DOMAIN Signature : b = OpNamed("function_call_finalize", Returns[f], f)
  <2>1. PICK f \in DOMAIN Signature : b = OpNamed("function_call_finalize", Returns[f], f)
    BY <1>12
  <2>2. o.call = "function_call_finalize" /\ o.type = Returns[f] /\ o.name = f
    BY <1>3, <2>1
  <2> QED BY <2>2 DEF WellFormed, Compares, ArithmeticCalls, Bools
<1> QED BY TypedCases, <1>4, <1>5, <1>6, <1>7, <1>8, <1>9, <1>10, <1>11, <1>12, Zenon

LEMMA LeavesTyped ==
  ASSUME NEW o, WellFormed(o)
  PROVE  Leaves(o) \in Seq(Types)
<1>1. \A t \in Types : <<t>> \in Seq(Types)
  OBVIOUS
<1>2. <<>> \in Seq(Types)
  OBVIOUS
<1>3. BOOL \in Types /\ Arithmetic \subseteq Types /\ Concrete \subseteq Types /\ CHAR \in Types /\ DOMAIN PointsTo \subseteq Types
  BY TypeNumbers DEF Types
<1>4. \A v \in DOMAIN VarType : VarType[v] \in Types
  BY ProgramAssumption DEF Types
<1>5. \A t \in DOMAIN PointsTo : PointsTo[t] \in Types
  BY ProgramAssumption DEF Types
<1>6. CASE o.call \in {"load_i64", "load_variable", "load_pointer_to_variable"}
  <2>1. Leaves(o) = <<o.type>>
    BY <1>6, Shapes
  <2>2. o.type \in Types
    BY <1>3, <1>4, <1>6 DEF WellFormed
  <2> QED BY <1>1, <2>1, <2>2
<1>7. CASE o.call \in {"load_value_from_pointer", "convert"}
  <2>1. Leaves(o) = <<o.dest>>
    BY <1>7, Shapes
  <2>2. o.dest \in Types
    BY <1>3, <1>5, <1>7 DEF WellFormed
  <2> QED BY <1>1, <2>1, <2>2
<1>8. CASE o.call \in {"store_variable", "store_value_to_pointer", "debug_display", "function_call_param", "none",
                       "finalize_main_procedure"}
  <2>1. Leaves(o) = <<>>
    BY <1>8, Shapes
  <2> QED BY <1>2, <2>1
<1>9. CASE o.call \in ArithmeticCalls \cup Bools \cup {"alu_not_bool"}
  <2>1. Leaves(o) = <<o.type>>
    BY <1>9, Shapes
  <2>2. o.type \in Types
    BY <1>3, <1>9 DEF WellFormed
  <2> QED BY <1>1, <2>1, <2>2
<1>10. CASE o.call \in Compares
  <2>1. Leaves(o) = <<BOOL>>
    BY <1>10, Shapes
  <2> QED BY <1>1, <1>3, <2>1
<1>11. CASE o.call = "function_call_finalize"
  <2>1. o.type = VOID \/ o.type \in Concrete
    <3>1. CanReturn(o.type)
      BY <1>11, SignatureAssumption DEF WellFormed
    <3> QED BY <3>1, TypeNumbers DEF CanReturn, IsRegular, IsFloat
  <2>2. Leaves(o) = <<>> \/ (o.type \in Concrete /\ Leaves(o) = <<o.type>>)
    BY <1>11, <2>1, Shapes, TypeNumbers
  <2> QED BY <1>1, <1>2, <1>3, <2>2
<1> QED BY <1>6, <1>7, <1>8, <1>9, <1>10, <1>11 DEF WellFormed

(***************************************************************************)
(* A call begins.                                                          *)
(***************************************************************************)
Starts(o) ==
  /\ Begin(o) /\ WellFormed(o) /\ o.call # "none" /\ KnownDefects(o) \subseteq Defects
  /\ Len(Expects(o)) <= Len(operands)
  /\ SubSeq(operands, Len(operands) - Len(Expects(o)) + 1, Len(operands)) = Expects(o)
  /\ operands' = After(operands, o)
  /\ count' \in 0 .. MaxOperations /\ Len(operands) <= count' /\ Len(operands') <= count'
  /\ Passing(argTypes')
  /\ o.call = "function_call_param" => argTypes' = Append(argTypes, o.type) /\ o.n = Position(argTypes, o.type)
  /\ o.call = "function_call_finalize" => argTypes = Signature[o.name] /\ argTypes' = <<>>
  /\ o.call \notin {"function_call_param", "function_call_finalize"} => argTypes' = argTypes
  /\ o.call \in ChangesArguments => argTypes = <<>>

LEMMA FewExpects == \A o : Len(Expects(o)) \in {0, 1, 2}
<1> TAKE o
<1>1. Expects(o) = <<>> \/ (\E t : Expects(o) = <<t>>) \/ \E t, u : Expects(o) = <<t, u>>
  BY DEF Expects
<1> QED BY <1>1

LEMMA Concatenation ==
  ASSUME NEW S, NEW s \in Seq(S), NEW t \in Seq(S)
  PROVE  s \o t \in Seq(S) /\ Len(s \o t) = Len(s) + Len(t) /\ \A i \in 1 .. Len(s) : (s \o t)[i] = s[i]
OBVIOUS

LEMMA StartsOperands ==
  ASSUME IInv, NEW o, Starts(o), NEW n \in Nat, n = Len(operands), NEW e \in Nat, e = Len(Expects(o))
  PROVE  /\ e <= n /\ op' = o
         /\ \A i \in 1 .. e : operands[n - e + i] = Expects(o)[i]
         /\ \A i \in 1 .. n - e : operands'[i] = operands[i]
         /\ Len(operands') = n - e + Len(Leaves(o))
         /\ Leaves(o) # <<>> => operands'[n - e + 1] = Leaves(o)[1]
         /\ operands' \in Seq(Types)
         /\ Base' = n - e
<1>1. op' = o /\ e <= n
  BY DEF Starts, Begin
<1>2. operands \in Seq(Types) /\ Leaves(o) \in Seq(Types)
  BY LeavesTyped DEF Starts, IInv, Control
<1>3. SubSeq(operands, n - e + 1, n) = Expects(o) /\ operands' = SubSeq(operands, 1, n - e) \o Leaves(o)
  BY DEF Starts, After
<1> DEFINE low == SubSeq(operands, 1, n - e)
<1>4. low \in Seq(Types) /\ Len(low) = n - e /\ \A i \in 1 .. n - e : low[i] = operands[i]
  BY <1>1, <1>2
<1>5. ASSUME NEW i \in 1 .. e PROVE operands[n - e + i] = Expects(o)[i]
  <2>1. SubSeq(operands, n - e + 1, n)[i] = operands[n - e + 1 + i - 1]
    BY <1>1, <1>2
  <2>2. n - e + 1 + i - 1 = n - e + i
    OBVIOUS
  <2> QED BY <1>3, <2>1, <2>2
<1> HIDE DEF low
<1>6. operands' = low \o Leaves(o)
  BY <1>3 DEF low
<1>7. Len(Leaves(o)) \in Nat /\ (Leaves(o) # <<>> => Len(Leaves(o)) >= 1)
  BY FewLeaves
<1>8. /\ Len(operands') = n - e + Len(Leaves(o)) /\ operands' \in Seq(Types)
      /\ \A i \in 1 .. n - e : operands'[i] = operands[i]
  <2>1. PICK T, l, m : T = Types /\ l = Leaves(o) /\ m = Len(Leaves(o))
    OBVIOUS
  <2>2. low \in Seq(T) /\ l \in Seq(T) /\ Len(low) = n - e /\ n - e \in Nat /\ operands' = low \o l
    BY <1>1, <1>2, <1>4, <1>6, <2>1
  <2>3. PICK u : u = operands'
    OBVIOUS
  <2>4. PICK k \in Nat : k = n - e
    BY <2>2
  <2>6. low \in Seq(T) /\ l \in Seq(T) /\ Len(low) = k /\ u = low \o l
    BY <2>2, <2>3, <2>4
  <2>5. u \in Seq(T) /\ Len(u) = k + Len(l) /\ \A i \in 1 .. k : u[i] = low[i]
    BY <2>6, Concatenation
  <2> QED BY <1>4, <2>1, <2>3, <2>4, <2>5
<1>9. ASSUME Leaves(o) # <<>> PROVE operands'[n - e + 1] = Leaves(o)[1]
  BY <1>1, <1>2, <1>4, <1>6, <1>7, <1>9
<1>10. Base' = n - e
  <2>1. Base' = Len(operands') - Len(Leaves(o))
    BY <1>1 DEF Base
  <2> QED BY <1>1, <1>7, <1>8, <2>1
<1> QED BY <1>1, <1>5, <1>8, <1>9, <1>10

LEMMA StartsSlots ==
  ASSUME IInv, AtBoundary, NEW o, Starts(o)
  PROVE  /\ Slots' /\ before' = Meaning /\ Base' = Len(operands) - Len(Expects(o))
         /\ \A i \in 1 .. Len(Expects(o)) : /\ A(i)' = Meaning.stack[Len(operands) - Len(Expects(o)) + i]
                                            /\ Represents(A(i)', mem[Len(operands) - Len(Expects(o)) + i + 1])
                                            /\ A(i)'.type = Expects(o)[i]
         /\ Left(Len(Expects(op)))'
<1>1. PICK n \in Nat, e \in Nat : n = Len(operands) /\ e = Len(Expects(o))
  BY FewExpects, BoundaryStack
<1>2. /\ e <= n /\ op' = o
      /\ \A i \in 1 .. e : operands[n - e + i] = Expects(o)[i]
      /\ \A i \in 1 .. n - e : operands'[i] = operands[i]
      /\ Len(operands') = n - e + Len(Leaves(o))
      /\ Leaves(o) # <<>> => operands'[n - e + 1] = Leaves(o)[1]
      /\ operands' \in Seq(Types)
      /\ Base' = n - e
  BY <1>1, StartsOperands
<1>3. before' = Meaning /\ mem' = mem /\ n <= count'
  BY <1>1 DEF Starts, Begin
<1>4. PICK s : s = Meaning.stack
  OBVIOUS
<1>5. /\ s \in Seq([type : Types, value : Word]) /\ Len(s) = n
      /\ \A i \in 1 .. n : Represents(s[i], mem[i + 1]) /\ s[i].type = operands[i]
  BY <1>1, <1>4, MeaningIs
<1>6. before'.stack = s /\ \A i : A(i)' = s[n - e + i]
  BY <1>2, <1>3, <1>4 DEF A
<1>7. ASSUME NEW i \in 1 .. e
      PROVE  Represents(A(i)', mem[n - e + i + 1]) /\ A(i)'.type = Expects(o)[i]
  <2>0. e <= n
    BY <1>2
  <2>1. n - e + i \in 1 .. n
    BY <2>0
  <2> QED BY <1>2, <1>5, <1>6, <2>1
<1>8. \A i \in 1 .. n - e : s[i].type = operands'[i]
  BY <1>2, <1>5
<1>9. Slots'
  <2>1. Base' \in Nat /\ Len(s) = Base' + e /\ Len(s) <= count'
    BY <1>2, <1>3, <1>5
  <2>2. Len(Expects(op))' = e /\ Expects(op)' = Expects(o) /\ Leaves(op)' = Leaves(o)
    BY <1>1, <1>2
  <2>3. \A i \in 1 .. e : A(i)'.type = Expects(o)[i]
    BY <1>7
  <2> QED BY <1>2, <1>5, <1>6, <1>8, <2>1, <2>2, <2>3 DEF Slots
<1>10. Left(Len(Expects(op)))'
  <2>1. Len(mem') = 1 + (n - e) + e
    BY <1>1, <1>2, <1>3, BoundaryStack
  <2>2. Base' + e = n
    BY <1>2
  <2>3. Len(mem') > n /\ \A i \in 1 .. n : Represents(s[i], mem'[i + 1])
    <3>1. Len(mem') > n
      BY <1>2, <2>1
    <3>2. \A i \in 1 .. n : Represents(s[i], mem[i + 1])
      BY <1>5
    <3> QED BY <1>3, <3>1, <3>2
  <2>4. Expects(op)' = Expects(o)
    BY <1>2
  <2> QED BY <1>1, <1>2, <1>6, <2>1, <2>2, <2>3, <2>4 DEF Left, Intact
<1> QED BY <1>1, <1>2, <1>3, <1>4, <1>6, <1>7, <1>9, <1>10

\* Only conversions may have no code.
LEMMA Codes ==
  ASSUME NEW o, WellFormed(o), o.call # "none"
  PROVE  /\ Len(Code(o)) \in Nat
         /\ Len(Code(o)) = 0 => /\ o.call = "convert" /\ Code(o) = <<>>
                                /\ ~(o.type = DOUBLE /\ o.dest = UNSIGNED_INT)
                                /\ ~(o.type = UNSIGNED_INT /\ o.dest = DOUBLE)
<1> DEFINE n == Len(Code(o))
<1>1. CASE o.call \in {"load_i64", "load_variable", "load_pointer_to_variable", "load_value_from_pointer",
                       "store_variable", "store_value_to_pointer", "alu_not_bool"}
  <2>1. n = 1 \/ n = 2 \/ n = 3
    BY <1>1, CodeOfLoads
  <2> QED BY <2>1
<1>2. CASE o.call \in ArithmeticCalls \cup Bools
  <2>1. CASE o.type = DOUBLE /\ o.call \in Sums
    <3>1. n = 6
      BY <2>1, CodeOfDoubles
    <3> QED BY <3>1
  <2>2. CASE o.type = DOUBLE /\ o.call = "alu_modulus"
    <3>1. n = 14
      BY <2>2, CodeOfFmod
    <3> QED BY <3>1
  <2>3. CASE o.type # DOUBLE \/ o.call \in Bools
    <3>1. n = 4 \/ n = 5
      BY <1>2, <2>3, CodeOfIntegers DEF ArithmeticCalls, Bools
    <3> QED BY <3>1
  <2> QED BY <1>2, <2>1, <2>2, <2>3 DEF ArithmeticCalls, Sums
<1>3. CASE o.call \in Compares
  <2>1. n \in Nat /\ n > 0
    BY <1>3, CodeOfIntegerComparison, CodeOfDoubleComparison
  <2> QED BY <2>1
<1>4. CASE o.call = "convert"
  <2>1. CASE \/ o.type = DOUBLE /\ o.dest = UNSIGNED_INT
             \/ o.type = UNSIGNED_INT /\ o.dest = DOUBLE
    <3>1. n = 2
      BY <1>4, <2>1, CodeOfConversions
    <3> QED BY <3>1
  <2>2. CASE ~(o.type = DOUBLE /\ o.dest = UNSIGNED_INT) /\ ~(o.type = UNSIGNED_INT /\ o.dest = DOUBLE)
    <3>1. Code(o) = <<>>
      BY <1>4, <2>2, CodeOfConversions
    <3>2. Len(<<>>) = 0
      OBVIOUS
    <3> QED BY <1>4, <2>2, <3>1, <3>2
  <2> QED BY <2>1, <2>2
<1>5. CASE o.call = "debug_display"
  <2>1. o.type \in Concrete
    BY <1>5 DEF WellFormed
  <2>2. n \in Nat /\ n > 0
    BY <1>5, <2>1, CodeOfDisplays, TypeNumbers
  <2> QED BY <2>2
<1>6. CASE o.call = "function_call_param"
  <2>1. n = 1 \/ n = 2
    BY <1>6, CodeOfArguments
  <2> QED BY <2>1
<1>7. CASE o.call = "function_call_finalize"
  <2>1. n \in {5, 6, 7}
    BY <1>7, CodeOfCalls
  <2> QED BY <2>1
<1>8. CASE o.call = "finalize_main_procedure"
  <2>1. n = 2
    BY <1>8, CodeOfMain
  <2> QED BY <2>1
<1> QED BY <1>1, <1>2, <1>3, <1>4, <1>5, <1>6, <1>7, <1>8 DEF WellFormed

LEMMA Appended ==
  ASSUME NEW S, NEW s \in Seq(S), NEW e
  PROVE  SubSeq(Append(s, e), 1, Len(Append(s, e)) - 1) = s /\ Append(s, e) # <<>>
OBVIOUS

LEMMA StartsArguments ==
  ASSUME IInv, AtBoundary, NEW o, Starts(o)
  PROVE  /\ PassedTypes' = argTypes
         /\ o.call = "function_call_finalize" => Heard(o.name) = ArgumentsOf(argTypes)
<1>1. op' = o /\ argTypes \in Seq(Concrete)
  BY DEF Starts, Begin, IInv, Control, Passing
<1>2. CASE o.call = "function_call_param"
  <2>1. argTypes' = Append(argTypes, o.type)
    BY <1>2 DEF Starts
  <2>2. SubSeq(argTypes', 1, Len(argTypes') - 1) = argTypes
    BY <1>1, <2>1, Appended
  <2>3. PassedTypes' = SubSeq(argTypes', 1, Len(argTypes') - 1)
    BY <1>1, <1>2 DEF PassedTypes
  <2> QED BY <1>2, <2>2, <2>3
<1>3. CASE o.call = "function_call_finalize"
  <2>1. argTypes = Signature[o.name] /\ o.name \in DOMAIN Signature
    BY <1>3 DEF Starts, WellFormed
  <2>2. PassedTypes' = Signature[o.name]
    BY <1>1, <1>3 DEF PassedTypes
  <2>3. Heard(o.name) = ArgumentsOf(Signature[o.name])
    BY <2>1, HeardIs
  <2> QED BY <2>1, <2>2, <2>3
<1>4. CASE o.call \notin {"function_call_param", "function_call_finalize"}
  <2>1. argTypes' = argTypes
    BY <1>4 DEF Starts
  <2>2. PassedTypes' = argTypes'
    BY <1>1, <1>4 DEF PassedTypes
  <2> QED BY <1>4, <2>1, <2>2
<1> QED BY <1>2, <1>3, <1>4

LEMMA StartsControl ==
  ASSUME IInv, AtBoundary, NEW o, Starts(o)
  PROVE  Control'
<1>1. /\ op' = o /\ code' = Code(o) /\ ip' = 1 /\ running' = running /\ running = "running"
      /\ reg' = reg /\ argTypes \in Seq(Concrete) /\ reg["rbp"] = StackBase - 1
  BY BoundaryStack DEF Starts, Begin, AtBoundary, IInv, Control, Passing
<1>2. WellFormed(o) /\ o.call # "none"
  BY DEF Starts
<1>3. ip' \in 1 .. Len(code') + 1
  <2>1. Len(Code(o)) \in Nat
    BY <1>2, Codes
  <2> QED BY <1>1, <2>1
<1>4. operands' \in Seq(Types)
  <2>1. PICK n \in Nat, e \in Nat : n = Len(operands) /\ e = Len(Expects(o))
    BY FewExpects, BoundaryStack
  <2> QED BY <2>1, StartsOperands
<1>5. count' \in 0 .. MaxOperations /\ Len(operands') <= count' /\ Passing(argTypes')
  BY DEF Starts
<1>6. PassedTypes' = argTypes
  BY StartsArguments
<1>7. o.call = "function_call_param" => argTypes' = Append(PassedTypes', o.type) /\ o.n = Position(PassedTypes', o.type)
  BY <1>6 DEF Starts
<1>8. o.call \in ChangesArguments \cup {"function_call_finalize"} => argTypes' = <<>>
  BY DEF Starts, ChangesArguments
<1> QED BY <1>1, <1>2, <1>3, <1>4, <1>5, <1>7, <1>8 DEF Control, Passing

LEMMA StartsCareful ==
  ASSUME IInv, AtBoundary, NEW o, Starts(o)
  PROVE  Careful'
<1> SUFFICES ASSUME Defects \subseteq {"immediate"} PROVE Careful'
  BY DEF Careful
<1>1. op' = o /\ WellFormed(o) /\ KnownDefects(o) \subseteq {"immediate"} /\ mem' = mem
  BY DEF Starts, Begin
<1>2. o.call # "alu_and_bool"
  <2> SUFFICES ASSUME o.call = "alu_and_bool" PROVE FALSE
    OBVIOUS
  <2>1. KnownDefects(o) = {"conjunction"}
    BY DEF KnownDefects
  <2> QED BY <1>1, <2>1
<1>3. ASSUME o.call = "alu_modulus" PROVE o.type = DOUBLE
  <2>1. o.type \in {UNSIGNED_INT, DOUBLE}
    BY <1>1, <1>3, TypeNumbers DEF WellFormed, ArithmeticCalls
  <2>2. ASSUME o.type = UNSIGNED_INT PROVE FALSE
    <3>1. KnownDefects(o) = {"remainder"}
      BY <1>3, <2>2 DEF KnownDefects
    <3> QED BY <1>1, <3>1
  <2> QED BY <2>1, <2>2
<1>4. ASSUME o.call = "convert", o.type = DOUBLE PROVE o.dest # CHAR
  <2> SUFFICES ASSUME o.dest = CHAR PROVE FALSE
    OBVIOUS
  <2>1. KnownDefects(o) = {"character"}
    BY <1>4, TypeNumbers DEF KnownDefects
  <2> QED BY <1>1, <2>1
<1>5. ASSUME o.call = "convert", o.type \in Integral, o.dest = DOUBLE PROVE V(1)' < Half
  <2>1. ~ mem[Len(mem)] >= Half
    <3> SUFFICES ASSUME mem[Len(mem)] >= Half PROVE FALSE
      OBVIOUS
    <3>1. KnownDefects(o) = {"sign"}
      BY <1>5, TypeNumbers DEF KnownDefects
    <3> QED BY <1>1, <3>1
  <2>2. Expects(o) = <<o.type>> /\ Len(<<o.type>>) = 1 /\ <<o.type>>[1] = o.type
    BY <1>5, Shapes
  <2>3. PICK n \in Nat : n = Len(operands) /\ Len(mem) = 1 + n
    BY BoundaryStack
  <2>7. \A i \in 1 .. Len(Expects(o)) : /\ Represents(A(i)', mem[Len(operands) - Len(Expects(o)) + i + 1])
                                         /\ A(i)'.type = Expects(o)[i]
    BY StartsSlots
  <2>4. Represents(A(1)', mem[n - 1 + 1 + 1]) /\ A(1)'.type = o.type
    BY <2>2, <2>3, <2>7
  <2>5. n - 1 + 1 + 1 = Len(mem)
    BY <2>3
  <2>6. A(1)'.value = mem[Len(mem)] /\ mem[Len(mem)] \in Word
    BY <1>5, <2>4, <2>5, Meant, TypeNumbers
  <2> QED BY <2>1, <2>6, WordNat, ModulusFacts DEF V
<1> QED BY <1>1, <1>2, <1>3, <1>4, <1>5 DEF Careful

LEMMA StartsKept ==
  ASSUME IInv, AtBoundary, NEW o, Starts(o)
  PROVE  /\ Unassigned' /\ Kept' /\ before'.args = ArgumentsOf(argTypes) /\ before'.heard = heard
         /\ \A types : ArgumentsOf(types)' = ArgumentsOf(types)
<1>1. /\ op' = o /\ ip' = 1 /\ before' = Meaning /\ reg' = reg /\ heard' = heard /\ store' = store
  BY DEF Starts, Begin
<1>2. before'.args = ArgumentsOf(argTypes) /\ before'.heard = heard /\ before'.variables = Stored
  BY <1>1, MeaningIs
<1>3. PICK s : s = Segment'
  OBVIOUS
<1>4. s \in {1, 4, 5, 8}
  BY <1>3 DEF Segment
<1>5. ~Spoke'
  <2>1. ~ 1 > s + 3
    BY <1>4
  <2> QED BY <1>1, <1>3, <2>1 DEF Spoke
<1>6. \A types : ArgumentsOf(types)' = ArgumentsOf(types)
  <2> TAKE types
  <2>1. \A i : Argument(types, i)' = Argument(types, i)
    BY <1>1, ArgumentAt
  <2> QED BY <2>1 DEF ArgumentsOf
<1>7. before'.args = ArgumentsOf(PassedTypes)'
  <2>1. PICK types : types = argTypes
    OBVIOUS
  <2>2. PassedTypes' = types
    BY <2>1, StartsArguments
  <2>3. ArgumentsOf(types)' = ArgumentsOf(types)
    BY <1>6
  <2>4. before'.args = ArgumentsOf(types)'
    BY <1>2, <2>1, <2>3
  <2> QED BY <2>2, <2>4 DEF ArgumentsOf
<1>8. Kept'
  BY <1>1, <1>2, <1>5, <1>7 DEF Kept
<1>9. Unassigned'
  BY <1>1, <1>2 DEF Unassigned, Stored
<1> QED BY <1>2, <1>6, <1>8, <1>9

LEMMA StartsPoints ==
  ASSUME IInv, AtBoundary, NEW o, Starts(o)
  PROVE  Points'
<1>1. /\ op' = o /\ ip' = 1 /\ st' = st /\ st = <<>> /\ Left(Len(Expects(op)))' /\ reg' = reg /\ WellFormed(o)
  BY BoundaryStack, StartsSlots DEF Starts, Begin
<1>2. PICK s, b : s = Segment' /\ b = Branch'
  OBVIOUS
<1>3. s \in {1, 4, 5, 8} /\ b \in {4, 6} /\ (s = 1 => o.call \notin {"alu_modulus", "debug_display"})
  BY <1>1, <1>2, TypeNumbers DEF Segment, Branch
<1>4. AtStart'
  BY <1>1 DEF AtStart
<1>5. AtLoads' /\ AtConversions' /\ AtArguments' /\ AtEnd'
  BY <1>1 DEF AtLoads, AtConversions, AtArguments, AtEnd
<1>6. AtIntegers' /\ AtDoubles'
  BY <1>1 DEF AtIntegers, AtDoubles
<1>7. AtCompares'
  <2>1. 1 # b /\ 1 # b + 1 /\ 1 # b + 2 /\ 1 \notin b + 3 .. b + 4 /\ 1 # b + 5
    BY <1>3
  <2> QED BY <1>1, <1>2, <2>1 DEF AtCompares
<1>8. AtDisplays' /\ AtFmod'
  BY <1>1, <1>2, <1>3 DEF AtDisplays, AtFmod
<1>9. AtSegment'
  <2>1. /\ 1 # s + 1 /\ 1 \notin s + 2 .. s + 4
        /\ 1 \notin s + 3 .. s + 4 /\ 1 \notin s + 4 .. s + 6 /\ 1 # s + 5 /\ 1 # s + 6
    BY <1>3
  <2>2. CASE s # 1
    <3>1. 1 \notin s .. s + 6 /\ 1 \notin s .. s + 2 /\ 1 \notin s .. s + 3
      BY <1>3, <2>2
    <3> QED BY <1>1, <1>2, <2>1, <3>1 DEF AtSegment
  <2>3. CASE s = 1 /\ Callers'
    <3>1. o.call = "function_call_finalize"
      BY <1>1, <1>3, <2>3 DEF Callers
    <3>2. Left(0)'
      <4>1. Expects(o) = <<>> /\ Len(<<>>) = 0
        BY <3>1, Shapes
      <4> QED BY <1>1, <4>1
    <3>3. Heard(Callee)' = Said'
      <4>1. PICK f : f = o.name
        OBVIOUS
      <4>2. f \in DOMAIN Signature
        BY <1>1, <3>1, <4>1 DEF WellFormed
      <4>3. Heard(f)' = Heard(f)
        BY <4>2, HeardIs, StartsKept
      <4>4. Heard(f) = before'.args
        BY <3>1, <4>1, StartsArguments, StartsKept
      <4>5. Callee' = f /\ Said' = before'.args
        BY <1>1, <3>1, <4>1 DEF Callee, Said
      <4> QED BY <4>3, <4>4, <4>5
    <3> QED BY <1>1, <1>2, <2>1, <3>2, <3>3 DEF AtSegment
  <2>4. CASE ~Callers'
    BY <2>4 DEF AtSegment
  <2> QED BY <2>2, <2>3, <2>4
<1> QED BY <1>4, <1>5, <1>6, <1>7, <1>8, <1>9 DEF Points

\* A conversion without code has converted its operand when it begins.
LEMMA Unconverted ==
  ASSUME NEW o, WellFormed(o), o.call = "convert",
         ~(o.type = DOUBLE /\ o.dest = UNSIGNED_INT), ~(o.type = UNSIGNED_INT /\ o.dest = DOUBLE)
  PROVE  o.dest = o.type \/ (o.dest = CHAR /\ o.type \in {UNSIGNED_INT, BOOL, DOUBLE})
BY TypeNumbers DEF WellFormed, CanConvert

LEMMA ConvertedAlready ==
  ASSUME NEW t \in Concrete, NEW d \in Concrete, d = t \/ (d = CHAR /\ t \in {UNSIGNED_INT, BOOL}), NEW w, Sound(t, w),
         NEW a, a = Denotes(t, w)
  PROVE  \E v \in Was!Converted(t, d, a) : Denotes(d, w) = Was!Kept(d, v)
<1>1. w \in Word
  BY DEF Sound
<1>2. CASE d = t
  <2>1. Was!Converted(t, d, a) = {a}
    BY <1>2, WasNames, TypeNumbers DEF Was!Converted
  <2>2. Was!Kept(t, a) = a
    BY KeptDenotes
  <2> QED BY <1>2, <2>1, <2>2
<1>3. CASE d = CHAR /\ t = UNSIGNED_INT
  <2>1. Was!Converted(t, d, a) = {a}
    BY <1>3, WasNames, TypeNumbers DEF Was!Converted
  <2>2. a = w /\ Denotes(d, w) = CharOf(w)
    BY <1>3, TypeNumbers DEF Denotes
  <2>3. Was!Kept(d, w) = CharOf(w)
    BY <1>3, WasNames DEF Was!Kept
  <2> QED BY <2>1, <2>2, <2>3
<1>4. CASE d = CHAR /\ t = BOOL
  <2>1. Was!Converted(t, d, a) = Word
    BY <1>4, WasNames, TypeNumbers DEF Was!Converted
  <2>2. Denotes(d, w) = CharOf(w)
    BY <1>4, TypeNumbers DEF Denotes
  <2>3. Was!Kept(d, w) = CharOf(w)
    BY <1>4, WasNames DEF Was!Kept
  <2> QED BY <1>1, <2>1, <2>2, <2>3
<1> QED BY <1>2, <1>3, <1>4

LEMMA StartsEmpty ==
  ASSUME IInv, AtBoundary, NEW o, Starts(o), Len(Code(o)) = 0
  PROVE  Remains' /\ Yields' /\ Effects'
<1>1. /\ op' = o /\ reg' = reg /\ mem' = mem /\ st' = st /\ st = <<>> /\ reg["rbp"] = StackBase - 1 /\ heard' = heard
      /\ WellFormed(o)
  BY BoundaryStack DEF Starts, Begin
<1>2. /\ o.call = "convert" /\ o.type \in Concrete /\ o.dest \in Concrete
      /\ o.dest = o.type \/ (o.dest = CHAR /\ o.type \in {UNSIGNED_INT, BOOL, DOUBLE})
  <2>1. o.call = "convert" /\ ~(o.type = DOUBLE /\ o.dest = UNSIGNED_INT) /\ ~(o.type = UNSIGNED_INT /\ o.dest = DOUBLE)
    BY <1>1, Codes DEF Starts
  <2> QED BY <1>1, <2>1, Unconverted DEF WellFormed
<1>3. /\ Expects(o) = <<o.type>> /\ Len(<<o.type>>) = 1 /\ <<o.type>>[1] = o.type
      /\ Leaves(o) = <<o.dest>> /\ Len(<<o.dest>>) = 1 /\ <<o.dest>>[1] = o.dest
  BY <1>2, Shapes
<1>4. PICK n \in Nat : n = Len(operands) /\ Len(mem) = 1 + n
  BY BoundaryStack
<1>5. /\ Base' = n - 1 /\ Base' \in Nat
      /\ \A i \in 1 .. Len(Expects(o)) : /\ Represents(A(i)', mem[n - 1 + i + 1])
                                         /\ A(i)'.type = Expects(o)[i]
      /\ Left(1)'
  <2>1. Base' \in Nat /\ Base' = Len(operands) - Len(Expects(o)) /\ Left(Len(Expects(op)))'
    BY StartsSlots DEF Slots
  <2>2. \A i \in 1 .. Len(Expects(o)) : /\ Represents(A(i)', mem[Len(operands) - Len(Expects(o)) + i + 1])
                                        /\ A(i)'.type = Expects(o)[i]
    BY StartsSlots
  <2>3. Len(Expects(o)) = 1 /\ Len(operands) = n
    BY <1>3, <1>4
  <2>4. Left(1)'
    BY <1>1, <2>1, <2>3
  <2> QED BY <2>1, <2>2, <2>3, <2>4
<1>6. PICK w : w = mem[n + 1]
  OBVIOUS
<1>7. Represents(A(1)', w) /\ A(1)'.type = o.type
  <2>1. n - 1 + 1 + 1 = n + 1
    OBVIOUS
  <2> QED BY <1>3, <1>5, <1>6, <2>1
<1>8. Top' = w
  <2>1. n - 1 + 2 = n + 1
    OBVIOUS
  <2> QED BY <1>1, <1>5, <1>6, <2>1 DEF Top
<1>9. Sound(o.type, w) /\ V(1)' = Denotes(o.type, w) /\ w \in Word
  BY <1>7 DEF Represents, V, Sound
<1>10. Remains'
  <2>1. Len(mem') = 1 + Base' + 1
    BY <1>1, <1>4, <1>5
  <2>2. Intact(Base + 1)'
    BY <1>5 DEF Left
  <2>3. Intact(Base)'
    <3>1. PICK b : b = Base'
      OBVIOUS
    <3>2. b \in Nat /\ Len(mem') = 1 + b + 1
      BY <1>5, <2>1, <3>1
    <3>3. \A i \in 1 .. b + 1 : Represents(before'.stack[i], mem'[i + 1])
      BY <2>2, <3>1 DEF Intact
    <3>4. Len(mem') > b /\ \A i \in 1 .. b : i \in 1 .. b + 1
      BY <3>2
    <3> QED BY <3>1, <3>3, <3>4 DEF Intact
  <2> QED BY <1>1, <1>3, <2>1, <2>3 DEF Remains
<1>11. Popped'[1] = V(1)'
  BY <1>1, <1>3 DEF Popped
<1>12. Yields'
  <2>1. Sound(o.dest, w)
    BY <1>2, <1>9, TypeNumbers DEF Sound
  <2>2. ASSUME Defects \subseteq {"immediate"}
        PROVE  \E v \in Was!Values(op, Popped)' : Denotes(o.dest, w) = Was!Kept(o.dest, v)
    <3>1. ~(o.type = DOUBLE /\ o.dest = CHAR)
      BY <1>1, <1>2, <2>2, StartsCareful DEF Careful
    <3>2. o.dest = o.type \/ (o.dest = CHAR /\ o.type \in {UNSIGNED_INT, BOOL})
      BY <1>2, <3>1
    <3>3. PICK a : a = V(1)'
      OBVIOUS
    <3>4. \E v \in Was!Converted(o.type, o.dest, a) : Denotes(o.dest, w) = Was!Kept(o.dest, v)
      BY <1>2, <1>9, <3>2, <3>3, ConvertedAlready
    <3>5. Was!Values(op, Popped)' = Was!Converted(o.type, o.dest, a)
      BY <1>1, <1>2, <1>11, <3>3 DEF Was!Values
    <3> QED BY <3>4, <3>5
  <2> QED BY <1>1, <1>3, <1>8, <2>1, <2>2 DEF Yields
<1>13. Effects'
  <2>1. Unassigned' /\ before'.args = ArgumentsOf(argTypes) /\ before'.heard = heard
    BY StartsKept
  <2>2. Stored' = Was!Assigned(op, Popped)'
    BY <1>1, <1>2, <2>1 DEF Unassigned, Was!Assigned
  <2>3. argTypes' = argTypes
    BY <1>2 DEF Starts
  <2>4. ArgumentsOf(argTypes)' = ArgumentsOf(argTypes)
    <3>1. PICK types : types = argTypes
      OBVIOUS
    <3>2. ArgumentsOf(types)' = ArgumentsOf(types)
      BY StartsKept
    <3> QED BY <2>3, <3>1, <3>2 DEF ArgumentsOf
  <2>5. ArgumentsOf(argTypes)' = Was!Passed(op, Popped)'
    BY <1>1, <1>2, <2>1, <2>4 DEF Was!Passed
  <2>6. heard' = Was!Told(op, Popped)'
    BY <1>1, <1>2, <2>1 DEF Was!Told
  <2> QED BY <2>2, <2>5, <2>6 DEF Effects
<1> QED BY <1>10, <1>12, <1>13

LEMMA StartStep ==
  ASSUME IInv, AtBoundary, NEW o, Starts(o)
  PROVE  IInv'
<1>1. /\ op' = o /\ code' = Code(o) /\ ip' = 1 /\ running' = running /\ running = "running"
      /\ UNCHANGED <<reg, mem, store, st, flags>> /\ WellFormed(o) /\ o.call # "none"
  BY DEF Starts, Begin, AtBoundary
<1>2. MachineTyped'
  BY <1>1 DEF IInv, MachineTyped
<1>3. Control' /\ Careful' /\ Slots' /\ Unassigned' /\ Kept' /\ Points'
  BY StartsControl, StartsCareful, StartsSlots, StartsKept, StartsPoints
<1>4. PICK n \in Nat : n = Len(Code(o))
  BY <1>1, Codes
<1>5. AtBoundary' => n = 0
  BY <1>1, <1>4 DEF AtBoundary
<1>6. AtBoundary' => Remains' /\ Yields' /\ Effects'
  BY <1>4, <1>5, StartsEmpty
<1> QED BY <1>1, <1>2, <1>3, <1>6 DEF IInv

LEMMA AfterLength ==
  ASSUME NEW o, WellFormed(o), NEW s \in Seq(Types), NEW n \in Nat, n = Len(s), NEW e \in Nat, e = Len(Expects(o)), e <= n
  PROVE  Len(After(s, o)) = n - e + Len(Leaves(o)) /\ (e = 0 /\ Leaves(o) = <<>> => After(s, o) = s)
<1> DEFINE low == SubSeq(s, 1, n - e)
<1>1. low \in Seq(Types) /\ Len(low) = n - e /\ (e = 0 => low = s)
  OBVIOUS
<1>2. Leaves(o) \in Seq(Types)
  BY LeavesTyped
<1>3. After(s, o) = low \o Leaves(o)
  BY DEF After
<1> HIDE DEF low
<1>4. Len(low \o Leaves(o)) = Len(low) + Len(Leaves(o))
  BY <1>1, <1>2, Concatenation
<1>5. low \o <<>> = low
  BY <1>1
<1> QED BY <1>1, <1>3, <1>4, <1>5

LEMMA BeginStep ==
  ASSUME IInv, BeginOperation
  PROVE  IInv'
<1>1. AtBoundary /\ count < MaxOperations
  BY DEF BeginOperation
<1>2. PICK o \in Possible :
        /\ Applicable(o) /\ Begin(o) /\ operands' = After(operands, o)
        /\ argTypes' = CASE o.call = "function_call_param"    -> Append(argTypes, o.type)
                         [] o.call = "function_call_finalize" -> <<>>
                         [] OTHER                             -> argTypes
        /\ count' = count + 1
  BY DEF BeginOperation
<1>3. /\ argTypes \in Seq(Concrete) /\ operands \in Seq(Types) /\ count \in 0 .. MaxOperations /\ Len(operands) <= count
      /\ Passing(argTypes)
  BY DEF IInv, Control, Passing
<1>4. /\ WellFormed(o) /\ o.call \notin {"none", "finalize_main_procedure"}
      /\ o.call = "function_call_param" => o.n = Position(argTypes, o.type)
  BY <1>3, WellFormedPossible
<1>5. PICK n \in Nat, e \in Nat, l \in {0, 1} : n = Len(operands) /\ e = Len(Expects(o)) /\ l = Len(Leaves(o))
  <2>1. Len(operands) \in Nat /\ Len(Expects(o)) \in Nat /\ Len(Leaves(o)) \in {0, 1}
    BY <1>1, FewExpects, FewLeaves, BoundaryStack
  <2> QED BY <2>1
<1>6. e <= n /\ SubSeq(operands, n - e + 1, n) = Expects(o) /\ KnownDefects(o) \subseteq Defects /\ InOrder(o)
  BY <1>2, <1>5 DEF Applicable
<1>7. count' \in 0 .. MaxOperations /\ Len(operands) <= count' /\ Len(operands') <= count'
  <2>1. Len(operands') = n - e + l
    BY <1>2, <1>3, <1>4, <1>5, <1>6, AfterLength
  <2>2. MaxOperations \in Nat
    BY ProgramAssumption
  <2>3. PICK c, d : c = count /\ d = count'
    OBVIOUS
  <2>4. d = c + 1 /\ c < MaxOperations /\ c \in 0 .. MaxOperations /\ n <= c
    BY <1>1, <1>2, <1>3, <1>5, <2>3
  <2>5. n - e + l <= n + 1
    OBVIOUS
  <2>6. d \in 0 .. MaxOperations /\ n <= d /\ n - e + l <= d
    BY <2>2, <2>4, <2>5
  <2> QED BY <1>5, <2>1, <2>3, <2>6
<1>8. /\ Passing(argTypes')
      /\ o.call = "function_call_param" => argTypes' = Append(argTypes, o.type)
      /\ o.call = "function_call_finalize" => argTypes = Signature[o.name] /\ argTypes' = <<>>
      /\ o.call \notin {"function_call_param", "function_call_finalize"} => argTypes' = argTypes
      /\ o.call \in ChangesArguments => argTypes = <<>>
  <2>1. CASE o.call = "function_call_param"
    <3>1. argTypes' = Append(argTypes, o.type) /\ \E f \in DOMAIN Signature : IsPrefix(Append(argTypes, o.type), Signature[f])
      BY <1>2, <1>6, <2>1 DEF InOrder
    <3>2. o.type \in Concrete
      BY <1>4, <2>1 DEF WellFormed
    <3>3. Append(argTypes, o.type) \in Seq(Concrete)
      BY <1>3, <3>2
    <3> QED BY <2>1, <3>1, <3>3 DEF Passing, ChangesArguments
  <2>2. CASE o.call = "function_call_finalize"
    <3>1. argTypes' = <<>> /\ argTypes = Signature[o.name]
      BY <1>2, <1>6, <2>2 DEF InOrder
    <3>2. Passing(<<>>)
      BY DEF Passing
    <3> QED BY <2>2, <3>1, <3>2 DEF ChangesArguments
  <2>3. CASE o.call \notin {"function_call_param", "function_call_finalize"}
    <3>1. argTypes' = argTypes
      BY <1>2, <2>3
    <3>2. o.call \in ChangesArguments => argTypes = <<>>
      BY <1>6, <2>3 DEF InOrder
    <3> QED BY <1>3, <2>3, <3>1, <3>2
  <2> QED BY <2>1, <2>2, <2>3
<1>9. Starts(o)
  BY <1>2, <1>4, <1>5, <1>6, <1>7, <1>8 DEF Starts
<1> QED BY <1>1, <1>9, StartStep

LEMMA EndStep ==
  ASSUME IInv, EndMain
  PROVE  IInv'
<1> DEFINE o == OpOf("finalize_main_procedure", VOID)
<1>1. AtBoundary /\ Begin(o) /\ UNCHANGED <<operands, argTypes, count>>
  BY DEF EndMain
<1>2. o.call = "finalize_main_procedure"
  BY Fields
<1> HIDE DEF o
<1>3. WellFormed(o) /\ o.call \notin ChangesArguments
  BY <1>2 DEF WellFormed, Compares, ArithmeticCalls, Bools, ChangesArguments
<1>4. Expects(o) = <<>> /\ Leaves(o) = <<>> /\ Len(Expects(o)) = 0 /\ Len(<<>>) = 0
  <2>1. Expects(o) = <<>> /\ Leaves(o) = <<>>
    BY <1>2, Shapes
  <2>2. Len(<<>>) = 0
    OBVIOUS
  <2> QED BY <2>1, <2>2
<1>5. PICK n \in Nat : n = Len(operands)
  BY <1>1, BoundaryStack
<1>6. operands \in Seq(Types) /\ count \in 0 .. MaxOperations /\ n <= count /\ Passing(argTypes)
  BY <1>5 DEF IInv, Control
<1>7. After(operands, o) = operands
  BY <1>3, <1>4, <1>5, <1>6, AfterLength
<1>8. SubSeq(operands, n - Len(Expects(o)) + 1, n) = Expects(o)
  <2>1. n - Len(Expects(o)) + 1 = n + 1
    BY <1>4
  <2>2. SubSeq(operands, n + 1, n) = <<>>
    BY <1>6
  <2> QED BY <1>4, <2>1, <2>2
<1>9. KnownDefects(o) = {}
  BY <1>2 DEF KnownDefects
<1>10. Starts(o)
  <2>1. Len(Expects(o)) <= n
    BY <1>4
  <2>2. count' \in 0 .. MaxOperations /\ Len(operands) <= count' /\ Len(operands') <= count' /\ Passing(argTypes')
    BY <1>1, <1>5, <1>6
  <2> QED BY <1>1, <1>2, <1>3, <1>5, <1>7, <1>8, <1>9, <2>1, <2>2 DEF Starts
<1> QED BY <1>1, <1>10, StartStep

LEMMA Beginning ==
  ASSUME Init
  PROVE  IInv
<1>1. /\ code = BeginMain /\ ip = 1 /\ reg = [r \in Registers |-> IF r \in CalleeSaved THEN 1 ELSE 0]
      /\ mem = <<ReturnAddress>> /\ store = [v \in DOMAIN AddressOf |-> 0] /\ st = <<>> /\ flags = NoFlags
      /\ running = "running" /\ op = NoOp /\ operands = <<>> /\ argTypes = <<>> /\ count = 0 /\ before = Meaning
  BY DEF Init, Entered
<1>2. op.call = "none" /\ ~Callers
  BY <1>1 DEF NoOp, Callers
<1>3. Len(BeginMain) = 1 /\ Len(<<>>) = 0 /\ 0 \in Word /\ 1 \in Word /\ 1 \in 0 .. StackBase
  BY CodeOfMain, ModulusFacts, ProgramAssumption, MemoryAssumption
<1>4. Expects(op) = <<>> /\ Leaves(op) = <<>>
  BY <1>2, Shapes
<1>5. \A t : Sound(t, 0)
  BY <1>3 DEF Sound
<1>6. MachineTyped
  <2>1. reg = [r \in Registers |-> reg[r]]
    BY <1>1
  <2>2. \A r \in Registers : reg[r] \in IF r \in {"rbp", "r12"} THEN 0 .. StackBase ELSE Word
    BY <1>1, <1>3 DEF CalleeSaved
  <2>3. mem \in Seq(Word) /\ Len(mem) = 1 /\ mem[1] = ReturnAddress
    BY <1>1, <1>3 DEF ReturnAddress
  <2>4. store \in [DOMAIN AddressOf -> Word] /\ \A v \in DOMAIN VarType : Sound(VarType[v], store[v])
    BY <1>1, <1>3, <1>5, ProgramAssumption
  <2>5. st \in Seq(Word) /\ flags \in [zf : BOOLEAN, cf : BOOLEAN, lt : BOOLEAN]
    BY <1>1 DEF NoFlags
  <2> QED BY <2>1, <2>2, <2>3, <2>4, <2>5 DEF MachineTyped
<1>7. Control
  <2>1. WellFormed(op)
    BY <1>2 DEF WellFormed, Compares, ArithmeticCalls, Bools
  <2>2. Passing(argTypes)
    BY <1>1 DEF Passing
  <2>3. count \in 0 .. MaxOperations /\ Len(operands) <= count /\ operands \in Seq(Types)
    BY <1>1, <1>3, ProgramAssumption
  <2>4. ip \in 1 .. Len(code) + 1
    BY <1>1, <1>3
  <2>5. op.call \notin ChangesArguments \cup {"function_call_finalize", "function_call_param"}
    BY <1>2 DEF ChangesArguments
  <2> QED BY <1>1, <1>2, <2>1, <2>2, <2>3, <2>4, <2>5 DEF Control
<1>8. Careful
  BY <1>2 DEF Careful
<1>9. Base = 0
  BY <1>1, <1>3, <1>4 DEF Base
<1>10. before.stack = <<>> /\ before.variables = Stored /\ before.args = ArgumentsOf(argTypes) /\ before.heard = heard
  BY <1>1, <1>3 DEF Meaning, Stored, ArgumentsOf
<1>11. Slots
  <2>1. before.stack \in Seq([type : Types, value : Word]) /\ Len(before.stack) = 0
    BY <1>3, <1>10
  <2> QED BY <1>1, <1>3, <1>4, <1>9, <2>1 DEF Slots
<1>12. Kept
  <2>1. PassedTypes = argTypes
    BY <1>2 DEF PassedTypes
  <2> QED BY <1>2, <1>10, <2>1 DEF Kept, Spoke
<1>13. Points
  <2>1. AtStart
    BY <1>1, <1>3, <1>4, <1>6, <1>9 DEF AtStart, Left, Intact, MachineTyped
  <2>2. AtLoads /\ AtConversions /\ AtArguments /\ AtDisplays /\ AtFmod /\ AtSegment /\ AtEnd
    BY <1>2 DEF AtLoads, AtConversions, AtArguments, AtDisplays, AtFmod, AtSegment, AtEnd
  <2>3. AtIntegers /\ AtDoubles /\ AtCompares
    BY <1>2 DEF AtIntegers, AtDoubles, AtCompares, IntegerBinop, DoubleBinop, ArithmeticCalls, Bools, Compares, Sums
  <2> QED BY <2>1, <2>2, <2>3 DEF Points
<1>14. ~AtBoundary
  BY <1>1, <1>3 DEF AtBoundary
<1> QED BY <1>1, <1>6, <1>7, <1>8, <1>10, <1>11, <1>12, <1>13, <1>14 DEF IInv, Unassigned

(***************************************************************************)
(* Nothing happens.                                                        *)
(***************************************************************************)
LEMMA StutterPoints ==
  ASSUME Same, UNCHANGED machine, Points
  PROVE  Points'
<1>1. /\ code' = code /\ ip' = ip /\ reg' = reg /\ mem' = mem /\ store' = store /\ st' = st /\ flags' = flags
      /\ heard' = heard /\ running' = running /\ op' = op
  BY DEF machine, Same
<1>2. /\ Base' = Base /\ Callers' = Callers /\ Segment' = Segment /\ Callee' = Callee /\ Said' = Said /\ Excess' = Excess
      /\ Returned' = Returned /\ IntegerBinop' = IntegerBinop /\ DoubleBinop' = DoubleBinop /\ Branch' = Branch
      /\ \A i : A(i)' = A(i) /\ V(i)' = V(i)
      /\ \A k : Maybe(k)' = Maybe(k)
  BY SameCall
<1>3. (\A d : Left(d) => Left(d)') /\ (Pushed1 => Pushed1')
  BY <1>1, LeftStays
<1>4. AtStart'
  BY <1>1, <1>3 DEF Points, AtStart
<1>5. AtLoads'
  BY <1>1, <1>2, <1>3 DEF Points, AtLoads
<1>6. AtIntegers'
  <2>1. AtIntegers
    BY DEF Points
  <2>2. \A x, y : Outcome(x, y)' = Outcome(x, y)
    BY <1>1 DEF Outcome
  <2>3. \A i, w : Represents(A(i), w)' <=> Represents(A(i), w)
    BY <1>2
  <2>5. IntegerBinop' /\ ip' = 2 => Left(1)' /\ st' = <<>> /\ Represents(A(2)', reg'["rbx"])
    BY <1>1, <1>2, <1>3, <2>1 DEF AtIntegers
  <2>6. IntegerBinop' /\ (ip' = 3 \/ (op'.call \in Divisions /\ ip' = 4)) =>
          Left(0)' /\ st' = <<>> /\ Represents(A(1)', reg'["rax"]) /\ Represents(A(2)', reg'["rbx"])
    BY <1>1, <1>2, <1>3, <2>1 DEF AtIntegers
  <2>7. IntegerBinop' /\ op'.call \in Divisions /\ ip' = 4 => reg'["rdx"] = 0
    BY <1>1, <1>2, <2>1 DEF AtIntegers
  <2>8. ASSUME IntegerBinop', op'.call \notin Compares, ip' = (IF op'.call \in Divisions THEN 5 ELSE 4)
        PROVE  /\ Left(0)' /\ st' = <<>>
               /\ \E x \in Word, y \in Word :
                    /\ Represents(A(1)', x) /\ Represents(A(2)', y)
                    /\ op'.call \in Divisions => y # 0
                    /\ reg'["rax"] = Outcome(x, y)'
    <3>1. /\ Left(0) /\ st = <<>>
          /\ \E x \in Word, y \in Word :
               /\ Represents(A(1), x) /\ Represents(A(2), y)
               /\ op.call \in Divisions => y # 0
               /\ reg["rax"] = Outcome(x, y)
      BY <1>1, <1>2, <2>1, <2>8 DEF AtIntegers
    <3> QED BY <1>1, <1>2, <1>3, <2>2, <3>1
  <2> QED BY <2>5, <2>6, <2>7, <2>8 DEF AtIntegers
<1>7. AtDoubles'
  BY <1>1, <1>2, <1>3 DEF Points, AtDoubles
<1>8. AtCompares'
  BY <1>1, <1>2, <1>3 DEF Points, AtCompares, Decides, Taken
<1>9. AtConversions'
  BY <1>1, <1>2, <1>3 DEF Points, AtConversions
<1>10. AtArguments'
  BY <1>1, <1>2, <1>3 DEF Points, AtArguments
<1>11. AtDisplays'
  BY <1>1, <1>2, <1>3 DEF Points, AtDisplays
<1>12. AtFmod'
  BY <1>1, <1>2, <1>3 DEF Points, AtFmod
<1>13. AtSegment'
  <2>1. AtSegment
    BY DEF Points
  <2>2. Intact(Base)' <=> Intact(Base)
    BY <1>1, <1>2 DEF Intact, Same
  <2>3. Heard(Callee)' = Heard(Callee)
    <3>1. PICK f : f = Callee
      OBVIOUS
    <3>2. \A types, i : Argument(types, i)' = Argument(types, i)
      BY <1>1, ArgumentAt
    <3>3. Printed' = Printed
      BY <1>1 DEF Printed
    <3>4. Heard(f)' = Heard(f)
      BY <3>2, <3>3 DEF Heard
    <3> QED BY <1>2, <3>1, <3>4
  <2> QED BY <1>1, <1>2, <1>3, <2>1, <2>2, <2>3 DEF AtSegment
<1>14. AtEnd'
  BY <1>1 DEF Points, AtEnd
<1> QED BY <1>4, <1>5, <1>6, <1>7, <1>8, <1>9, <1>10, <1>11, <1>12, <1>13, <1>14 DEF Points

LEMMA Stutter ==
  ASSUME IInv, UNCHANGED vars
  PROVE  IInv'
<1>1. Same /\ UNCHANGED machine
  BY DEF vars, Same
<1>2. /\ code' = code /\ ip' = ip /\ reg' = reg /\ mem' = mem /\ store' = store /\ st' = st /\ flags' = flags
      /\ heard' = heard /\ running' = running /\ op' = op /\ before' = before /\ argTypes' = argTypes
  BY <1>1 DEF machine, Same
<1>3. (Within' <=> Within) /\ (AtBoundary' <=> AtBoundary)
  BY <1>2 DEF Within, AtBoundary
<1>4. MachineTyped'
  BY <1>2 DEF IInv, MachineTyped
<1>5. Control' /\ Slots' /\ Careful'
  <2>1. ip' \in 1 .. Len(code) + 1 /\ running' \in {"running", "returned", "fault", "refused"}
        /\ (op.call = "none" \/ reg'["rbp"] = StackBase - 1)
    BY <1>2 DEF IInv, Control
  <2> QED BY <1>1, <1>2, <1>3, <2>1, ControlStays, SlotsStay, CarefulStays DEF IInv
<1>6. Base' = Base /\ Callers' = Callers /\ Segment' = Segment /\ Popped' = Popped
  BY <1>1, SameCall
<1>7. Stored' = Stored
  BY <1>2 DEF Stored
<1>8. ASSUME Within PROVE Unassigned' /\ Kept' /\ Points'
  <2>1. Unassigned /\ Kept /\ Points /\ Control
    BY <1>8 DEF IInv
  <2>2. Unassigned'
    BY <1>2, <1>7, <2>1 DEF Unassigned
  <2>3. Spoke' <=> Spoke
    BY <1>2, <1>6 DEF Spoke
  <2>4. Kept'
    BY <1>1, <1>2, <2>1, <2>3, KeptStays
  <2>5. Points'
    BY <1>1, <2>1, StutterPoints
  <2> QED BY <2>2, <2>4, <2>5
<1>9. ASSUME AtBoundary PROVE Remains' /\ Yields' /\ Effects'
  <2>1. Remains /\ Yields /\ Effects
    BY <1>9 DEF IInv
  <2>2. Intact(Base)' <=> Intact(Base)
    BY <1>2, <1>6 DEF Intact
  <2>3. Remains'
    BY <1>2, <1>6, <2>1, <2>2 DEF Remains
  <2>4. Was!Values(op, Popped)' = Was!Values(op, Popped)
    BY <1>1, SameValues
  <2>5. Top' = Top
    BY <1>2, <1>6 DEF Top
  <2>6. Yields'
    BY <1>2, <2>1, <2>4, <2>5 DEF Yields
  <2>7. Was!Assigned(op, Popped)' = Was!Assigned(op, Popped)
    BY <1>2, <1>6 DEF Was!Assigned
  <2>8. Was!Passed(op, Popped)' = Was!Passed(op, Popped)
    BY <1>2, <1>6 DEF Was!Passed
  <2>9. Was!Told(op, Popped)' = Was!Told(op, Popped)
    BY <1>2, <1>6 DEF Was!Told
  <2>10. ArgumentsOf(argTypes)' = ArgumentsOf(argTypes)
    <3>1. PICK types : types = argTypes
      OBVIOUS
    <3>2. \A i : Argument(types, i)' = Argument(types, i)
      BY <1>2, ArgumentAt
    <3>3. ArgumentsOf(types)' = ArgumentsOf(types)
      BY <3>2 DEF ArgumentsOf
    <3> QED BY <1>2, <3>1, <3>3 DEF ArgumentsOf
  <2>11. Effects'
    BY <1>2, <1>7, <2>1, <2>7, <2>8, <2>9, <2>10 DEF Effects
  <2> QED BY <2>3, <2>6, <2>11
<1>10. running' = "returned" => Len(mem') = 1
  BY <1>2 DEF IInv
<1> QED BY <1>3, <1>4, <1>5, <1>8, <1>9, <1>10 DEF IInv

LEMMA Preserved ==
  ASSUME IInv, [Next]_vars
  PROVE  IInv'
<1>1. CASE BeginOperation
  BY <1>1, BeginStep
<1>2. CASE EndMain
  BY <1>2, EndStep
<1>3. CASE Run
  BY <1>3, RunStep
<1>4. CASE Stopped
  BY <1>4, Stutter DEF Stopped
<1>5. CASE UNCHANGED vars
  BY <1>5, Stutter
<1> QED BY <1>1, <1>2, <1>3, <1>4, <1>5 DEF Next

(***************************************************************************)
(* The generated code keeps the invariant, whatever the program: where the *)
(* code of a call of CodeGen has run, the stack, the variables and the     *)
(* registers of arguments hold what the call means, and within that code   *)
(* each operand is where the next instruction takes it from.               *)
(***************************************************************************)
THEOREM CodeKeepsMeaning == Spec => []IInv
<1>1. Init => IInv
  BY Beginning
<1>2. IInv /\ [Next]_vars => IInv'
  BY Preserved
<1> QED BY <1>1, <1>2, PTL DEF Spec

(***************************************************************************)
(* The variables of the model hold values of their types: words stay words *)
(* through every instruction, and %rsp stays in the memory of the stack.   *)
(***************************************************************************)
THEOREM MachineTypeCorrect == Spec => []TypeOK
<1>1. IInv => TypeOK
  <2> SUFFICES ASSUME IInv PROVE TypeOK
    OBVIOUS
  <2>1. MachineTyped /\ Control
    BY DEF IInv
  <2> QED BY <2>1 DEF MachineTyped, Control, Passing, Types, TypeOK
<1> QED BY <1>1, CodeKeepsMeaning, PTL

(***************************************************************************)
(* The code of each call of CodeGen leaves the x87 stack empty, so no      *)
(* later operation on doubles finds it full.                               *)
(***************************************************************************)
THEOREM DoublesAreRemoved == Spec => []X87StackIsEmpty
<1>1. IInv => X87StackIsEmpty
  BY DEF IInv, Remains, X87StackIsEmpty
<1> QED BY <1>1, CodeKeepsMeaning, PTL

(***************************************************************************)
(* The return address stays at the bottom of the stack, and is on top of   *)
(* it when ret of the main procedure runs: also where results of calls     *)
(* that nobody used are left there.                                        *)
(***************************************************************************)
THEOREM MainReturns == Spec => []ReturnsToCaller
<1>1. IInv => ReturnsToCaller
  BY DEF IInv, MachineTyped, ReturnsToCaller
<1> QED BY <1>1, CodeKeepsMeaning, PTL

\* Only the code that calls a function calls one, after it has aligned the stack.
LEMMA CallsAt ==
  ASSUME WellFormed(op), op.call # "none", NEW j \in 1 .. Len(Code(op)), Code(op)[j].op = "call"
  PROVE  Callers /\ j = Segment + 3
<1> DEFINE n == Len(Code(op))
<1>0. /\ \A l, m, k : Ins(l, m, k).op = l
      /\ \A l, m, k : Imm(l, m, k).op = l
      /\ \A l, m, k : Tag(l, m, k).op = l
      /\ \A l : Push(l).op = "pushq"
      /\ \A l : PopTo(l).op = "popq"
  BY DEF Ins, Imm, Tag, Push, PopTo
<1>1. CASE op.call \in {"load_i64", "load_variable", "load_pointer_to_variable", "load_value_from_pointer",
                        "store_variable", "store_value_to_pointer", "alu_not_bool"}
  <2>1. n \in {1, 2, 3} /\ (n >= 1 => Code(op)[1].op # "call") /\ (n >= 2 => Code(op)[2].op # "call")
        /\ (n >= 3 => Code(op)[3].op # "call")
    BY <1>0, <1>1, CodeOfLoads
  <2>2. j \in {1, 2, 3} /\ j <= n
    BY <2>1
  <2> QED BY <2>1, <2>2
<1>2. CASE op.call \in ArithmeticCalls \cup Bools
  <2>1. CASE op.type = DOUBLE /\ op.call \in Sums
    <3>1. n = 6 /\ \A k \in 1 .. 6 : Code(op)[k].op # "call"
      <4>1. DoubleInstruction(op.call) # "call"
        BY <2>1, DoubleSigns
      <4> QED BY <1>0, <2>1, <4>1, CodeOfDoubles
    <3> QED BY <3>1
  <2>2. CASE op.type = DOUBLE /\ op.call = "alu_modulus"
    <3>1. Callers /\ Segment = 8
      BY <2>2 DEF Callers, Segment
    <3>2. n = 14
      BY <2>2, CodeOfFmod
    <3>3. \A k \in 1 .. 14 : k # 11 => Code(op)[k].op # "call"
      <4>0. /\ Code(op)[1] = Ins("movsd", "(%rsp)", "xmm0") /\ Code(op)[2] = Imm("addq", 1, "rsp")
            /\ Code(op)[3] = Ins("movsd", "(%rsp)", "xmm1") /\ Code(op)[4] = Imm("addq", 1, "rsp")
            /\ Code(op)[5] = Ins("pxor", "xmm0", "xmm1") /\ Code(op)[6] = Ins("pxor", "xmm1", "xmm0")
            /\ Code(op)[7] = Ins("pxor", "xmm0", "xmm1")
            /\ Segments(Code(op), 8, "fmod")
            /\ Code(op)[13] = Imm("addq", -1, "rsp") /\ Code(op)[14] = Ins("movsd", "xmm0", "(%rsp)")
        BY <2>2, CodeOfFmod
      <4>4. /\ Code(op)[8] = Ins("movq", "rsp", "r12") /\ Code(op)[9] = Imm("andq_low", 0, "r12")
            /\ Code(op)[10] = Imm("andq_high", 0, "rsp") /\ Code(op)[12] = Ins("orq", "r12", "rsp")
        BY <4>0 DEF Segments
      <4>1. Code(op)[1].op # "call" /\ Code(op)[2].op # "call" /\ Code(op)[3].op # "call"
          /\ Code(op)[4].op # "call" /\ Code(op)[5].op # "call" /\ Code(op)[6].op # "call"
        BY <1>0, <4>0
      <4>2. Code(op)[7].op # "call" /\ Code(op)[13].op # "call" /\ Code(op)[14].op # "call"
        BY <1>0, <4>0
      <4>5. Code(op)[8].op # "call" /\ Code(op)[9].op # "call" /\ Code(op)[10].op # "call"
          /\ Code(op)[12].op # "call"
        BY <1>0, <4>4
      <4>3. \A k \in 1 .. 14 : k \in {1, 2, 3, 4, 5, 6, 7, 8, 9, 10, 11, 12, 13, 14}
        OBVIOUS
      <4> QED BY <4>1, <4>2, <4>3, <4>5
    <3> QED BY <3>1, <3>2, <3>3
  <2>3. CASE op.type # DOUBLE \/ op.call \in Bools
    <3>1. n \in {4, 5} /\ Code(op)[1].op # "call" /\ Code(op)[2].op # "call" /\ Code(op)[3].op # "call"
          /\ Code(op)[4].op # "call" /\ (n = 5 => Code(op)[5].op # "call")
      BY <1>0, <1>2, <2>3, CodeOfIntegers DEF ArithmeticCalls, Bools
    <3>2. j \in {1, 2, 3, 4, 5} /\ j <= n
      BY <3>1
    <3> QED BY <3>1, <3>2
  <2> QED BY <1>2, <2>1, <2>2, <2>3 DEF ArithmeticCalls, Sums
<1>3. CASE op.call \in Compares
  <2>0. JumpIf[op.call] # "call"
    BY <1>3, Jumps DEF Compares
  <2>1. CASE op.type # DOUBLE
    <3>1. n = 9 /\ \A k \in 1 .. 9 : Code(op)[k].op # "call"
      BY <1>0, <1>3, <2>0, <2>1, CodeOfIntegerComparison
    <3> QED BY <3>1
  <2>2. CASE op.type = DOUBLE
    <3>1. n = 11
      BY <1>3, <2>2, CodeOfDoubleComparison
    <3>2. \A k \in 1 .. 11 : Code(op)[k].op # "call"
      <4>1. Code(op)[1].op # "call" /\ Code(op)[2].op # "call" /\ Code(op)[3].op # "call"
          /\ Code(op)[4].op # "call" /\ Code(op)[5].op # "call"
        BY <1>0, <1>3, <2>0, <2>2, CodeOfDoubleComparison
      <4>0. /\ Code(op)[6] = Tag(JumpIf[op.call], "__true", op.n)
            /\ Code(op)[7] = Imm("pushq", 0, NoName) /\ Code(op)[8] = Tag("jmp", "__next", op.n)
            /\ Code(op)[9] = Tag("label", "__true", op.n) /\ Code(op)[10] = Imm("pushq", AllOnes, NoName)
            /\ Code(op)[11] = Tag("label", "__next", op.n)
        BY <1>3, <2>2, CodeOfDoubleComparison
      <4>2. Code(op)[6].op # "call" /\ Code(op)[7].op # "call" /\ Code(op)[8].op # "call"
          /\ Code(op)[9].op # "call" /\ Code(op)[10].op # "call" /\ Code(op)[11].op # "call"
        BY <1>0, <2>0, <4>0
      <4>3. \A k \in 1 .. 11 : k \in {1, 2, 3, 4, 5, 6, 7, 8, 9, 10, 11}
        OBVIOUS
      <4> QED BY <4>1, <4>2, <4>3
    <3> QED BY <3>1, <3>2
  <2> QED BY <2>1, <2>2
<1>4. CASE op.call = "convert"
  <2>1. n > 0
    OBVIOUS
  <2>2. \/ op.type = DOUBLE /\ op.dest = UNSIGNED_INT
        \/ op.type = UNSIGNED_INT /\ op.dest = DOUBLE
    <3>1. n = 0 \/ n # 0
      OBVIOUS
    <3> QED BY <1>4, <2>1, CodeOfConversions
  <2>3. n = 2 /\ Code(op)[1].op # "call" /\ Code(op)[2].op # "call"
    BY <1>0, <1>4, <2>2, CodeOfConversions
  <2> QED BY <2>3
<1>5. CASE op.call = "debug_display"
  <2>1. op.type \in Concrete /\ Callers /\ Segment = (IF op.type \in {BOOL, DOUBLE} THEN 5 ELSE 4)
    BY <1>5 DEF WellFormed, Callers, Segment
  <2>2. CASE op.type \in {BOOL, DOUBLE}
    <3>1. n = 9 /\ \A k \in 1 .. 9 : k # 8 => Code(op)[k].op # "call"
      BY <1>0, <1>5, <2>1, <2>2, CodeOfDisplays DEF Segments
    <3> QED BY <2>1, <2>2, <3>1
  <2>3. CASE op.type \in {UNSIGNED_INT, CHAR}
    <3>1. n = 8 /\ \A k \in 1 .. 8 : k # 7 => Code(op)[k].op # "call"
      BY <1>0, <1>5, <2>1, <2>3, CodeOfDisplays DEF Segments
    <3> QED BY <2>1, <2>3, <3>1, TypeNumbers
  <2> QED BY <2>1, <2>2, <2>3, TypeNumbers
<1>6. CASE op.call = "function_call_param"
  <2>1. n \in {1, 2} /\ Code(op)[1].op # "call" /\ (n = 2 => Code(op)[2].op # "call")
    BY <1>0, <1>6, CodeOfArguments
  <2> QED BY <2>1
<1>7. CASE op.call = "function_call_finalize"
  <2>1. Callers /\ Segment = 1
    BY <1>7 DEF Callers, Segment
  <2>2. Segments(Code(op), 1, op.name)
    BY <1>7, CodeOfCalls
  <2>3. /\ Code(op)[1].op # "call" /\ Code(op)[2].op # "call" /\ Code(op)[3].op # "call" /\ Code(op)[5].op # "call"
    BY <1>0, <2>2 DEF Segments
  <2>4. /\ n \in {5, 6, 7} /\ (n >= 6 => Code(op)[6].op # "call") /\ (n = 7 => Code(op)[7].op # "call")
    BY <1>0, <1>7, CodeOfCalls
  <2>5. j \in {1, 2, 3, 4, 5, 6, 7} /\ j <= n
    BY <2>4
  <2> QED BY <2>1, <2>3, <2>4, <2>5
<1>8. CASE op.call = "finalize_main_procedure"
  <2>1. n = 2 /\ Code(op)[1].op # "call" /\ Code(op)[2].op # "call"
    BY <1>0, <1>8, CodeOfMain
  <2> QED BY <2>1
<1> QED BY <1>1, <1>2, <1>3, <1>4, <1>5, <1>6, <1>7, <1>8 DEF WellFormed

LEMMA AlignedIf ==
  ASSUME IInv
  PROVE  CallsAreAligned
<1> SUFFICES ASSUME Runs({"call"}) PROVE Rsp % 2 = 0
  BY DEF CallsAreAligned
<1>1. Within /\ Current.op = "call"
  BY DEF Within, Runs
<1>2. op.call # "none"
  <2> SUFFICES ASSUME op.call = "none" PROVE FALSE
    OBVIOUS
  <2>1. code = BeginMain /\ ip \in 1 .. Len(code) + 1 /\ ip <= Len(code)
    BY <1>1 DEF IInv, Control, Within
  <2>2. Current = Ins("movq", "rsp", "rbp")
    BY <2>1, CodeOfMain DEF Current
  <2> QED BY <1>1, <2>2 DEF Ins
<1>3. Callers /\ ip = Segment + 3
  BY <1>1, <1>2, Facts, CallsAt
<1>4. PICK s : s = Segment
  OBVIOUS
<1>5. s \in {1, 4, 5, 8}
  BY <1>4 DEF Segment
<1>6. Len(mem) = 1 + Base + Excess
  <2>1. ip \in s + 3 .. s + 4
    BY <1>3, <1>4, <1>5
  <2> QED BY <1>1, <1>2, <1>3, <1>4, <2>1, Facts DEF Points, AtSegment
<1>7. PICK b : b = Base
  OBVIOUS
<1>8. b \in Nat /\ StackBase \in Nat /\ b + 4 <= StackBase
  <2>1. b \in Nat /\ b <= count /\ count \in 0 .. MaxOperations
    <3>1. Base \in Nat /\ Len(before.stack) = Base + Len(Expects(op)) /\ Len(before.stack) <= count
          /\ count \in 0 .. MaxOperations
      BY DEF IInv, Slots, Control
    <3>2. Len(Expects(op)) \in Nat
      BY FewExpects
    <3> QED BY <1>7, <3>1, <3>2
  <2> QED BY <2>1, ProgramAssumption, MemoryAssumption
<1>9. PICK a : a = StackBase - 1 - b
  OBVIOUS
<1>10. a \in 0 .. StackBase
  BY <1>8, <1>9
<1>11. a % 2 \in {0, 1} /\ (a - (a % 2)) % 2 = 0
  BY <1>10, Parity
<1>12. Rsp = a - (a % 2)
  <2>1. Excess = a % 2
    BY <1>7, <1>9 DEF Excess
  <2> QED BY <1>6, <1>7, <1>8, <1>9, <1>11, <2>1 DEF Rsp
<1> QED BY <1>11, <1>12

(***************************************************************************)
(* Wherever the code calls a function, the stack is aligned to 16 bytes,   *)
(* however many operands lie on it.                                        *)
(***************************************************************************)
THEOREM StackIsAligned == Spec => []CallsAreAligned
BY AlignedIf, CodeKeepsMeaning, PTL

-----------------------------------------------------------------------------
(***************************************************************************)
(* The refinement of ValueCode.  Within the code of a call the mapping     *)
(* gives the meaning of the state before the call, so a step of            *)
(* the machine either keeps it, or is the last one of the code and takes   *)
(* it where the invariant says.                                            *)
(***************************************************************************)
Accomplished(o, a) ==
  /\ Meaning.last = o
  /\ Len(before.stack) - Len(Expects(o)) \in Nat
  /\ a = [i \in 1 .. Len(Expects(o)) |-> before.stack[Len(before.stack) - Len(Expects(o)) + i].value]
  /\ \A i \in 1 .. Len(Expects(o)) : before.stack[Len(before.stack) - Len(Expects(o)) + i].type = Expects(o)[i]
  /\ Leaves(o) = <<>> => Meaning.stack = SubSeq(before.stack, 1, Len(before.stack) - Len(Expects(o)))
  /\ Leaves(o) # <<>> =>
       \E v \in Was!Values(o, a) :
         Meaning.stack = SubSeq(before.stack, 1, Len(before.stack) - Len(Expects(o)))
                           \o <<[type |-> Leaves(o)[1], value |-> Was!Kept(Leaves(o)[1], v)]>>
  /\ Meaning.variables = Was!Assigned(o, a)
  /\ Meaning.args = Was!Passed(o, a)
  /\ Meaning.heard = Was!Told(o, a)

LEMMA StackMeaning ==
  ASSUME IInv, AtBoundary
  PROVE  /\ Leaves(op) = <<>> => Meaning.stack = SubSeq(before.stack, 1, Base)
         /\ Leaves(op) # <<>> =>
              Meaning.stack = SubSeq(before.stack, 1, Base)
                                \o <<[type |-> Leaves(op)[1], value |-> Denotes(Leaves(op)[1], Top)]>>
<1>1. PICK b, n, S, B : b = Base /\ n = Len(operands) /\ S = Meaning.stack /\ B = before.stack
  OBVIOUS
<1>2. PICK T : T = [type : Types, value : Word]
  OBVIOUS
<1>3. /\ n \in Nat /\ b \in Nat /\ S \in Seq(T) /\ Len(S) = n /\ B \in Seq(T) /\ Len(B) >= b
      /\ \A i \in 1 .. n : S[i].type = operands[i] /\ S[i].value = Denotes(operands[i], mem[i + 1])
      /\ \A i \in 1 .. b : B[i].type = operands[i] /\ B[i].value = Denotes(B[i].type, mem[i + 1])
  <2>1. n \in Nat /\ b \in Nat
    BY <1>1, BoundaryStack
  <2>2. /\ S \in Seq(T) /\ Len(S) = n
        /\ \A i \in 1 .. n : S[i].type = operands[i] /\ S[i].value = Denotes(operands[i], mem[i + 1])
    BY <1>1, <1>2, MeaningIs
  <2>3. Slots /\ Intact(Base)
    BY BoundaryStack DEF IInv, Remains
  <2>4. B \in Seq(T) /\ Len(B) = b + Len(Expects(op)) /\ \A i \in 1 .. b : B[i].type = operands[i]
    BY <1>1, <1>2, <2>3 DEF Slots
  <2>5. Len(B) >= b
    <3>1. Len(Expects(op)) \in Nat
      BY FewExpects
    <3> QED BY <2>1, <2>4, <3>1
  <2>6. \A i \in 1 .. b : B[i].value = Denotes(B[i].type, mem[i + 1])
    BY <1>1, <2>3 DEF Intact, Represents
  <2> QED BY <2>1, <2>2, <2>4, <2>5, <2>6
<1>4. \A i \in 1 .. b : i \in 1 .. n => S[i] = B[i]
  <2> TAKE i \in 1 .. b
  <2> HAVE i \in 1 .. n
  <2>1. S[i].type = B[i].type /\ S[i].value = B[i].value
    BY <1>3
  <2>2. S[i] \in T /\ B[i] \in T
    BY <1>3
  <2>3. S[i] \in [type : Types, value : Word] /\ B[i] \in [type : Types, value : Word]
    BY <1>2, <2>2
  <2> QED BY <2>1, <2>3
<1>5. b = n - Len(Leaves(op))
  BY <1>1 DEF Base
<1>6. PICK R : R = SubSeq(B, 1, b)
  OBVIOUS
<1>7. R \in Seq(T) /\ Len(R) = b /\ \A i \in 1 .. b : R[i] = B[i]
  BY <1>3, <1>6
<1>8. ASSUME Leaves(op) = <<>> PROVE S = R
  <2>1. b = n
    BY <1>3, <1>5, <1>8, FewLeaves
  <2>2. \A i \in 1 .. n : S[i] = R[i]
    BY <1>3, <1>4, <1>7, <2>1
  <2> QED BY <1>3, <1>7, <2>1, <2>2, SameSequence
<1>9. ASSUME Leaves(op) # <<>> PROVE S = R \o <<[type |-> Leaves(op)[1], value |-> Denotes(Leaves(op)[1], Top)]>>
  <2>1. n = b + 1
    <3>1. Len(Leaves(op)) = 1
      BY <1>9, FewLeaves
    <3> QED BY <1>3, <1>5, <3>1
  <2>2. PICK s : s = [type |-> Leaves(op)[1], value |-> Denotes(Leaves(op)[1], Top)]
    OBVIOUS
  <2>3. operands[b + 1] = Leaves(op)[1]
    BY <1>1, <1>9 DEF IInv, Slots
  <2>4. Top = mem[b + 2] /\ b + 2 = n + 1
    BY <1>1, <1>3, <2>1 DEF Top
  <2>5. S[n] = s
    <3>1. S[n].type = s.type /\ S[n].value = s.value /\ S[n] \in T
      BY <1>3, <2>1, <2>2, <2>3, <2>4
    <3>2. S[n] \in [type : Types, value : Word]
      BY <1>2, <3>1
    <3> QED BY <2>2, <3>1, <3>2
  <2>6. s \in T /\ R \o <<s>> \in Seq(T) /\ Len(R \o <<s>>) = n /\ (R \o <<s>>)[n] = s
        /\ \A i \in 1 .. b : (R \o <<s>>)[i] = R[i]
    <3>1. s \in T
      BY <1>3, <2>1, <2>5
    <3> QED BY <1>3, <1>7, <2>1, <3>1
  <2>7. \A i \in 1 .. n : S[i] = (R \o <<s>>)[i]
    <3> TAKE i \in 1 .. n
    <3>1. CASE i = n
      BY <2>5, <2>6, <3>1
    <3>2. CASE i # n
      <4>1. i \in 1 .. b
        BY <1>3, <2>1, <3>2
      <4> QED BY <1>4, <1>7, <2>6, <4>1
    <3> QED BY <3>1, <3>2
  <2>8. S = R \o <<s>>
    BY <1>3, <2>6, <2>7, SameSequence
  <2> QED BY <2>2, <2>8
<1> QED BY <1>1, <1>6, <1>8, <1>9

LEMMA AccomplishedIf ==
  ASSUME Defects \subseteq {"immediate"}
  PROVE  IInv /\ AtBoundary => \A o, a : o = op /\ a = Popped => Accomplished(o, a)
<1> SUFFICES ASSUME IInv, AtBoundary PROVE Accomplished(op, Popped)
  OBVIOUS
<1>1. PICK b, B, e : b = Base /\ B = before.stack /\ e = Expects(op)
  OBVIOUS
<1>2. b \in Nat /\ Len(B) - Len(e) = b
  <2>1. Len(e) \in Nat
    BY <1>1, FewExpects
  <2> QED BY <1>1, <2>1 DEF IInv, Slots
<1>3. Len(before.stack) - Len(Expects(op)) = Base
  BY <1>1, <1>2
<1>4. Popped = [i \in 1 .. Len(Expects(op)) |-> before.stack[Base + i].value]
  BY DEF Popped, V, A
<1>5. \A i \in 1 .. Len(Expects(op)) : before.stack[Base + i].type = Expects(op)[i]
  BY DEF IInv, Slots, A
<1>6. /\ Meaning.last = op /\ Meaning.variables = Was!Assigned(op, Popped)
      /\ Meaning.args = Was!Passed(op, Popped) /\ Meaning.heard = Was!Told(op, Popped)
  BY MeaningIs DEF IInv, Effects
<1>7. Leaves(op) = <<>> => Meaning.stack = SubSeq(before.stack, 1, Base)
  BY StackMeaning
<1>8. Leaves(op) # <<>> =>
        \E v \in Was!Values(op, Popped) :
          Meaning.stack = SubSeq(before.stack, 1, Base)
                            \o <<[type |-> Leaves(op)[1], value |-> Was!Kept(Leaves(op)[1], v)]>>
  <2> HAVE Leaves(op) # <<>>
  <2>1. PICK v \in Was!Values(op, Popped) : Denotes(Leaves(op)[1], Top) = Was!Kept(Leaves(op)[1], v)
    BY DEF IInv, Yields
  <2> QED BY <2>1, StackMeaning
<1>9. Base \in Nat
  BY <1>1, <1>2
<1> QED BY <1>3, <1>4, <1>5, <1>6, <1>7, <1>8, <1>9, Zenon DEF Accomplished

LEMMA ComputesNames ==
  /\ Computes!UNSIGNED_INT = UNSIGNED_INT /\ Computes!DOUBLE = DOUBLE /\ Computes!BOOL = BOOL /\ Computes!CHAR = CHAR
  /\ Computes!Compares = Compares /\ Computes!Word = Word /\ Computes!Half = Half /\ Computes!NaN = NaN
  /\ \A w : Computes!Real(w) = Real(w) /\ Computes!Wrap(w) = Wrap(w) /\ Computes!CharOf(w) = CharOf(w) /\ Computes!DoubleOf(w) = DoubleOf(w)
  /\ \A o \in {"+", "-", "*", "/", "%"} : \A a, b : Computes!DoubleOp(o, a, b) = DoubleOp(o, a, b)
  /\ \A f, a : Computes!Result(f, a) = Result(f, a)
<1>1. /\ Computes!UNSIGNED_INT = UNSIGNED_INT /\ Computes!DOUBLE = DOUBLE /\ Computes!BOOL = BOOL /\ Computes!CHAR = CHAR
      /\ Computes!Compares = Compares /\ Computes!Modulus = Modulus /\ Computes!NaN = NaN
  BY DEF Computes!UNSIGNED_INT, UNSIGNED_INT, Computes!DOUBLE, DOUBLE, Computes!BOOL, BOOL, Computes!CHAR, CHAR, Computes!Compares, Compares,
         Computes!Modulus, Modulus, Computes!NaN, NaN
<1>2. Computes!Word = Word /\ Computes!Half = Half
  BY <1>1 DEF Computes!Word, Word, Computes!Half, Half
<1>3. \A w : Computes!Real(w) = Real(w) /\ Computes!Wrap(w) = Wrap(w) /\ Computes!CharOf(w) = CharOf(w)
  BY <1>1 DEF Computes!Real, Real, Computes!Wrap, Wrap, Computes!CharOf, CharOf
<1>4. \A w : Computes!DoubleOf(w) = DoubleOf(w)
  BY <1>1, <1>2 DEF Computes!DoubleOf, DoubleOf
<1>5. \A a, b : Computes!Quotient(a, b) = Quotient(a, b)
  <2>1. \A n : Computes!Magnitude(n) = Magnitude(n)
    BY DEF Computes!Magnitude, Magnitude
  <2> QED BY <2>1, Zenon DEF Computes!Quotient, Quotient
<1>6. ASSUME NEW o \in {"+", "-", "*", "/", "%"}, NEW a, NEW b
      PROVE  Computes!DoubleOp(o, a, b) = DoubleOp(o, a, b)
  <2>1. Computes!Real(a) = Real(a) /\ Computes!Real(b) = Real(b) /\ Computes!Quotient(Real(a), Real(b)) = Quotient(Real(a), Real(b))
    BY <1>3, <1>5
  <2>2. CASE o = "+"
    BY <1>1, <1>4, <2>1, <2>2 DEF Computes!DoubleOp, DoubleOp
  <2>3. CASE o = "-"
    BY <1>1, <1>4, <2>1, <2>3 DEF Computes!DoubleOp, DoubleOp
  <2>4. CASE o = "*"
    BY <1>1, <1>4, <2>1, <2>4 DEF Computes!DoubleOp, DoubleOp
  <2>5. CASE o = "/"
    BY <1>1, <1>4, <2>1, <2>5 DEF Computes!DoubleOp, DoubleOp
  <2>6. CASE o = "%"
    BY <1>1, <1>4, <2>1, <2>6 DEF Computes!DoubleOp, DoubleOp
  <2> QED BY <2>2, <2>3, <2>4, <2>5, <2>6
<1>7. \A f, a : Computes!Result(f, a) = Result(f, a)
  BY <1>3, <1>6 DEF Computes!Result, Result
<1> QED BY <1>1, <1>2, <1>3, <1>4, <1>6, <1>7


LEMMA ComputesCalls ==
  \A o : Computes!Expects(o) = Expects(o) /\ Computes!Leaves(o) = Leaves(o)
<1>1. /\ Computes!Pops = Pops /\ Computes!Binops = Binops /\ Computes!Compares = Compares /\ Computes!Loads = Loads
      /\ Computes!BOOL = BOOL /\ Computes!VOID = VOID
  BY DEF Computes!Pops, Pops, Computes!Binops, Binops, Computes!Compares, Compares, Computes!Loads, Loads,
         Computes!BOOL, BOOL, Computes!VOID, VOID
<1> QED BY <1>1 DEF Computes!Expects, Expects, Computes!Leaves, Leaves
LEMMA ComputesHolds ==
  \A o, t, u, a, b : /\ Computes!Compared(o, t, a, b) = Was!Compared(o, t, a, b)
                     /\ Computes!Converted(t, u, a) = Was!Converted(t, u, a)
                     /\ Computes!IntegerOp(o, a, b) = Was!IntegerOp(o, a, b)
                     /\ Computes!BoolOp(o, a, b) = Was!BoolOp(o, a, b)
                     /\ Computes!Kept(t, a) = Was!Kept(t, a)
                     /\ Computes!Shown(t) = Was!Shown(t)
<1>1. \A o, a, b : Computes!Holds(o, a, b) = Was!Holds(o, a, b)
  BY DEF Computes!Holds, Was!Holds
<1>2. \A o, t, a, b : Computes!Compared(o, t, a, b) = Was!Compared(o, t, a, b)
  BY <1>1, WasNames, ComputesNames, Zenon DEF Computes!Compared, Was!Compared
<1>3. \A t, u, a : Computes!Converted(t, u, a) = Was!Converted(t, u, a)
  BY WasNames, ComputesNames DEF Computes!Converted, Was!Converted
<1>4. \A o, a, b : Computes!IntegerOp(o, a, b) = Was!IntegerOp(o, a, b)
  BY WasNames, ComputesNames DEF Computes!IntegerOp, Was!IntegerOp
<1>5. \A o, a, b : Computes!BoolOp(o, a, b) = Was!BoolOp(o, a, b)
  BY DEF Computes!BoolOp, Was!BoolOp
<1>6. \A t, a : Computes!Kept(t, a) = Was!Kept(t, a) /\ Computes!Shown(t) = Was!Shown(t)
  BY WasNames, ComputesNames DEF Computes!Kept, Was!Kept, Computes!Shown, Was!Shown
<1> QED BY <1>2, <1>3, <1>4, <1>5, <1>6

LEMMA ComputesValues ==
  ASSUME At = before'
  PROVE  \A o, a : /\ Computes!Values(o, a) = Was!Values(o, a)'
                   /\ Computes!Assigned(o, a) = Was!Assigned(o, a)'
                   /\ Computes!Passed(o, a) = Was!Passed(o, a)'
                   /\ Computes!Told(o, a) = Was!Told(o, a)'
<1> TAKE o, a
<1>1. Computes!Values(o, a) = Was!Values(o, a)'
  <2>1. DOMAIN Computes!Sign = DOMAIN Was!Sign /\ Computes!Sign = Was!Sign
        /\ \A c \in DOMAIN Was!Sign : Was!Sign[c] \in {"+", "-", "*", "/", "%"}
    BY DEF Computes!Sign, Was!Sign
  <2>2. ASSUME o.call \in DOMAIN Was!Sign
        PROVE  Computes!DoubleOp(Was!Sign[o.call], a[1], a[2]) = Was!DoubleOp(Was!Sign[o.call], a[1], a[2])
    BY <2>1, <2>2, WasNames, ComputesNames
  <2>3. Computes!Result(o.name, At.args) = Was!Result(o.name, before'.args)
    BY WasNames, ComputesNames
  <2>4. PICK N : N = before'
    OBVIOUS
  <2> QED BY <2>1, <2>2, <2>3, WasNames, ComputesNames, ComputesHolds DEF Computes!Values, Was!Values
<1>2. Computes!Assigned(o, a) = Was!Assigned(o, a)'
  BY DEF Computes!Assigned, Was!Assigned
<1>3. Computes!Passed(o, a) = Was!Passed(o, a)'
  BY DEF Computes!Passed, Was!Passed
<1>4. Computes!Told(o, a) = Was!Told(o, a)'
  BY ComputesHolds, WasNames, ComputesNames DEF Computes!Told, Was!Told
<1> QED BY <1>1, <1>2, <1>3, <1>4

\* The history variable is what the mapping gave before the step.
LEMMA Remembered ==
  ASSUME IInv, Next
  PROVE  before' = At
<1>1. CASE BeginOperation
  BY <1>1 DEF BeginOperation, Begin, At
<1>2. CASE EndMain
  BY <1>2 DEF EndMain, Begin, At
<1>3. CASE Run
  <2>1. Execute /\ before' = before
    BY <1>3 DEF Run
  <2>2. running = "running" /\ ip <= Len(code)
    BY <2>1, Dispatch
  <2>3. ip \in 1 .. Len(code) + 1
    BY DEF IInv, Control
  <2>4. ~AtBoundary
    BY <2>2, <2>3 DEF AtBoundary
  <2> QED BY <2>1, <2>4 DEF At
<1>4. CASE Stopped
  BY <1>4 DEF Stopped, AtBoundary, At, vars
<1> QED BY <1>1, <1>2, <1>3, <1>4 DEF Next

Abstract == <<At.stack, At.variables, At.args, At.heard, At.last>>

LEMMA ComputesStep ==
  ASSUME NEW o, NEW a, At = before', At' = Meaning', Accomplished(o, a)'
  PROVE  Computes!Compute(o) /\ At'.last = o
<1>1. PICK B, e, k, M : B = before' /\ e = Expects(o) /\ k = Len(B.stack) - Len(e) /\ M = Meaning'
  OBVIOUS
<1>2. /\ M.last = o /\ k \in Nat
      /\ a = [i \in 1 .. Len(e) |-> B.stack[k + i].value]
      /\ \A i \in 1 .. Len(e) : B.stack[k + i].type = e[i]
      /\ Leaves(o) = <<>> => M.stack = SubSeq(B.stack, 1, k)
  BY <1>1 DEF Accomplished
<1>3. Leaves(o) # <<>> =>
        \E v \in Computes!Values(o, a) :
          M.stack = SubSeq(B.stack, 1, k) \o <<[type |-> Leaves(o)[1], value |-> Computes!Kept(Leaves(o)[1], v)]>>
  <2> HAVE Leaves(o) # <<>>
  <2>1. PICK v \in Was!Values(o, a)' :
           M.stack = SubSeq(B.stack, 1, k) \o <<[type |-> Leaves(o)[1], value |-> Was!Kept(Leaves(o)[1], v)]>>
    BY <1>1 DEF Accomplished
  <2>2. v \in Computes!Values(o, a)
    BY <2>1, ComputesValues
  <2> QED BY <2>1, <2>2, ComputesHolds
<1>4. M.variables = Computes!Assigned(o, a) /\ M.args = Computes!Passed(o, a) /\ M.heard = Computes!Told(o, a)
  <2>1. M.variables = Was!Assigned(o, a)' /\ M.args = Was!Passed(o, a)' /\ M.heard = Was!Told(o, a)'
    BY <1>1 DEF Accomplished
  <2> QED BY <2>1, ComputesValues
<1>5. k >= 0
  BY <1>2
<1>6. At = B /\ At' = M
  BY <1>1
<1>7. Computes!Expects(o) = e /\ Computes!Leaves(o) = Leaves(o)
  BY <1>1, ComputesCalls
<1> DEFINE p == Len(Computes!Expects(o))
           d == Len(At.stack) - p
           x == [i \in 1 .. p |-> (At.stack)[d + i].value]
<1>8. p = Len(e) /\ d = k /\ x = a
  BY <1>1, <1>2, <1>6, <1>7
<1>9. d >= 0 /\ \A i \in 1 .. p : (At.stack)[d + i].type = Computes!Expects(o)[i]
  BY <1>2, <1>5, <1>6, <1>7, <1>8
<1>10. \/ /\ Computes!Leaves(o) = <<>>
          /\ At'.stack = SubSeq(At.stack, 1, d)
       \/ /\ Computes!Leaves(o) # <<>>
          /\ \E v \in Computes!Values(o, x) :
               At'.stack = SubSeq(At.stack, 1, d)
                             \o <<[type |-> Computes!Leaves(o)[1], value |-> Computes!Kept(Computes!Leaves(o)[1], v)]>>
  <2>1. CASE Leaves(o) = <<>>
    BY <1>2, <1>6, <1>7, <1>8, <2>1
  <2>2. CASE Leaves(o) # <<>>
    BY <1>3, <1>6, <1>7, <1>8, <2>2
  <2> QED BY <2>1, <2>2
<1>11. At'.variables = Computes!Assigned(o, x) /\ At'.args = Computes!Passed(o, x) /\ At'.heard = Computes!Told(o, x)
       /\ At'.last = o
  BY <1>2, <1>4, <1>6, <1>8
<1>12. Computes!Compute(o)
  BY ONLY <1>9, <1>10, <1>11, Zenon DEF Computes!Compute, Computes!Slot, p, d, x
<1> QED BY <1>11, <1>12

LEMMA Refines ==
  ASSUME Defects \subseteq {"immediate"}, IInv, IInv', [Next]_vars,
         AtBoundary' => \A o, a : o = op' /\ a = Popped' => Accomplished(o, a)'
  PROVE  [Computes!Next]_Abstract
<1>1. CASE UNCHANGED vars
  <2>0. UNCHANGED <<code, ip, reg, mem, store, heard, running, op, operands, argTypes, before>>
    BY <1>1 DEF vars, machine
  <2>1. Meaning' = Meaning
    <3>1. PICK types : types = argTypes
      OBVIOUS
    <3>2. \A i : Argument(types, i)' = Argument(types, i)
      BY <2>0, ArgumentAt
    <3>3. [i \in 1 .. Len(argTypes') |-> Received(argTypes'[i], Argument(argTypes, i)')]
            = [i \in 1 .. Len(argTypes) |-> Received(argTypes[i], Argument(argTypes, i))]
      BY <2>0, <3>1, <3>2
    <3> QED BY <2>0, <3>3 DEF Meaning
  <2>2. (AtBoundary' <=> AtBoundary) /\ before' = before
    BY <2>0 DEF AtBoundary
  <2>3. At' = At
    BY <2>1, <2>2 DEF At
  <2> QED BY <2>3 DEF Abstract
<1>2. CASE Next
  <2>1. At = before'
    BY <1>2, Remembered
  <2>2. CASE AtBoundary'
    <3>1. PICK o, a : o = op' /\ a = Popped'
      OBVIOUS
    <3>2. At' = Meaning'
      BY <2>2 DEF At
    <3>3. Accomplished(o, a)'
      BY <2>2, <3>1
    <3>4. Computes!Compute(o) /\ At'.last = o
      BY <2>1, <3>2, <3>3, ComputesStep
    <3> QED BY <3>4 DEF Computes!Next
  <2>3. CASE ~AtBoundary'
    <3>1. At' = At
      BY <2>1, <2>3 DEF At
    <3> QED BY <3>1 DEF Abstract
  <2> QED BY <2>2, <2>3
<1> QED BY <1>1, <1>2

LEMMA RefinesInit ==
  ASSUME Init
  PROVE  Computes!Init
<1>1. ip = 1 /\ code = BeginMain /\ running = "running" /\ before = Meaning
  BY DEF Init, Entered
<1>2. ~AtBoundary
  BY <1>1, CodeOfMain DEF AtBoundary
<1>3. At = Meaning
  BY <1>1, <1>2 DEF At
<1>4. Meaning.stack = <<>> /\ Meaning.args = <<>> /\ Meaning.heard = NoCall /\ Meaning.last = NoOp
  BY DEF Init, Entered, Meaning
<1>5. Meaning.variables = [v \in DOMAIN VarType |-> 0]
  <2>1. \A t : Denotes(t, 0) = 0
    BY ModulusFacts, PowersAssumption, SmallMod DEF Denotes, CharOf
  <2>2. \A v \in DOMAIN VarType : store[v] = 0
    BY ProgramAssumption DEF Init, Entered
  <2> QED BY <2>1, <2>2 DEF Meaning
<1>6. Computes!NoOp = NoOp /\ Computes!NoName = NoName
  BY DEF Computes!NoOp, NoOp, Computes!NoName, NoName, Computes!VOID, VOID
<1> QED BY <1>3, <1>4, <1>5, <1>6 DEF Computes!Init, NoCall

(***************************************************************************)
(* The machine that runs the generated code implements ValueCode: whatever *)
(* the program, the code of each call of CodeGen takes the operands from   *)
(* the stack, leaves there a value that the call may compute, and assigns, *)
(* passes and tells functions what the call means, and nothing else.  The  *)
(* hypothesis leaves out the calls listed in KnownDefects, but for         *)
(* literals that the assembler refuses.                                    *)
(***************************************************************************)
THEOREM CodeImplementsValueCode ==
  ASSUME Defects \subseteq {"immediate"}
  PROVE  Spec => ImplementsValueCode
<1>1. Init => Computes!Init
  BY RefinesInit
<1>2. IInv /\ AtBoundary => \A o, a : o = op /\ a = Popped => Accomplished(o, a)
  BY AccomplishedIf
<1>3. (IInv /\ AtBoundary => \A o, a : o = op /\ a = Popped => Accomplished(o, a))'
  BY <1>2, PTL
<1>4. IInv /\ IInv' /\ [Next]_vars => [Computes!Next]_Abstract
  <2> SUFFICES ASSUME IInv, IInv', [Next]_vars PROVE [Computes!Next]_Abstract
    OBVIOUS
  <2>1. AtBoundary' => \A o, a : o = op' /\ a = Popped' => Accomplished(o, a)'
    BY <1>3
  <2> QED BY <2>1, Refines
<1> QED BY <1>1, <1>4, CodeKeepsMeaning, PTL DEF Spec, ImplementsValueCode, Computes!Spec, Abstract
=============================================================================
