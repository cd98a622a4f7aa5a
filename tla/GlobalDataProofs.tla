--------------------------- MODULE GlobalDataProofs ---------------------------
(***************************************************************************)
(* Proofs about the .data section, for variables of all types, in whatever *)
(* order they are defined, and words of any number of bytes.               *)
(***************************************************************************)
EXTENDS GlobalData, TLAPS

(***************************************************************************)
(* The inductive invariant: the bytes that belong to the variables defined *)
(* so far lie one beside the other below the location counter, and the     *)
(* data of a running program holds all of them.                            *)
(***************************************************************************)
Size(v) == SizeOf(VarType[v])

Placed ==
  /\ DOMAIN address \subseteq DOMAIN VarType
  /\ location \in Nat \ {0}
  /\ \A v \in DOMAIN address : address[v] \in 1 .. location /\ address[v] + Size(v) <= location

Apart ==
  \A u, v \in DOMAIN address :
    u = v \/ address[u] + Size(u) <= address[v] \/ address[v] + Size(v) <= address[u]

Held ==
  program = "running" =>
    /\ DOMAIN address = DOMAIN VarType
    /\ data \in [1 .. location - 1 + WordBytes -> Bytes]

IInv == Placed /\ Apart /\ Held

LEMMA Beginning ==
  ASSUME Init
  PROVE  IInv
BY DEF Init, IInv, Placed, Apart, Held

\* The size of a 64-bit variable is that of the words it is accessed as.
LEMMA Sizes ==
  ASSUME NEW v \in DOMAIN VarType
  PROVE  /\ Size(v) \in 1 .. WordBytes
         /\ v \notin Small => Size(v) = WordBytes
BY GlobalDataAssumption DEF Size, SizeOf, Small

LEMMA DefineStep ==
  ASSUME IInv, NEW v \in DOMAIN VarType, DefineGlobalVariable(v)
  PROVE  IInv'
<1>1. Size(v) \in Nat \ {0} /\ WordBytes \in Nat \ {0}
  BY Sizes, GlobalDataAssumption
<1>2. /\ program' = program /\ program = "compiling" /\ v \notin DOMAIN address
      /\ address' = [u \in DOMAIN address \cup {v} |-> IF u = v THEN location ELSE address[u]]
      /\ location' = location + Size(v)
  BY DEF DefineGlobalVariable, Size
<1>3. /\ DOMAIN address' = DOMAIN address \cup {v} /\ address'[v] = location
      /\ \A u \in DOMAIN address : address'[u] = address[u]
  BY <1>2
<1>4. location \in Nat \ {0} /\ \A u \in DOMAIN address : Size(u) \in Nat
  BY Sizes DEF IInv, Placed
<1>5. Placed'
  BY <1>1, <1>2, <1>3, <1>4 DEF IInv, Placed, Size
<1>6. Apart'
  BY <1>1, <1>3, <1>4 DEF IInv, Placed, Apart, Size
<1>7. Held'
  BY <1>2 DEF Held
<1> QED BY <1>5, <1>6, <1>7 DEF IInv

LEMMA StartStep ==
  ASSUME IInv, StartProgram
  PROVE  IInv'
<1>1. address' = address /\ location' = location
  BY DEF StartProgram
<1>2. Placed' /\ Apart'
  BY <1>1 DEF IInv, Placed, Apart, Size
<1>3. Held'
  BY GlobalDataAssumption DEF StartProgram, Held
<1> QED BY <1>2, <1>3 DEF IInv

LEMMA StoreStep ==
  ASSUME IInv, NEW v \in DOMAIN VarType, NEW w \in Words, StoreVariable(v, w)
  PROVE  IInv'
<1>1. address' = address /\ location' = location /\ program' = program /\ program = "running"
  BY DEF StoreVariable
<1>2. Placed' /\ Apart'
  BY <1>1 DEF IInv, Placed, Apart, Size
<1>3. Held'
  <2>1. DOMAIN address = DOMAIN VarType /\ data \in [1 .. location - 1 + WordBytes -> Bytes]
    BY <1>1 DEF IInv, Held
  <2>2. \A i \in 1 .. WordBytes : w[i] \in Bytes
    BY DEF Words
  <2>3. data' = [a \in 1 .. location - 1 + WordBytes |->
                   IF a - address[v] + 1 \in 1 .. WordBytes THEN w[a - address[v] + 1] ELSE data[a]]
    BY <2>1 DEF StoreVariable, StoreWord
  <2>4. data' \in [1 .. location - 1 + WordBytes -> Bytes]
    BY <2>1, <2>2, <2>3
  <2> QED BY <1>1, <2>1, <2>4 DEF Held
<1> QED BY <1>2, <1>3 DEF IInv

LEMMA Preserved ==
  ASSUME IInv, [Next]_vars
  PROVE  IInv'
<1>1. CASE UNCHANGED vars
  BY <1>1 DEF vars, IInv, Placed, Apart, Held, Size
<1>2. CASE Next
  BY <1>2, DefineStep, StartStep, StoreStep DEF Next
<1> QED BY <1>1, <1>2

-----------------------------------------------------------------------------
(***************************************************************************)
(* The word at a variable lies in the section, and a store changes the     *)
(* bytes of this word and no others.                                       *)
(***************************************************************************)
LEMMA BytesOf ==
  ASSUME IInv, program = "running", NEW v \in DOMAIN VarType, NEW i \in 1 .. WordBytes
  PROVE  address[v] \in Nat /\ address[v] + i - 1 \in DOMAIN data
<1>1. Size(v) \in 1 .. WordBytes /\ WordBytes \in Nat \ {0}
  BY Sizes, GlobalDataAssumption
<1>2. DOMAIN data = 1 .. location - 1 + WordBytes /\ location \in Nat /\ address[v] \in 1 .. location
      /\ address[v] + Size(v) <= location
  BY DEF IInv, Placed, Held
<1> QED BY <1>1, <1>2

LEMMA StoreChanges ==
  ASSUME IInv, NEW v \in DOMAIN VarType, NEW w \in Words, StoreVariable(v, w)
  PROVE  /\ program = "running" /\ program' = program /\ address' = address
         /\ WordAt(v)' = w
         /\ \A u \in DOMAIN VarType, i \in 1 .. WordBytes :
              (address[u] + i - 1) - address[v] + 1 \notin 1 .. WordBytes =>
                data'[address[u] + i - 1] = data[address[u] + i - 1]
<1>1. /\ program = "running" /\ program' = program /\ address' = address
      /\ data' = [a \in DOMAIN data |->
                    IF a - address[v] + 1 \in 1 .. WordBytes THEN w[a - address[v] + 1] ELSE data[a]]
  BY DEF StoreVariable, StoreWord
<1>2. ASSUME NEW i \in 1 .. WordBytes PROVE data'[address[v] + i - 1] = w[i]
  <2>1. address[v] \in Nat /\ address[v] + i - 1 \in DOMAIN data
    BY <1>1, BytesOf
  <2>2. (address[v] + i - 1) - address[v] + 1 = i
    BY <2>1
  <2> QED BY <1>1, <2>1, <2>2
<1>3. WordAt(v)' = [i \in 1 .. WordBytes |-> w[i]]
  BY <1>1, <1>2 DEF WordAt
<1>4. w = [i \in 1 .. WordBytes |-> w[i]]
  BY DEF Words
<1>5. ASSUME NEW u \in DOMAIN VarType, NEW i \in 1 .. WordBytes,
             (address[u] + i - 1) - address[v] + 1 \notin 1 .. WordBytes
      PROVE  data'[address[u] + i - 1] = data[address[u] + i - 1]
  BY <1>1, <1>5, BytesOf
<1> QED BY <1>1, <1>3, <1>4, <1>5

\* The word written by a store begins with the variable's own bytes, and reaches beyond
\* these only for a BOOLEAN or a CHAR.
LEMMA StoreReaches ==
  ASSUME IInv, NEW u \in DOMAIN VarType, NEW v \in DOMAIN VarType, u # v, NEW w \in Words, StoreVariable(v, w),
         NEW i \in 1 .. Size(u), data'[address[u] + i - 1] # data[address[u] + i - 1]
  PROVE  v \in Small /\ address[u] \in address[v] + 1 .. address[v] + WordBytes - 1
<1>1. /\ Size(u) \in 1 .. WordBytes /\ Size(v) \in 1 .. WordBytes /\ WordBytes \in Nat \ {0}
      /\ v \notin Small => Size(v) = WordBytes
  BY Sizes, GlobalDataAssumption
<1>2. i \in 1 .. WordBytes
  BY <1>1
<1>3. (address[u] + i - 1) - address[v] + 1 \in 1 .. WordBytes
  BY <1>2, StoreChanges
<1>4. address[u] \in Nat /\ address[v] \in Nat
  BY <1>2, BytesOf, StoreChanges
<1>5. u \in DOMAIN address /\ v \in DOMAIN address
  BY StoreChanges DEF IInv, Held
<1>6. address[u] + Size(u) <= address[v] \/ address[v] + Size(v) <= address[u]
  BY <1>5 DEF IInv, Apart
<1>7. address[v] + Size(v) <= address[u]
  BY <1>1, <1>3, <1>4, <1>6
<1> QED BY <1>1, <1>3, <1>4, <1>7

LEMMA StartsZero ==
  ASSUME IInv, StartProgram, NEW v \in DOMAIN VarType
  PROVE  WordAt(v)' = Zero
<1>1. program' = "running" /\ data' = [a \in 1 .. location - 1 + WordBytes |-> 0] /\ address' = address
  BY DEF StartProgram
<1>2. IInv'
  BY StartStep
<1>3. ASSUME NEW i \in 1 .. WordBytes PROVE data'[address'[v] + i - 1] = 0
  <2>1. Size(v) \in 1 .. WordBytes /\ WordBytes \in Nat \ {0}
    BY Sizes, GlobalDataAssumption
  <2>2. location \in Nat /\ address[v] \in 1 .. location /\ address[v] + Size(v) <= location
    BY DEF IInv, Placed, StartProgram
  <2>3. address[v] + i - 1 \in 1 .. location - 1 + WordBytes
    BY <2>1, <2>2
  <2> QED BY <1>1, <2>3
<1> QED BY <1>3 DEF WordAt, Zero

-----------------------------------------------------------------------------
(***************************************************************************)
(* The refinement: definitions and the start of the program leave every    *)
(* variable zero, a store is an assignment.                                *)
(***************************************************************************)
LEMMA StoreAssigns ==
  ASSUME IInv, IInv', NEW v \in DOMAIN VarType, NEW w \in Words, StoreVariable(v, w)
  PROVE  Independent!Assign(v, w)
<1>1. program = "running" /\ program' = "running" /\ address' = address /\ WordAt(v)' = w
      /\ stored' = {v}
  BY StoreChanges DEF StoreVariable
<1>2. Loaded = [u \in DOMAIN VarType |-> WordAt(u)] /\ Loaded' = [u \in DOMAIN VarType |-> WordAt(u)']
  BY <1>1 DEF Loaded
<1>3. Loaded' \in [DOMAIN VarType -> Words]
  <2>1. DOMAIN data' = DOMAIN data
    BY DEF StoreVariable, StoreWord
  <2>2. ASSUME NEW u \in DOMAIN VarType, NEW i \in 1 .. WordBytes
        PROVE  data'[address[u] + i - 1] \in Bytes
    <3>1. address[u] + i - 1 \in DOMAIN data'
      BY <1>1, <2>1, BytesOf
    <3> QED BY <1>1, <3>1 DEF IInv, Held
  <2>3. \A u \in DOMAIN VarType : WordAt(u)' \in Words
    BY <1>1, <2>2 DEF WordAt, Words
  <2> QED BY <1>2, <2>3
<1>4. ASSUME v \notin Small, NEW u \in DOMAIN VarType \ (Small \cup {v})
      PROVE  WordAt(u)' = WordAt(u)
  <2>1. Size(u) = WordBytes
    BY <1>4, Sizes
  <2>2. \A i \in 1 .. WordBytes : data'[address[u] + i - 1] = data[address[u] + i - 1]
    BY <1>4, <2>1, StoreReaches
  <2> QED BY <1>1, <2>2 DEF WordAt
<1> QED BY <1>1, <1>2, <1>3, <1>4 DEF Independent!Assign

LEMMA RefinesStep ==
  ASSUME IInv, IInv', [Next]_vars
  PROVE  [Independent!Next]_<<Loaded, stored>>
<1>1. CASE UNCHANGED vars
  <2>1. Loaded' = Loaded /\ stored' = stored
    BY <1>1 DEF vars, Loaded, WordAt, Zero
  <2> QED BY <2>1
<1>2. ASSUME NEW v \in DOMAIN VarType, DefineGlobalVariable(v) PROVE UNCHANGED <<Loaded, stored>>
  <2>1. program = "compiling" /\ program' = "compiling" /\ stored' = stored
    BY <1>2 DEF DefineGlobalVariable
  <2> QED BY <2>1 DEF Loaded, Zero
<1>3. CASE StartProgram
  <2>1. program = "compiling" /\ program' = "running" /\ stored' = stored
    BY <1>3 DEF StartProgram
  <2>2. \A v \in DOMAIN VarType : WordAt(v)' = Zero
    BY <1>3, StartsZero
  <2>3. Loaded' = Loaded
    BY <2>1, <2>2 DEF Loaded, Zero
  <2> QED BY <2>1, <2>3
<1>4. ASSUME NEW v \in DOMAIN VarType, NEW w \in Words, StoreVariable(v, w) PROVE Independent!Next
  BY <1>4, StoreAssigns DEF Independent!Next
<1> QED BY <1>1, <1>2, <1>3, <1>4 DEF Next

LEMMA DataInvariant == Spec => []IInv
<1>1. Init => IInv
  BY Beginning
<1>2. IInv /\ [Next]_vars => IInv'
  BY Preserved
<1> QED BY <1>1, <1>2, PTL DEF Spec

(***************************************************************************)
(* Whatever types the variables have and in whatever order the compiler    *)
(* defines them (emit_global_variables): a store to a 64-bit variable      *)
(* changes it and no other 64-bit variable, and a load after a store to    *)
(* the same variable yields what was stored.                               *)
(***************************************************************************)
THEOREM VariablesAreIndependent == Spec => ImplementsVariables
<1>1. Init => Independent!Init
  BY DEF Init, Loaded, Independent!Init
<1>2. IInv /\ IInv' /\ [Next]_vars => [Independent!Next]_<<Loaded, stored>>
  BY RefinesStep
<1> QED BY <1>1, <1>2, DataInvariant, PTL DEF Spec, ImplementsVariables, Independent!Spec

(***************************************************************************)
(* Whatever types the variables have and whatever their order: only the    *)
(* store of a BOOLEAN or a CHAR, one byte written with popq, changes bytes *)
(* of other variables, and only of those defined after it that begin       *)
(* within its word.                                                        *)
(***************************************************************************)
THEOREM SpillsGoUpwards == Spec => StoresSpillUpwards
<1> DEFINE Reach(u, v) == v \in Small /\ address[u] \in address[v] + 1 .. address[v] + WordBytes - 1
<1>1. ASSUME IInv, NEW v \in DOMAIN VarType, NEW w \in Words, StoreVariable(v, w),
             NEW u \in DOMAIN VarType \ {v}, Own(u)' # Own(u)
      PROVE  Reach(u, v)
  <2>1. address' = address
    BY <1>1, StoreChanges
  <2>2. PICK i \in 1 .. Size(u) : data'[address[u] + i - 1] # data[address[u] + i - 1]
    BY <1>1, <2>1 DEF Own, Size
  <2> QED BY <1>1, <2>2, StoreReaches
<1> DEFINE Spills ==
      \A v \in DOMAIN VarType :
        (\E w \in Words : StoreVariable(v, w)) =>
          \A u \in DOMAIN VarType \ {v} :
            Own(u)' # Own(u) =>
              v \in Small /\ address[u] \in address[v] + 1 .. address[v] + WordBytes - 1
<1>2. IInv => Spills
  BY <1>1
<1> HIDE DEF Spills
<1>3. IInv /\ [Next]_vars => [Spills]_vars
  BY <1>2
<1>4. Spec => [][Spills]_vars
  BY <1>3, DataInvariant, PTL DEF Spec
<1> QED BY <1>4 DEF StoresSpillUpwards, Spills
=============================================================================
