------------------------------ MODULE GlobalData ------------------------------
(***************************************************************************)
(* The variables of a program in its .data section.  The compiler defines  *)
(* them one after the other, in the order an unordered_map yields them;    *)
(* the assembler gives each as many bytes as its directive says.  The code *)
(* reads and writes them with 64-bit instructions, whatever their type.    *)
(***************************************************************************)
EXTENDS CeriTypes

CONSTANTS
  VarType,    \* m_variables: names -> Type
  WordBytes,  \* bytes of a word (8)
  Bytes       \* values of a byte

ASSUME GlobalDataAssumption == WordBytes \in Nat \ {0} /\ 0 \in Bytes

VARIABLES
  address,   \* of the variables whose definition has been written, in bytes from 1
  location,  \* of the assembler: the address of the next byte of the section
  program,   \* "compiling" or "running"
  data,      \* the .data section when the program runs, and what is after it
  stored     \* history: the variable stored to last, in a set: none before

vars == <<address, location, program, data, stored>>

Words == [1 .. WordBytes -> Bytes]
Zero  == [i \in 1 .. WordBytes |-> 0]

\* (A variant: an INTEGER has the size of a CHAR.)
SmallIntegers(type) == IF type \in {BOOL, CHAR, UNSIGNED_INT} THEN 1 ELSE WordBytes

\* .byte, .quad or .double
SizeOf(type) == IF type \in {BOOL, CHAR} THEN 1 ELSE WordBytes

\* The variables smaller than the words they are accessed as.
Small == {v \in DOMAIN VarType : VarType[v] \in {BOOL, CHAR}}

\* Loads and stores are those of a word at the address of the variable.
WordAt(v) == [i \in 1 .. WordBytes |-> data[address[v] + i - 1]]

StoreWord(v, w) ==
  data' = [a \in DOMAIN data |->
             IF a - address[v] + 1 \in 1 .. WordBytes THEN w[a - address[v] + 1] ELSE data[a]]

-----------------------------------------------------------------------------
Init ==
  /\ address = [v \in {} |-> 0]
  /\ location = 1
  /\ program = "compiling"
  /\ data = <<>>
  /\ stored = {}

\* (A variant: the label is written after the directive.)
DefineThenLabel(v) ==
  /\ program = "compiling"
  /\ v \notin DOMAIN address
  /\ location' = location + SizeOf(VarType[v])
  /\ address' = [u \in DOMAIN address \cup {v} |-> IF u = v THEN location' ELSE address[u]]
  /\ UNCHANGED <<program, data, stored>>

DefineGlobalVariable(v) ==
  /\ program = "compiling"
  /\ v \notin DOMAIN address
  /\ address' = [u \in DOMAIN address \cup {v} |-> IF u = v THEN location ELSE address[u]]
  /\ location' = location + SizeOf(VarType[v])
  /\ UNCHANGED <<program, data, stored>>

\* The section ends with the last variable; a store may go beyond it.
StartProgram ==
  /\ program = "compiling"
  /\ DOMAIN address = DOMAIN VarType
  /\ program' = "running"
  /\ data' = [a \in 1 .. location - 1 + WordBytes |-> 0]
  /\ UNCHANGED <<address, location, stored>>

StoreVariable(v, w) ==
  /\ program = "running"
  /\ StoreWord(v, w)
  /\ stored' = {v}
  /\ UNCHANGED <<address, location, program>>

Next ==
  \/ \E v \in DOMAIN VarType : DefineGlobalVariable(v)
  \/ StartProgram
  \/ \E v \in DOMAIN VarType, w \in Words : StoreVariable(v, w)

Spec == Init /\ [][Next]_vars

-----------------------------------------------------------------------------
(***************************************************************************)
(* In a program with variables of any types, defined in any order: a store *)
(* to a 64-bit variable (INTEGER, DOUBLE, a pointer) changes what a load   *)
(* of this variable yields, and of no other 64-bit variable.  BOOLEAN and  *)
(* CHAR take one byte (define_global_variable) and are accessed as words   *)
(* all the same: of them it says only that a load right after a store      *)
(* yields what was stored.  That they change other variables is not        *)
(* excluded, since they do.                                                *)
(***************************************************************************)
Loaded == [v \in DOMAIN VarType |-> IF program = "running" THEN WordAt(v) ELSE Zero]
Independent == INSTANCE Variables WITH VarNames <- DOMAIN VarType, value <- Loaded, last <- stored
ImplementsVariables == Independent!Spec

(***************************************************************************)
(* Whatever the types and the order: a store changes bytes that belong to  *)
(* another variable only if it is one to a BOOLEAN or a CHAR, and then     *)
(* only of variables defined after it that begin within the word it        *)
(* writes.  So a BOOLEAN or a CHAR keeps its own byte under every store    *)
(* to a 64-bit variable, and every variable keeps its value under stores   *)
(* to those defined after it.                                              *)
(***************************************************************************)
Own(v) == [i \in 1 .. SizeOf(VarType[v]) |-> data[address[v] + i - 1]]

StoresSpillUpwards ==
  [][\A v \in DOMAIN VarType :
       (\E w \in Words : StoreVariable(v, w)) =>
         \A u \in DOMAIN VarType \ {v} :
           Own(u)' # Own(u) =>
             v \in Small /\ address[u] \in address[v] + 1 .. address[v] + WordBytes - 1]_vars
=============================================================================
