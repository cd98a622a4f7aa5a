------------------------------ MODULE CeriTypes ------------------------------
(***************************************************************************)
(* The types of the source language as the compiler represents them:       *)
(* enum class Type (types.hpp) is an integer; the values from              *)
(* FIRST_USER_DEFINED upwards are allocated at compile time for pointer    *)
(* types, whose targets are kept in Compiler::m_user_types.                *)
(***************************************************************************)
EXTENDS Naturals

VOID               == 0
UNSIGNED_INT       == 1
DOUBLE             == 2
BOOL               == 3  \* Type::BOOLEAN (a reserved word here)
CHAR               == 4
ARITHMETIC         == 5  \* the only type concept
FIRST_USER_DEFINED == 7  \* after BUILTIN_TOTAL

Type == Nat

Integral      == {UNSIGNED_INT}
Floating      == {DOUBLE}
Arithmetic    == Integral \cup Floating
Concrete      == Arithmetic \cup {BOOL, CHAR}
IsUserDefined(t) == t >= FIRST_USER_DEFINED

\* check_type(a, b) raises no error: b may be the concept ARITHMETIC.
Matches(a, b) == IF b = ARITHMETIC THEN a \in Arithmetic ELSE a = b

(***************************************************************************)
(* m_user_types is a function from type ids to pointer targets, and        *)
(* `free` is m_first_free_type, the id allocated last.                     *)
(***************************************************************************)

\* (A variant: create_type does not look for an equal type.)
NeverCreated(table, target) == FALSE

\* create_type: the id of an equal user type, or a newly allocated one.
IsCreated(table, target) == \E t \in DOMAIN table : table[t] = target

PointerTo(table, free, target) ==
  IF IsCreated(table, target)
    THEN CHOOSE t \in DOMAIN table : table[t] = target
    ELSE free + 1

TableWith(table, free, target) ==
  IF IsCreated(table, target)
    THEN table
    ELSE [t \in DOMAIN table \cup {free + 1} |->
            IF t \in DOMAIN table THEN table[t] ELSE target]

FreeAfter(table, free, target) ==
  IF IsCreated(table, target) THEN free ELSE free + 1

(***************************************************************************)
(* What makes comparing two ids the same as comparing two pointer types:   *)
(* ids are dense, a target has one id only, and a type is built from types *)
(* allocated before it (so no type contains itself).                       *)
(***************************************************************************)
PointerTableOK(table, free) ==
  /\ free \in Nat
  /\ free >= FIRST_USER_DEFINED
  /\ DOMAIN table = (FIRST_USER_DEFINED + 1) .. free
  /\ \A t \in DOMAIN table :
       table[t] \in Concrete \cup {u \in DOMAIN table : u < t}
  /\ \A t, u \in DOMAIN table : table[t] = table[u] => t = u
=============================================================================
