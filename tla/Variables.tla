------------------------------ MODULE Variables ------------------------------
(***************************************************************************)
(* What the global variables of a program promise: a load yields what was  *)
(* stored in the variable last, zero before.  Variables of a type smaller  *)
(* than a word promise less.  They are still accessed as words: a store to *)
(* one may change other variables, and what a load of one yields may       *)
(* change with any store.                                                  *)
(***************************************************************************)
CONSTANTS
  VarNames,  \* the variables
  Small,     \* those smaller than a word
  Words,     \* the words that fit in one
  Zero       \* the word of zeros

VARIABLES
  value,  \* variables -> word that a load yields
  last    \* the variable stored to last, in a set: none before

Init == value = [v \in VarNames |-> Zero] /\ last = {}

Assign(v, w) ==
  /\ last' = {v}
  /\ value'[v] = w
  /\ value' \in [VarNames -> Words]
  /\ v \notin Small => \A u \in VarNames \ (Small \cup {v}) : value'[u] = value[u]

Next == \E v \in VarNames, w \in Words : Assign(v, w)

Spec == Init /\ [][Next]_<<value, last>>
=============================================================================
