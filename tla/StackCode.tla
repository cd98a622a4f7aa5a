------------------------------ MODULE StackCode ------------------------------
(***************************************************************************)
(* What the parser promises CodeGen: the calls it makes are a well-typed   *)
(* stack program.  Whenever a call is made, the operands its code will pop *)
(* are on top of the operand stack, with the types the call was given; no  *)
(* call reaches below the operands its own construct pushed.               *)
(***************************************************************************)
EXTENDS CodeGenCalls

VARIABLES
  stack,  \* types of the operands on the run-time stack at this point of the code
  last    \* the last call made

Applicable(s, op) ==
  /\ Len(Expects(op)) <= Len(s)
  /\ \A i \in 1 .. Len(Expects(op)) :
       s[Len(s) - Len(Expects(op)) + i] = Expects(op)[i]

Init == stack = <<>> /\ last = NoOp

Call == /\ last' \in Op
        /\ Applicable(stack, last')
        /\ stack' = After(stack, last')

Next == Call

Spec == Init /\ [][Next]_<<stack, last>>
=============================================================================
