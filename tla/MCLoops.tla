------------------------------- MODULE MCLoops -------------------------------
\* All bounds for which FOR counts right, and all bounds.
EXTENDS LoopMachine, Bitwise

MCNames     == {"i", "j"}
MCAddressOf == [i |-> 2, j |-> 3]
MCSignature == [f |-> <<>>]
MCReturns   == [f |-> VOID]

MCAnd(a, b) == a & b
MCOr(a, b)  == a | b
MCXor(a, b) == a ^^ b

\* Bounds on the same side of the largest signed number, and not that number itself:
\* statement_for_post_check compares signed numbers.
SameSide == {b \in Word \X Word : (b[1] < Half <=> b[2] < Half) /\ b[2] # Half - 1}
AllBounds == Word \X Word
=============================================================================
