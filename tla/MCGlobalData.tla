---------------------------- MODULE MCGlobalData ----------------------------
\* Two variables of a word of two bytes, and two of one byte.
EXTENDS GlobalData

MixedVariables == [x |-> UNSIGNED_INT, p |-> FIRST_USER_DEFINED + 1, b |-> BOOL, c |-> CHAR]
=============================================================================
