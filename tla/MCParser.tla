------------------------------ MODULE MCParser ------------------------------
(***************************************************************************)
(* Small programs for TLC.  The declarations are those of                  *)
(*                                                                         *)
(*   TYPE T = ^INTEGER;                                                    *)
(*   VAR x : INTEGER; d : DOUBLE; b : BOOLEAN; c : CHAR; p : T; q : ^T;    *)
(*   FFI f(INTEGER, INTEGER) : INTEGER;  FFI m(DOUBLE, INTEGER) : DOUBLE;  *)
(*   FFI v() : VOID;  FFI k(INTEGER, INTEGER, INTEGER) : BOOLEAN;          *)
(*   FFI n() : INTEGER;  FFI r() : T;                                      *)
(*                                                                         *)
(* With two registers of each kind (for six and eight), the third argument *)
(* of k already runs out of registers.  The texts of a run are of several  *)
(* profiles: the tokens they are made of, and a bound on their number.     *)
(***************************************************************************)
EXTENDS ParserLabels, ArgumentRegisters, TLC

CONSTANT Profiles

VARIABLE profile   \* that of the source text of this behaviour

MCNames    == {"x", "d", "b", "c", "p", "q", "T", "f", "m", "v", "k", "n", "r"}
MCDeclaredTypes == 8 :> UNSIGNED_INT @@ 9 :> 8
MCVarType  == [x |-> UNSIGNED_INT, d |-> DOUBLE, b |-> BOOL, c |-> CHAR, p |-> 8, q |-> 9]
MCTypedefs == [T |-> 8]
MCFunParams == [f |-> <<UNSIGNED_INT, UNSIGNED_INT>>, m |-> <<DOUBLE, UNSIGNED_INT>>, v |-> <<>>,
                k |-> <<UNSIGNED_INT, UNSIGNED_INT, UNSIGNED_INT>>, n |-> <<>>, r |-> <<>>]
MCFunReturn == [f |-> UNSIGNED_INT, m |-> DOUBLE, v |-> VOID, k |-> BOOL,
                n |-> UNSIGNED_INT, r |-> 8]

Block == {"KEYWORD_BEGIN", "KEYWORD_END", "DOT"}

\* Operators, precedence and the types of their operands.
ExpressionTokens == Block \cup
  {"KEYWORD_DISPLAY", "LPARENT", "RPARENT", "NOT", "INTEGER_LITERAL",
   "MULOP_MUL", "ADDOP_OR", "RELOP_INF"}

\* Foreign calls: as operands, as statements, nested, with too few or too many arguments ...
CallTokens == Block \cup
  {"SEMICOLON", "LPARENT", "RPARENT", "COMMA", "NOT", "INTEGER_LITERAL", "f", "n"}

\* ... with more arguments than registers, and with results of other types.
ResultTokens == Block \cup
  {"SEMICOLON", "LPARENT", "RPARENT", "COMMA", "INTEGER_LITERAL", "k", "r"}

\* Pointers, conversions and the types a program may write in a conversion.
PointerTokens == Block \cup
  {"EXPONENT", "AT", "x", "q", "ASSIGN", "KEYWORD_CONVERT", "KEYWORD_TO", "T",
   "KEYWORD_FOR", "KEYWORD_DO"}

\* Conversions between the concrete types.
ConvertTokens == Block \cup
  {"KEYWORD_DISPLAY", "KEYWORD_CONVERT", "KEYWORD_TO", "TYPE_INTEGER", "TYPE_DOUBLE",
   "TYPE_BOOLEAN", "TYPE_CHAR", "INTEGER_LITERAL", "FLOAT_LITERAL", "CHAR_LITERAL"}

\* Statements and their nesting.
StatementTokens == Block \cup
  {"SEMICOLON", "KEYWORD_IF", "KEYWORD_THEN", "KEYWORD_ELSE", "KEYWORD_WHILE",
   "KEYWORD_DO", "b", "v", "LPARENT", "RPARENT"}

\* Tokens of every kind, one operator for each way its operands are checked.
MixedTokens ==
  (TokenKinds \ {"MULOP_DIV", "ADDOP_SUB", "RELOP_DIFF", "RELOP_SUP", "RELOP_INFE", "RELOP_SUPE"})
  \cup {"x", "d", "q", "T", "f", "v"}

\* Calls with parameters of both classes of registers.
ArgumentTokens == Block \cup
  {"SEMICOLON", "LPARENT", "RPARENT", "COMMA", "FLOAT_LITERAL", "m", "n"}

\* Jumps: conditions and loops, nested and in sequence.
LabelTokens == Block \cup
  {"SEMICOLON", "KEYWORD_IF", "KEYWORD_THEN", "KEYWORD_ELSE", "KEYWORD_WHILE", "KEYWORD_FOR",
   "KEYWORD_TO", "KEYWORD_DO", "ASSIGN", "b", "x", "RELOP_EQU"}

Profile(tokens, length) == [tokens |-> tokens, length |-> length]

ProgramProfiles ==
  {Profile(ExpressionTokens, 9), Profile(CallTokens, 10), Profile(ResultTokens, 10),
   Profile(PointerTokens, 10), Profile(ArgumentTokens, 12), Profile(LabelTokens, 12)}
TextProfiles       == {Profile(StatementTokens, 9), Profile(MixedTokens, 5)}
CallProfiles       == {Profile(CallTokens, 12)}
ConversionProfiles == {Profile(ConvertTokens, 7)}

AllTokens == UNION {p.tokens : p \in Profiles}
Longest   == CHOOSE n \in {p.length : p \in Profiles} : \A p \in Profiles : p.length <= n

(***************************************************************************)
(* The specification, on the texts of the profiles only: a text of a       *)
(* profile ends after `length` tokens, when remaining is still             *)
(* Longest - length.  FEOF may always be read, so no step is disabled.     *)
(***************************************************************************)
Fits == /\ tok \in profile.tokens \cup {FEOF}
        /\ remaining \notin 1 .. Longest - profile.length - 1

MCInit == LInit /\ profile \in Profiles /\ Fits
InProfile == UNCHANGED profile /\ Fits'
MCNext == \/ ExpressionStep /\ Labelled /\ InProfile
          \/ CallStep /\ Labelled /\ InProfile
          \/ StatementStep /\ Labelled /\ InProfile
          \/ Stopped /\ UNCHANGED <<defined, targets, profile>>
mcvars == <<lvars, profile>>

MCSpec     == MCInit /\ [][MCNext]_mcvars
MCFairSpec == MCSpec /\ WF_mcvars(MCNext)
=============================================================================
