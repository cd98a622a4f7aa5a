--------------------------- MODULE MCDeclarations ---------------------------
\* Tokens for declarations of two names, and for files that include each other.
EXTENDS DeclarationProps

CONSTANT Profiles

VARIABLE profile   \* that of the texts of this behaviour

Id(name) == Token("ID", name)
Plain(kinds) == {Token(k, k) : k \in kinds}

TypeTokens == {Id("a"), Id("b")} \cup
  Plain({"KEYWORD_TYPE", "SEMICOLON", "EQUAL", "EXPONENT", "TYPE_INTEGER", "VOID"})
VariableTokens == {Id("a")} \cup
  Plain({"KEYWORD_VAR", "COMMA", "COLON", "SEMICOLON", "EXPONENT", "TYPE_INTEGER", "VOID"})
ForeignTokens == {Id("a")} \cup
  Plain({"KEYWORD_FFI", "LPARENT", "RPARENT", "COMMA", "COLON", "SEMICOLON", "TYPE_INTEGER",
         "TYPE_DOUBLE", "VOID", "EXPONENT"})
IncludeTokens == {Token("STRINGCONST", p) : p \in {"main", "one", "two", "none"}} \cup
  Plain({"KEYWORD_INCLUDE", "SEMICOLON"})
MixedTokens == {Id("a"), Token("STRINGCONST", "one")} \cup
  Plain({"KEYWORD_VAR", "KEYWORD_TYPE", "KEYWORD_INCLUDE", "COLON", "SEMICOLON", "EQUAL", "TYPE_INTEGER", "TYPE_CHAR"})

Profile(tokens, length) == [tokens |-> tokens, length |-> length]

DeclarationProfiles ==
  {Profile(TypeTokens, 13), Profile(VariableTokens, 7), Profile(ForeignTokens, 11),
   Profile(IncludeTokens, 13), Profile(MixedTokens, 10)}

AllTokens == UNION {p.tokens : p \in Profiles}
Longest   == CHOOSE n \in {p.length : p \in Profiles} : \A p \in Profiles : p.length <= n

MCDirectories == <<".", "std">>
MCExists == {<<".", "main">>, <<".", "one">>, <<"std", "two">>}

(***************************************************************************)
(* The specification, on the texts of the profiles only: each has length   *)
(* tokens after the first.  FEOF may always be read.                       *)
(***************************************************************************)
Fits == /\ token \in profile.tokens \cup {FEOF, NoToken}
        /\ remaining >= Longest - profile.length

MCInit == Init /\ profile \in Profiles /\ Fits
InProfile == UNCHANGED profile /\ Fits'
MCNext ==
  \/ BeginDeclaration /\ InProfile
  \/ EndDeclarations /\ InProfile
  \/ ParseAType /\ InProfile
  \/ DeclareVariable /\ InProfile
  \/ TypeDefinition /\ InProfile
  \/ ForeignFunction /\ InProfile
  \/ Include /\ InProfile
  \/ Stopped /\ InProfile
mcvars == <<vars, profile>>

MCFairSpec == MCInit /\ [][MCNext]_mcvars /\ WF_mcvars(MCNext)
=============================================================================
