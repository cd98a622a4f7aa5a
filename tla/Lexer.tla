-------------------------------- MODULE Lexer --------------------------------
(***************************************************************************)
(* The lexer (tokeniser.l): at each position the longest text that some    *)
(* rule matches, by the first of the rules that match it.  Texts are       *)
(* strings here: which characters follow each other is what matters.       *)
(***************************************************************************)
EXTENDS Integers, Sequences

CONSTANT Inputs  \* texts, with the tokens expected of them, <<>> for any: [text, tokens]

\* The lengths of texts, of which the provers know nothing.
ASSUME TextsAssumption ==
  /\ Len("(*") = 2
  /\ \A i \in Inputs : /\ Len(i.text) \in Nat
                       /\ \A a \in 1 .. Len(i.text) : \A n \in 1 .. Len(i.text) - a + 1 :
                            Len(SubSeq(i.text, a, a + n - 1)) = n

VARIABLES
  input,    \* the text of a file, with what is expected of it
  pos,      \* the character yylex reads next
  start,    \* where the comment being skipped began, 0 outside of comments
  tokens,   \* history: the tokens returned
  echoed    \* characters that no rule matches: they go to the output of the lexer

vars == <<input, pos, start, tokens, echoed>>

Character(text, i) == SubSeq(text, i, i)
Characters(text)   == {Character(text, i) : i \in 1 .. Len(text)}
FirstOf(text)      == Character(text, 1)
LastOf(text)       == Character(text, Len(text))
Inner(text)        == SubSeq(text, 2, Len(text) - 1)

Digit  == Characters("0123456789")
Alpha  == Characters("abcdefghijklmnopqrstuvwxyzABCDEFGHIJKLMNOPQRSTUVWXYZ")
IdChar == Alpha \cup {"_"}
Blank  == {" ", "\t", "\n", "\r"}
Quote  == "\""

\* What no text of the rule UNKNOWN contains.
Known == Alpha \cup Digit \cup Blank \cup Characters("^()<>=!%&|}-;.@") \cup {Quote}

(***************************************************************************)
(* The rules with fixed texts: keywords and types, then operators.         *)
(***************************************************************************)
Fixed == [
  KEYWORD_BEGIN |-> {"BEGIN"}, KEYWORD_END |-> {"END"}, KEYWORD_WHILE |-> {"WHILE"},
  KEYWORD_FOR |-> {"FOR"}, KEYWORD_TO |-> {"TO"}, KEYWORD_DO |-> {"DO"}, KEYWORD_IF |-> {"IF"},
  KEYWORD_THEN |-> {"THEN"}, KEYWORD_ELSE |-> {"ELSE"}, KEYWORD_DISPLAY |-> {"DISPLAY"},
  KEYWORD_VAR |-> {"VAR"}, KEYWORD_TYPE |-> {"TYPE"}, KEYWORD_CONVERT |-> {"CONVERT"},
  KEYWORD_FFI |-> {"FFI"}, KEYWORD_INCLUDE |-> {"INCLUDE"}, TYPE_INTEGER |-> {"INTEGER"},
  TYPE_DOUBLE |-> {"DOUBLE"}, TYPE_BOOLEAN |-> {"BOOLEAN"}, TYPE_CHAR |-> {"CHAR"},
  VOID |-> {"VOID"},
  \* operators
  ADDOP_ADD |-> {"+"}, ADDOP_SUB |-> {"-"}, ADDOP_OR |-> {"||"}, MULOP_MUL |-> {"*"},
  MULOP_DIV |-> {"/"}, MULOP_MOD |-> {"%"}, MULOP_AND |-> {"&&"}, RELOP_INF |-> {"<"},
  RELOP_INFE |-> {"<="}, RELOP_EQU |-> {"=="}, RELOP_SUP |-> {">"}, RELOP_SUPE |-> {">="},
  RELOP_DIFF |-> {"!=", "<>"}, RBRACKET |-> {"["}, LBRACKET |-> {"]"}, COMMA |-> {","},
  COLON |-> {":"}, SEMICOLON |-> {";"}, DOT |-> {"."}, ASSIGN |-> {":="}, EQUAL |-> {"="},
  LPARENT |-> {"("}, RPARENT |-> {")"}, NOT |-> {"!"}, EXPONENT |-> {"^"}, AT |-> {"@"},
  comment |-> {"(*"}]

IsInteger(text) == text # "" /\ Characters(text) \subseteq Digit
IsFloat(text)   == \E i \in 2 .. Len(text) - 1 :
                     /\ Character(text, i) = "."
                     /\ IsInteger(SubSeq(text, 1, i - 1)) /\ IsInteger(SubSeq(text, i + 1, Len(text)))
IsChar(text)    == Len(text) = 3 /\ FirstOf(text) = "'" /\ LastOf(text) = "'"
                   /\ Inner(text) \notin {"\n", "\r", "\t"}
IsString(text)  == Len(text) > 2 /\ FirstOf(text) = Quote /\ LastOf(text) = Quote
                   /\ Characters(Inner(text)) \cap {Quote, "\n"} = {}
IsName(text)    == FirstOf(text) \in IdChar /\ Characters(text) \subseteq IdChar \cup Digit

IsFixed(text)   == \E kind \in DOMAIN Fixed : text \in Fixed[kind]
FixedRule(text) == CHOOSE kind \in DOMAIN Fixed : text \in Fixed[kind]

\* The kind of a text that is not fixed: no two of these rules match the same one, and
\* UNKNOWN is the last rule.
PatternOf(text) ==
  CASE IsChar(text)                     -> "CHAR_LITERAL"
    [] IsFloat(text)                    -> "FLOAT_LITERAL"
    [] IsInteger(text)                  -> "INTEGER_LITERAL"
    [] IsName(text)                     -> "ID"
    [] IsString(text)                   -> "STRINGCONST"
    [] Characters(text) \subseteq Blank -> "blank"
    [] OTHER -> IF Characters(text) \cap Known = {} THEN "UNKNOWN" ELSE "none"

\* (A variant: the rule for identifiers is before those for keywords.)
RuleNamesFirst(text) ==
  IF IsFixed(text) /\ ~IsName(text) THEN FixedRule(text) ELSE PatternOf(text)

\* The first rule that matches a text.
RuleFor(text) ==
  IF IsFixed(text) THEN FixedRule(text) ELSE PatternOf(text)

-----------------------------------------------------------------------------
Text == input.text
From(n) == SubSeq(Text, pos, pos + n - 1)
Matching == {n \in 1 .. Len(Text) - pos + 1 : RuleFor(From(n)) # "none"}

Lexing == start = 0 /\ pos <= Len(Text)

\* (A variant: the character after a '*' is not put back.)
SkipCharacterAfterStar ==
  pos' = IF Character(Text, pos) = "*" THEN pos + 2 ELSE pos + 1

\* The character after a '*' is put back unless it ends the comment.
SkipCharacter == pos' = pos + 1

Ends == Character(Text, pos) = "*" /\ Character(Text, pos + 1) = ")"

SkipComment ==
  /\ start # 0 /\ pos <= Len(Text)
  /\ \/ pos < Len(Text) /\ Ends /\ pos' = pos + 2 /\ start' = 0
     \/ ~(pos < Len(Text) /\ Ends) /\ SkipCharacter /\ UNCHANGED start
  /\ UNCHANGED <<input, tokens, echoed>>

\* (A variant: the end of the file is not the end of a comment.)
EndInCommentNever == start # 0 /\ pos > Len(Text) /\ UNCHANGED vars

\* yyinput() returns 0 at the end of the file, which ends a comment too.
EndInComment ==
  /\ start # 0 /\ pos > Len(Text)
  /\ start' = 0
  /\ UNCHANGED <<input, pos, tokens, echoed>>

\* The longest text that has a rule.
Match ==
  /\ Lexing
  /\ \E n \in Matching :
       LET kind == RuleFor(From(n))
       IN /\ \A m \in Matching : m <= n
          /\ pos' = pos + n
          /\ start' = IF kind = "comment" THEN pos ELSE 0
          /\ tokens' = IF kind \in {"blank", "comment"} THEN tokens ELSE Append(tokens, <<kind, From(n)>>)
  /\ UNCHANGED <<input, echoed>>

\* The default rule of flex writes the character to the output, that of the assembly.
Echo ==
  /\ Lexing
  /\ Matching = {}
  /\ pos' = pos + 1
  /\ echoed' = Append(echoed, Character(Text, pos))
  /\ UNCHANGED <<input, start, tokens>>

EndOfFile == start = 0 /\ pos > Len(Text)
AtEnd     == EndOfFile /\ UNCHANGED vars

Init ==
  /\ input \in Inputs
  /\ pos = 1 /\ start = 0
  /\ tokens = <<>> /\ echoed = <<>>

Next == SkipComment \/ EndInComment \/ Match \/ Echo \/ AtEnd

Spec     == Init /\ [][Next]_vars
FairSpec == Spec /\ WF_vars(Next)

-----------------------------------------------------------------------------
(***************************************************************************)
(* The lexer returns the lexemes a text is made of (where they are given), *)
(* each with its own kind, and nothing of the text reaches the assembly.   *)
(***************************************************************************)
LexemesAreRead ==
  EndOfFile /\ input.tokens # <<>> => tokens = input.tokens /\ echoed = <<>>

(***************************************************************************)
(* A comment ends at the first star and parenthesis after its opening,     *)
(* however many stars precede them, and without them goes on to the end of *)
(* the file.                                                               *)
(***************************************************************************)
Closes(i) == i \in 1 .. Len(Text) - 1 /\ Character(Text, i) = "*" /\ Character(Text, i + 1) = ")"
CommentsEndAtFirstClose ==
  [][start # 0 /\ start' = 0 =>
       /\ \A i \in start + 2 .. pos' - 3 : ~Closes(i)
       /\ Closes(pos' - 2) \/ pos' > Len(Text)]_vars

(***************************************************************************)
(* Every text is read to its end.                                          *)
(***************************************************************************)
ReachesTheEnd == <>EndOfFile
=============================================================================
