------------------------------- MODULE MCLexer -------------------------------
\* Pairs of lexemes with blanks or a comment between them, and all short texts of
\* the characters of comments.
EXTENDS Lexer, TLC

Kinds ==
  "BEGIN" :> "KEYWORD_BEGIN" @@ "TO" :> "KEYWORD_TO" @@ "CHAR" :> "TYPE_CHAR" @@
  "TOE" :> "ID" @@ "_a1" :> "ID" @@ "12" :> "INTEGER_LITERAL" @@ "1.5" :> "FLOAT_LITERAL" @@
  "'a'" :> "CHAR_LITERAL" @@ "'''" :> "CHAR_LITERAL" @@ "' '" :> "CHAR_LITERAL" @@
  "\"a b\"" :> "STRINGCONST" @@ ":=" :> "ASSIGN" @@ ":" :> "COLON" @@ "<=" :> "RELOP_INFE" @@
  "*" :> "MULOP_MUL" @@ "," :> "COMMA" @@ "." :> "DOT" @@ "&&" :> "MULOP_AND"

Lexemes == DOMAIN Kinds
Pair(s) == <<Kinds[s], s>>
Separated ==
  {[text |-> a \o blank \o b, tokens |-> <<Pair(a), Pair(b)>>] :
     a, b \in Lexemes, blank \in {" ", "\n", " \t", "(* 1 *)", " (***)\n"}}

\* Arguments of a call: two literals and a comma.  LexemesAreRead does not hold of them.
Arguments ==
  {[text |-> a \o "," \o b, tokens |-> <<Pair(a), Pair(","), Pair(b)>>] : a, b \in {"12", "1.5", "'a'"}}

RECURSIVE TextsOf(_, _)
TextsOf(characters, n) ==
  IF n = 0 THEN {""} ELSE {t \o c : t \in TextsOf(characters, n - 1), c \in characters \cup {""}}
Comments == [text : TextsOf({"(", "*", ")", "&"}, 6), tokens : {<<>>}]

LexemesAndComments == Separated \cup Comments
=============================================================================
