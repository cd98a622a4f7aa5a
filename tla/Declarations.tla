---------------------------- MODULE Declarations ----------------------------
(***************************************************************************)
(* The declarations of a program: parse_declaration_block and what it      *)
(* calls (compiler.cpp), INCLUDE with its stack of lexers among them.      *)
(*                                                                         *)
(* `pc` is the point a function has reached, after a token was read; a     *)
(* token is its kind and its text, and the text of every file is chosen    *)
(* token by token as in Parser.  parse_include is the only function that   *)
(* is active more than once: what its activations keep is in `lexers`,     *)
(* `files` and `saved`, one entry for each.                                *)
(***************************************************************************)
EXTENDS CeriTypes, Sequences, FiniteSets

CONSTANTS
  Tokens,       \* the tokens of the source texts: [kind, text]
  MaxTokens,    \* bound on the tokens of all files together
  Directories,  \* the working directory and then include_lookup_paths, a sequence
  Exists,       \* the files there are: <<directory, path>>
  MainFile      \* the name of the file on the command line

Token(kind, text) == [kind |-> kind, text |-> text]
FEOF    == Token("FEOF", "")
NoToken == Token("none", "")

TypeToken == [TYPE_INTEGER |-> UNSIGNED_INT, TYPE_DOUBLE |-> DOUBLE,
              TYPE_BOOLEAN |-> BOOL, TYPE_CHAR |-> CHAR]

ASSUME TokensAssumption ==
  /\ \A t \in Tokens : DOMAIN t = {"kind", "text"} /\ t.kind # "FEOF"
  /\ MaxTokens \in Nat

VARIABLES
  pc,          \* where the innermost function is
  token,       \* m_current_token
  lexers,      \* m_lexer, above those that parse_include has put aside: the file a
               \* lexer reads and the last token it returned (YYText)
  remaining,   \* tokens the files may still hold
  files,       \* m_file_name_stack
  saved,       \* old_current_token of each active parse_include
  opened,      \* history: the files INCLUDE opened, and from which
  m_includes,  \* paths included so far
  m_variables, \* names -> Type
  m_typedefs,  \* names -> Type
  m_functions, \* names -> [return_type, parameters]
  m_user_types, m_first_free_type,
  local,       \* of the declaration being parsed: names read (or the path), types of the
               \* parameters, activations of parse_type that wait for the type a pointer
               \* points to, type it returned
  said,        \* the files error() and note() named, in this order
  status       \* "parsing", "main" (the main block follows), "error" (error() was called,
               \* the exception is on its way) or "stopped" (it has left the parser)

text     == <<token, lexers, remaining>>
tables   == <<m_variables, m_typedefs, m_functions>>
types    == <<m_user_types, m_first_free_type>>
includes == <<files, saved, opened, m_includes>>
vars     == <<pc, text, includes, tables, types, local, said, status>>

NoLocals == [names |-> <<>>, parameters |-> <<>>, carets |-> 0, type |-> VOID]

Depth == Len(lexers)
Lexer == lexers[Depth]
LexerOf(path, read) == [path |-> path, last |-> read]
DropLast(s) == SubSeq(s, 1, Len(s) - 1)

\* yylex: after the end of a file, the lexer keeps returning it.
Lexed(lexer) == IF lexer.last = FEOF \/ remaining = 0 THEN {FEOF} ELSE Tokens \cup {FEOF}
Left(t) == IF t = FEOF THEN remaining ELSE remaining - 1

ReadToken ==
  \E t \in Lexed(Lexer) :
    /\ token' = t
    /\ lexers' = [lexers EXCEPT ![Depth].last = t]
    /\ remaining' = Left(t)
KeepToken == UNCHANGED text

At(p)      == status = "parsing" /\ pc = p
Goto(p)    == pc' = p /\ UNCHANGED <<said, status>>
KeepTables == UNCHANGED <<tables, types>>

\* error() names the current file in show_source_context; so do the notes that follow.
Raise == status' = "error" /\ said' = Append(said, files[Len(files)])
Error == Raise /\ KeepTables /\ UNCHANGED <<pc, text, includes, local>>

\* read_token, or not, and on to another point.
Reads(next) == ReadToken /\ Goto(next) /\ KeepTables /\ UNCHANGED includes
Jumps(next) == KeepToken /\ Goto(next) /\ UNCHANGED includes

\* expect_token and then read_token: the token has to be of a kind, and the next is read.
Expect(p, kind, next) ==
  /\ At(p)
  /\ \/ token.kind = kind /\ Reads(next) /\ UNCHANGED local
     \/ token.kind # kind /\ Error

\* The same where the text of the token is kept: a name, or a path.
Named(p, kind, next) ==
  /\ At(p)
  /\ \/ token.kind = kind /\ Reads(next) /\ local' = [local EXCEPT !.names = <<token.text>>]
     \/ token.kind # kind /\ Error

-----------------------------------------------------------------------------
(* parse_declaration_block: each keyword reads the next token.             *)

After == [KEYWORD_VAR |-> "variable_name", KEYWORD_TYPE |-> "alias", KEYWORD_FFI |-> "function_name",
          KEYWORD_INCLUDE |-> "include_path"]

BeginDeclaration ==
  /\ At("declarations")
  /\ token.kind \in DOMAIN After
  /\ Reads(After[token.kind])
  /\ local' = NoLocals

\* The block of the main file ends where its main block begins.
EndDeclarations ==
  /\ At("declarations")
  /\ token.kind \notin DOMAIN After
  /\ Depth = 1
  /\ status' = "main"
  /\ KeepTables /\ UNCHANGED <<pc, text, includes, local, said>>

-----------------------------------------------------------------------------
(* parse_type, with the point to go to with the type.                      *)

ReturnsTo  == [type_of_variables |-> "declare_variables", type_aliased |-> "alias_semicolon",
               type_returned |-> "function_semicolon"]
PointsFrom == [type_of_variables |-> "variable_pointers", type_aliased |-> "alias_pointers",
               type_returned |-> "return_pointers"]

\* (A variant: VOID is a type everywhere.)
AlwaysAllowsVoid(p) == TRUE

\* Only the type a function returns can be VOID, and nothing points to it.
AllowsVoid(p) == p = "type_returned" /\ local.carets = 0

ParsePointerType(p) ==
  /\ At(p)
  /\ token.kind = "EXPONENT"
  /\ Reads(p)
  /\ local' = [local EXCEPT !.carets = @ + 1]

\* The types a token other than '^' can mean: one or none.
TypesMeant(p) ==
  CASE token.kind = "VOID" /\ AllowsVoid(p) -> {VOID}
    [] token.kind \in DOMAIN TypeToken      -> {TypeToken[token.kind]}
    [] token.kind = "ID"                    -> {m_typedefs[n] : n \in DOMAIN m_typedefs \cap {token.text}}
    [] OTHER                                -> {}

ParseType(p) ==
  /\ At(p)
  /\ token.kind # "EXPONENT"
  /\ \/ TypesMeant(p) = {} /\ Error
     \/ \E t \in TypesMeant(p) :
          /\ Reads(IF local.carets = 0 THEN ReturnsTo[p] ELSE PointsFrom[p])
          /\ local' = [local EXCEPT !.type = t]

\* An activation of parse_type that read '^' makes its pointer type and returns it.
ReturnPointerType(p) ==
  /\ At(PointsFrom[p])
  /\ local' = [local EXCEPT !.type = PointerTo(m_user_types, m_first_free_type, local.type),
                            !.carets = @ - 1]
  /\ m_user_types' = TableWith(m_user_types, m_first_free_type, local.type)
  /\ m_first_free_type' = FreeAfter(m_user_types, m_first_free_type, local.type)
  /\ Jumps(IF local.carets = 1 THEN ReturnsTo[p] ELSE pc)
  /\ UNCHANGED tables

ParseAType == \E p \in DOMAIN ReturnsTo : ParsePointerType(p) \/ ParseType(p) \/ ReturnPointerType(p)

-----------------------------------------------------------------------------
(* VAR, TYPE *)

Extended(table, name, entry) ==
  [n \in DOMAIN table \cup {name} |-> IF n = name THEN entry ELSE table[n]]

\* (A variant: a declaration replaces an earlier one.)
EmplaceOverwrites(table, name, entry) ==
  [success |-> TRUE, table |-> Extended(table, name, entry)]

\* unordered_map::emplace does nothing where there is an entry.
Emplace(table, name, entry) ==
  IF name \in DOMAIN table THEN [success |-> FALSE, table |-> table]
  ELSE [success |-> TRUE, table |-> Extended(table, name, entry)]

\* Whatever token there is, it is the name.
VariableName ==
  /\ At("variable_name")
  /\ Reads("variable_list")
  /\ local' = [local EXCEPT !.names = Append(@, token.text)]

VariableList ==
  \/ At("variable_list") /\ token.kind = "COMMA" /\ Reads("variable_name") /\ UNCHANGED local
  \/ token.kind # "COMMA" /\ Expect("variable_list", "COLON", "type_of_variables")

\* One name after the other, the first that is there already is an error.
DeclareVariables ==
  LET emplaced == Emplace(m_variables, local.names[1], local.type)
  IN \/ local.names = <<>> /\ Expect("declare_variables", "SEMICOLON", "more_variables")
     \/ /\ At("declare_variables")
        /\ local.names # <<>>
        /\ \/ ~emplaced.success /\ Error
           \/ /\ emplaced.success
              /\ m_variables' = emplaced.table
              /\ local' = [local EXCEPT !.names = Tail(@)]
              /\ Jumps(pc) /\ UNCHANGED <<m_typedefs, m_functions, types>>

MoreVariables ==
  /\ At("more_variables")
  /\ Jumps(IF token.kind = "ID" THEN "variable_name" ELSE "declarations")
  /\ KeepTables /\ UNCHANGED local

DefineType ==
  LET emplaced == Emplace(m_typedefs, local.names[1], local.type)
  IN /\ At("alias_define")
     /\ \/ ~emplaced.success /\ Error
        \/ /\ emplaced.success
           /\ m_typedefs' = emplaced.table
           /\ Jumps("declarations") /\ UNCHANGED <<m_variables, m_functions, types, local>>

DeclareVariable == VariableName \/ VariableList \/ DeclareVariables \/ MoreVariables

TypeDefinition ==
  \/ Named("alias", "ID", "alias_equal")
  \/ Expect("alias_equal", "EQUAL", "type_aliased")
  \/ Expect("alias_semicolon", "SEMICOLON", "alias_define")
  \/ DefineType

-----------------------------------------------------------------------------
(* FFI *)

BeginParameters ==
  /\ At("parameters")
  /\ Jumps(IF token.kind = "RPARENT" THEN "end_parameters" ELSE "parameter")
  /\ KeepTables /\ UNCHANGED local

\* A parameter that does not begin with a type keyword is passed over.
Parameter ==
  /\ At("parameter")
  /\ \/ /\ token.kind \in DOMAIN TypeToken
        /\ Reads("next_parameter")
        /\ local' = [local EXCEPT !.parameters = Append(@, TypeToken[token.kind])]
     \/ /\ token.kind \notin DOMAIN TypeToken
        /\ Jumps("next_parameter")
        /\ KeepTables /\ UNCHANGED local

\* (A variant: the list goes on up to its parenthesis.)
NextParameterUntilParenthesis ==
  /\ At("next_parameter")
  /\ Jumps(IF token.kind = "RPARENT" THEN "end_parameters" ELSE "parameter")
  /\ KeepTables /\ UNCHANGED local

NextParameter ==
  \/ At("next_parameter") /\ token.kind = "COMMA" /\ Reads("parameter") /\ UNCHANGED local
  \/ token.kind # "COMMA" /\ Expect("next_parameter", "RPARENT", "function_colon")

DeclareFunction ==
  LET function == [return_type |-> local.type, parameters |-> local.parameters]
      emplaced == Emplace(m_functions, local.names[1], function)
  IN /\ At("function_define")
     /\ \/ ~emplaced.success /\ Error
        \/ /\ emplaced.success
           /\ m_functions' = emplaced.table
           /\ Jumps("declarations") /\ UNCHANGED <<m_variables, m_typedefs, types, local>>

ForeignFunction ==
  \/ Named("function_name", "ID", "function_lparent")
  \/ Expect("function_lparent", "LPARENT", "parameters")
  \/ BeginParameters \/ Parameter \/ NextParameter
  \/ Expect("end_parameters", "RPARENT", "function_colon")
  \/ Expect("function_colon", "COLON", "type_returned")
  \/ Expect("function_semicolon", "SEMICOLON", "function_define")
  \/ DeclareFunction

-----------------------------------------------------------------------------
(* INCLUDE *)

Path == local.names[1]
IsFound(path) == \E i \in DOMAIN Directories : <<Directories[i], path>> \in Exists

\* (A variant: no path is entered in m_includes.)
NeverEntered(path) == m_includes

Entered(path) == m_includes \cup {path}

\* The lexer of a file that was found, above that of the including file, to whose token
\* after the ';' parse_include comes back.
BeginFile(path) ==
  /\ files' = Append(files, path)
  /\ saved' = Append(saved, token)
  /\ opened' = Append(opened, [path |-> path, by |-> files[Depth]])
  /\ \E t \in Lexed(LexerOf(path, NoToken)) :
       token' = t /\ lexers' = Append(lexers, LexerOf(path, t)) /\ remaining' = Left(t)
  /\ Goto("declarations")

OpenInclude ==
  /\ At("include_open")
  /\ m_includes' = Entered(Path)
  /\ IF Path \notin m_includes /\ IsFound(Path) THEN BeginFile(Path)
     ELSE /\ IF Path \in m_includes THEN Goto("declarations") ELSE Raise /\ UNCHANGED pc
          /\ KeepToken /\ UNCHANGED <<files, saved, opened>>
  /\ KeepTables /\ UNCHANGED local

\* (A variant: the current token stays that of the included file.)
RestoreLexerOnly ==
  /\ files' = DropLast(files) /\ lexers' = DropLast(lexers) /\ saved' = DropLast(saved)
  /\ UNCHANGED <<token, remaining, opened, m_includes>>

\* restore_state
RestoreState ==
  /\ files' = DropLast(files) /\ lexers' = DropLast(lexers) /\ saved' = DropLast(saved)
  /\ token' = saved[Len(saved)]
  /\ UNCHANGED <<remaining, opened, m_includes>>

EndInclude ==
  /\ At("declarations")
  /\ token.kind \notin DOMAIN After
  /\ Depth > 1
  /\ \/ token # FEOF /\ Error
     \/ token = FEOF /\ RestoreState /\ Goto("declarations") /\ KeepTables /\ UNCHANGED local

\* (A variant: the note is made before the state is restored.)
NoteThenRestore == RestoreState /\ said' = Append(said, files[Len(files)])

\* The handler of parse_include: the includer is named, and the exception goes on.
RestoreThenNote == RestoreState /\ said' = Append(said, files[Len(files) - 1])

Unwind ==
  /\ status = "error"
  /\ \/ Depth = 1 /\ status' = "stopped" /\ UNCHANGED <<text, includes, said>>
     \/ Depth > 1 /\ RestoreThenNote /\ UNCHANGED status
  /\ KeepTables /\ UNCHANGED <<pc, local>>

Include ==
  \/ Named("include_path", "STRINGCONST", "include_semicolon")
  \/ Expect("include_semicolon", "SEMICOLON", "include_open")
  \/ OpenInclude \/ EndInclude \/ Unwind

-----------------------------------------------------------------------------
\* Compiler::operator(): the first token is read before the declarations.
Init ==
  /\ pc = "declarations"
  /\ token \in Tokens \cup {FEOF}
  /\ lexers = <<LexerOf(MainFile, token)>>
  /\ remaining = MaxTokens
  /\ files = <<MainFile>> /\ saved = <<>> /\ opened = <<>> /\ m_includes = {}
  /\ m_variables = <<>> /\ m_typedefs = <<>> /\ m_functions = <<>>
  /\ m_user_types = <<>> /\ m_first_free_type = FIRST_USER_DEFINED
  /\ local = NoLocals
  /\ said = <<>>
  /\ status = "parsing"

Stopped == status \in {"main", "stopped"} /\ UNCHANGED vars

Next ==
  \/ BeginDeclaration \/ EndDeclarations \/ ParseAType
  \/ DeclareVariable \/ TypeDefinition \/ ForeignFunction \/ Include \/ Stopped

Spec     == Init /\ [][Next]_vars
FairSpec == Spec /\ WF_vars(Next)
=============================================================================
