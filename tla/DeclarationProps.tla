-------------------------- MODULE DeclarationProps --------------------------
(***************************************************************************)
(* What the declarations of a program have to leave behind, and what       *)
(* INCLUDE has to keep together.                                           *)
(***************************************************************************)
EXTENDS Declarations

KnownTypes == Concrete \cup DOMAIN m_user_types

\* The points at which the type parse_type returned is used.
TypeAwaited == {"declare_variables", "alias_semicolon", "alias_define"}
ReturnAwaited == {"function_semicolon", "function_define"}
PointerPoints == {PointsFrom[p] : p \in DOMAIN PointsFrom}

(***************************************************************************)
(* The variables hold values of their types; parse_type returns a type     *)
(* that exists, VOID only for a function.                                  *)
(***************************************************************************)
TypeOK ==
  /\ local.carets \in Nat
  /\ local.parameters \in Seq(Concrete)
  /\ status = "parsing" /\ pc \in TypeAwaited \cup PointerPoints => local.type \in KnownTypes
  /\ status = "parsing" /\ pc \in ReturnAwaited => local.type \in KnownTypes \cup {VOID}
  /\ status = "parsing" /\ pc \in PointerPoints => local.carets > 0

(***************************************************************************)
(* What Parser assumes of the declarations: variables and type names have  *)
(* types that exist, no variable is VOID, foreign functions take values of *)
(* concrete types, and a pointer type has one id whatever the declarations *)
(* that mention it.                                                        *)
(***************************************************************************)
TablesAreWellFormed ==
  /\ PointerTableOK(m_user_types, m_first_free_type)
  /\ \A v \in DOMAIN m_variables : m_variables[v] \in KnownTypes
  /\ \A t \in DOMAIN m_typedefs : m_typedefs[t] \in KnownTypes
  /\ \A f \in DOMAIN m_functions :
       /\ m_functions[f].return_type \in KnownTypes \cup {VOID}
       /\ m_functions[f].parameters \in Seq(Concrete)

(***************************************************************************)
(* A name keeps its meaning: no later declaration, in no included file,    *)
(* changes or removes an entry of a symbol table or a pointer type.        *)
(***************************************************************************)
Extends(later, table) ==
  /\ DOMAIN table \subseteq DOMAIN later
  /\ \A n \in DOMAIN table : later[n] = table[n]
DeclarationsAreFinal ==
  [][/\ Extends(m_variables', m_variables) /\ Extends(m_typedefs', m_typedefs)
     /\ Extends(m_functions', m_functions) /\ Extends(m_user_types', m_user_types)]_vars

(***************************************************************************)
(* The lexer, the current token and the file named in messages change      *)
(* together: the token is the one whose text token_text() yields, and the  *)
(* file the one the lexer reads.                                           *)
(***************************************************************************)
StateBelongsToLexer ==
  /\ token = Lexer.last
  /\ Len(files) = Depth /\ Len(saved) = Depth - 1
  /\ \A i \in 1 .. Depth : files[i] = lexers[i].path
  /\ \A i \in 1 .. Depth - 1 : saved[i] = lexers[i].last

(***************************************************************************)
(* A path is read once, so files that include each other or themselves end.*)
(***************************************************************************)
PathsAreReadOnce == \A i, j \in DOMAIN opened : opened[i].path = opened[j].path => i = j

(***************************************************************************)
(* The messages of an error name the file it is in and each file that      *)
(* includes it, from the innermost to the main file.                       *)
(***************************************************************************)
IncludersAreNamed ==
  status = "stopped" =>
    /\ said[Len(said)] = MainFile
    /\ \A i \in 1 .. Len(said) - 1 :
         \E j \in DOMAIN opened : opened[j] = [path |-> said[i], by |-> said[i + 1]]

(***************************************************************************)
(* The declarations of every set of files end, in an error or at the main  *)
(* block.                                                                  *)
(***************************************************************************)
Terminates == <>(status \in {"main", "stopped"})
=============================================================================
