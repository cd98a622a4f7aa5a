---------------------------- MODULE ParserLabels ----------------------------
(***************************************************************************)
(* The labels of the generated code.  A label is a prefix and the tag its  *)
(* construct took from CodeGen::m_label_tag; a construct that contains     *)
(* others keeps its tag in saved_tag while they take theirs.               *)
(***************************************************************************)
EXTENDS ParserProps

VARIABLES
  defined,  \* labels defined by the code generated so far
  targets   \* labels it jumps to

lvars == <<vars, defined, targets>>

Label(prefix, tag) == <<prefix, tag>>

\* The labels a call of CodeGen defines in the code it writes ...
Defines(op) ==
  CASE op.call \in Compares -> {Label("__true", op.n), Label("__next", op.n)}
    [] op.call = "statement_if_post_check"        -> {Label("__true", op.n)}
    [] op.call \in {"statement_if_with_else", "statement_if_without_else"}
                                                  -> {Label("__false", op.n)}
    [] op.call = "statement_while_prepare"        -> {Label("__while", op.n)}
    [] op.call = "statement_for_post_assignment"  -> {Label("__for", op.n)}
    [] op.call \in {"statement_if_finalize", "statement_while_finalize",
                    "statement_for_finalize"}     -> {Label("__next", op.n)}
    [] OTHER                                      -> {}

\* ... and those this code may jump to.
JumpsTo(op) ==
  CASE op.call \in Compares -> {Label("__true", op.n), Label("__next", op.n)}
    [] op.call = "statement_if_post_check"        -> {Label("__false", op.n)}
    [] op.call \in {"statement_if_with_else", "statement_while_post_check",
                    "statement_for_post_check"}   -> {Label("__next", op.n)}
    [] op.call = "statement_while_finalize"       -> {Label("__while", op.n)}
    [] op.call = "statement_for_finalize"         -> {Label("__for", op.n)}
    [] OTHER                                      -> {}

LInit == Init /\ defined = {} /\ targets = {}

Labelled == /\ defined' = defined \cup Defines(emitted')
            /\ targets' = targets \cup JumpsTo(emitted')

LNext == \/ ExpressionStep /\ Labelled
         \/ CallStep /\ Labelled
         \/ StatementStep /\ Labelled
         \/ Stopped /\ UNCHANGED <<defined, targets>>

LSpec == LInit /\ [][LNext]_lvars

(***************************************************************************)
(* The assembler sees every label once: no two constructs, however they    *)
(* are nested or follow each other, use one label (codegen.cpp, ++m_label_tag). *)
(***************************************************************************)
LabelsDefinedOnce == [][Defines(emitted') \cap defined = {}]_lvars

\* The labels the activation f has still to define.
Owes(f) == CASE f.at = "if_then"    -> {Label("__false", f.n)}
             [] f.at \in {"if_end", "while_body", "for_body"} -> {Label("__next", f.n)}
             [] OTHER               -> {}

(***************************************************************************)
(* Every jump has a target: one that is not defined yet is owed by exactly *)
(* the statement that is still being parsed, so that none is left when the *)
(* main block ends (statement_*_finalize).                                 *)
(***************************************************************************)
JumpsResolve ==
  targets \ defined \subseteq UNION {Owes(frames[i]) : i \in 1 .. Len(frames)}

-----------------------------------------------------------------------------
(***************************************************************************)
(* What makes these inductive: a tag belongs to one activation, which      *)
(* knows which of its labels are still to be written.                      *)
(***************************************************************************)

\* The labels of an activation that are still to be defined, and those that are.
Unwritten(f) ==
  CASE f.at = "if_cond" -> {Label("__true", f.n), Label("__false", f.n), Label("__next", f.n)}
    [] f.at = "if_then" -> {Label("__false", f.n), Label("__next", f.n)}
    [] f.at \in Tagged \ {"if_cond", "if_then"} -> {Label("__next", f.n)}
    [] OTHER -> {}

Written(f) ==
  CASE f.at \in {"while_cond", "while_body"} -> {Label("__while", f.n)}
    [] f.at \in {"for_max", "for_body"}      -> {Label("__for", f.n)}
    [] OTHER                                 -> {}

TagsTaken == \A l \in defined : l[2] \in 1 .. m_label_tag

TagsKept ==
  \A i \in 1 .. Len(frames) : frames[i].at \in Tagged =>
    /\ frames[i].n \in 1 .. m_label_tag
    /\ Unwritten(frames[i]) \cap defined = {}
    /\ Written(frames[i]) \subseteq defined

TagsDiffer ==
  \A i, j \in 1 .. Len(frames) :
    frames[i].at \in Tagged /\ frames[j].at \in Tagged /\ frames[i].n = frames[j].n => i = j

\* After an error, nothing is written any more.
LabelInv == /\ JumpsResolve
            /\ status = "parsing" => TagsTaken /\ TagsKept /\ TagsDiffer
=============================================================================
