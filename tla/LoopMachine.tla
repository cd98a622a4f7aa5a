----------------------------- MODULE LoopMachine -----------------------------
(***************************************************************************)
(* Whole programs with FOR, WHILE and IF on the processor: the calls the   *)
(* parser makes for them, in its order (parse_for_statement and the like), *)
(* and the code these write.                                               *)
(***************************************************************************)
EXTENDS X86, SequencesExt, FiniteSetsExt

CONSTANTS
  Counter, Inner,  \* two INTEGER variables
  Kinds,           \* the programs to run
  Bounds           \* pairs: lower and upper bound of the loop

ASSUME LoopsAssumption ==
  /\ Counter \in DOMAIN AddressOf /\ Inner \in DOMAIN AddressOf /\ Counter # Inner
  /\ Bounds \subseteq Word \X Word
  /\ StackBase >= 4

VARIABLES
  program,  \* [kind, from, to]
  shown     \* history: the values displayed

loop_vars == <<machine, program, shown>>

\* The code of the calls the parser makes, in its order.
Integer(value)     == Code([OpOf("load_i64", UNSIGNED_INT) EXCEPT !.n = value])
Load(v)            == Code(OpNamed("load_variable", UNSIGNED_INT, v))
Store(v)           == Code(OpNamed("store_variable", UNSIGNED_INT, v))
Show(v)            == Load(v) \o Code(OpOf("debug_display", UNSIGNED_INT))
Increment(v)       == Load(v) \o Integer(1) \o Code(OpOf("alu_add", UNSIGNED_INT)) \o Store(v)
Comparison(c, tag) == Code([OpOf(c, UNSIGNED_INT) EXCEPT !.n = tag])
Mark(call, tag)    == Code(OpTag(call, tag))
ForMark(call, v, tag) == Code([OpTag(call, tag) EXCEPT !.name = v])

\* (A variant: the bound is computed once, before the label.)
ForBoundOnce(v, from, to, body, tag) ==
  from \o Store(v) \o to \o Mark("statement_for_post_assignment", tag)
  \o ForMark("statement_for_post_check", v, tag)
  \o body \o ForMark("statement_for_finalize", v, tag)

\* parse_for_statement: the bound is computed before every iteration.
For(v, from, to, body, tag) ==
  from \o Store(v) \o Mark("statement_for_post_assignment", tag)
  \o to \o ForMark("statement_for_post_check", v, tag)
  \o body \o ForMark("statement_for_finalize", v, tag)

\* parse_while_statement
While(condition, body, tag) ==
  Mark("statement_while_prepare", tag) \o condition \o Mark("statement_while_post_check", tag)
  \o body \o Mark("statement_while_finalize", tag)

\* parse_if_statement
If(condition, then, else, tag) ==
  condition \o Mark("statement_if_post_check", tag) \o then
  \o (IF else = <<>> THEN Mark("statement_if_without_else", tag)
      ELSE Mark("statement_if_with_else", tag) \o else)
  \o Mark("statement_if_finalize", tag)

\* FOR v := from TO to DO DISPLAY v, and the same with WHILE.
StatementsOf(p) ==
  LET from == Integer(p.from)
      to   == Integer(p.to)
      upTo(v, tag) == Load(v) \o to \o Comparison("alu_lower_equal", tag)
  IN CASE p.kind = "for"    -> For(Counter, from, to, Show(Counter), 1)
       [] p.kind = "while"  -> from \o Store(Counter)
                               \o While(upTo(Counter, 2), Show(Counter) \o Increment(Counter), 1)
       [] p.kind = "nested" -> For(Counter, from, to, For(Inner, Load(Counter), to, Show(Inner), 2), 1)
       \* the values but the last; the last one as the value of the other variable
       [] p.kind = "if"     -> For(Counter, from, to,
                                 If(Load(Counter) \o to \o Comparison("alu_not_equal", 3),
                                    Show(Counter), Show(Inner), 2)
                                 \o If(Load(Counter) \o to \o Comparison("alu_equal", 5), Show(Inner), <<>>, 4), 1)

CodeOf(p) == BeginMain \o StatementsOf(p) \o FinalizeMain

-----------------------------------------------------------------------------
(* What the source means. *)

UpTo(from, to) == [i \in 1 .. (IF from > to THEN 0 ELSE to - from + 1) |-> from + i - 1]

Meant(p) ==
  LET range == UpTo(p.from, p.to)
  IN CASE p.kind \in {"for", "while"} -> range
       [] p.kind = "nested" -> FlattenSeq([i \in DOMAIN range |-> UpTo(range[i], p.to)])
       [] p.kind = "if"     -> FlattenSeq([i \in DOMAIN range |-> IF range[i] = p.to THEN <<0, 0>> ELSE <<range[i]>>])

-----------------------------------------------------------------------------
Init ==
  /\ program \in [kind : Kinds, from : {b[1] : b \in Bounds}, to : {b[2] : b \in Bounds}]
  /\ <<program.from, program.to>> \in Bounds
  /\ program.kind = "while" => program.to # AllOnes  \* no counter is above that
  /\ shown = <<>>
  /\ Entered(CodeOf(program))

Run ==
  /\ Execute
  /\ shown' = IF Runs({"call"}) THEN Append(shown, heard'.args[2]) ELSE shown
  /\ UNCHANGED program

Stopped == running # "running" /\ UNCHANGED loop_vars

Next == Run \/ Stopped

Spec     == Init /\ [][Next]_loop_vars
FairSpec == Spec /\ WF_loop_vars(Next)

-----------------------------------------------------------------------------
(***************************************************************************)
(* A loop runs its body for each value from the first bound up to and      *)
(* including the second, in order and once, and a program that ends has    *)
(* done all of it.                                                         *)
(***************************************************************************)
LoopsVisitTheirRange ==
  /\ IsPrefix(shown, Meant(program))
  /\ running = "returned" => shown = Meant(program)

(***************************************************************************)
(* The programs end: no loop goes on after its last value.                 *)
(***************************************************************************)
ProgramsEnd == <>(running # "running")

(***************************************************************************)
(* Each iteration of a loop leaves the stack as it found it: at the label  *)
(* a loop goes back to, there is nothing on it.  The bodies display values *)
(* or contain loops; a call whose result is ignored would leave it there   *)
(* in each iteration.                                                      *)
(***************************************************************************)
IterationsKeepTheStack ==
  Runs({"label"}) /\ Current.src \in {"__for", "__while"} => mem = <<ReturnAddress>>
=============================================================================
