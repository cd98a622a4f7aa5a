------------------------------- MODULE Parser -------------------------------
(***************************************************************************)
(* The main block of a program: the recursive descent of Compiler          *)
(* (compiler.cpp) over statements and expressions, with the code generator *)
(* calls it makes on the way.                                              *)
(*                                                                         *)
(* The C++ call stack is `frames`, one record per active parse_* function  *)
(* that waits for another one; `pc` says what runs now: a function being   *)
(* entered, a point inside one after a token was read, or a return.  The   *)
(* source text is not given beforehand: each read_token chooses any token, *)
(* so the behaviours are those of the compiler on every source text.       *)
(*                                                                         *)
(* `operands` and `ignored` are history variables: what the code generated *)
(* so far leaves on the run-time stack, and how many of these values are   *)
(* results of calls that nothing will use.                                 *)
(***************************************************************************)
EXTENDS CodeGenCalls

CONSTANTS
  VarType,       \* m_variables: names of variables -> Type
  Typedefs,      \* m_typedefs: names of types -> Type
  FunParams,     \* m_functions: names of functions -> types of the parameters
  FunReturn,     \* m_functions: names of functions -> return type
  DeclaredTypes, \* m_user_types after the declarations
  Tokens,        \* the tokens a source text is made of
  MaxTokens      \* bound on the length of a source text

FEOF == "FEOF"

\* The tokens (enum TOKEN) a main block can hold, other than identifiers.
TokenKinds ==
  DOMAIN MulopCall \cup DOMAIN AddopCall \cup DOMAIN RelopCall \cup
  {"KEYWORD_BEGIN", "KEYWORD_END", "KEYWORD_WHILE", "KEYWORD_FOR", "KEYWORD_TO",
   "KEYWORD_DO", "KEYWORD_IF", "KEYWORD_THEN", "KEYWORD_ELSE", "KEYWORD_DISPLAY",
   "KEYWORD_CONVERT", "TYPE_INTEGER", "TYPE_DOUBLE", "TYPE_BOOLEAN", "TYPE_CHAR",
   "CHAR_LITERAL", "INTEGER_LITERAL", "FLOAT_LITERAL", "COMMA", "SEMICOLON", "DOT",
   "ASSIGN", "LPARENT", "RPARENT", "NOT", "EXPONENT", "AT", "UNKNOWN"}

TypeToken == [TYPE_INTEGER |-> UNSIGNED_INT, TYPE_DOUBLE |-> DOUBLE,
              TYPE_BOOLEAN |-> BOOL, TYPE_CHAR |-> CHAR]
Literal   == [CHAR_LITERAL |-> CHAR, INTEGER_LITERAL |-> UNSIGNED_INT,
              FLOAT_LITERAL |-> DOUBLE]

Pointers     == DOMAIN DeclaredTypes
DeclaredFree == IF Pointers = {} THEN FIRST_USER_DEFINED
                ELSE CHOOSE t \in Pointers : \A u \in Pointers : u <= t
KnownTypes   == Concrete \cup Pointers

(***************************************************************************)
(* What the declarations of a program leave behind: parse_type yields no   *)
(* VOID but for a return type, and a parameter of a foreign function is    *)
(* declared with a type keyword.                                           *)
(***************************************************************************)
ASSUME DeclarationsAssumption ==
  /\ Names \cap (TokenKinds \cup {FEOF}) = {}
  /\ VarType \in [DOMAIN VarType -> KnownTypes]
  /\ Typedefs \in [DOMAIN Typedefs -> KnownTypes]
  /\ FunReturn \in [DOMAIN FunReturn -> KnownTypes \cup {VOID}]
  /\ FunParams \in [DOMAIN FunReturn -> Seq(Concrete)]
  /\ DeclaredTypes \in [Pointers -> Type]
  /\ PointerTableOK(DeclaredTypes, DeclaredFree)
  /\ Tokens \subseteq TokenKinds \cup Names
  /\ MaxTokens \in Nat

VARIABLES
  tok,               \* m_current_token, an identifier standing for its ID token
  remaining,         \* tokens the lexer may still return before FEOF
  pc,                \* what the innermost activation does next
  frames,            \* the activations waiting below it, outermost first
  result,            \* what the function that just returned returned
  m_user_types,
  m_first_free_type,
  m_label_tag,
  operands,          \* types of the values on the run-time stack
  ignored,           \* how many of them are results of calls made as statements
  emitted,           \* the call made by the last step
  status             \* "parsing", "accepted", "error" (error()), "bug" (bug()) or
                     \* "uncaught" (an exception operator() does not handle)

lexer  == <<tok, remaining>>
types  == <<m_user_types, m_first_free_type>>
output == <<operands, ignored, emitted>>
vars   == <<lexer, pc, frames, result, types, m_label_tag, output, status>>

IsId(t) == t \in Names

NoOperator == ""
Nothing == [type |-> VOID, name |-> NoName]

(***************************************************************************)
(* An activation: `at` is where it resumes; type and op are first_type and *)
(* op_token of a pending operator; name is an identifier read; n is        *)
(* saved_tag, the parameter count i, or an index into dereference_stack;   *)
(* regs and xmms are the counters of its FunctionCall.  base is history:   *)
(* the height of the operand stack when the activation began.              *)
(***************************************************************************)
Activation(at) ==
  [at |-> at, type |-> VOID, op |-> NoOperator, name |-> NoName, n |-> 0,
   regs |-> 0, xmms |-> 0, derefs |-> <<>>, base |-> Len(operands)]

Top        == frames[Len(frames)]
Push(f)    == frames' = Append(frames, f)
Become(f)  == frames' = [frames EXCEPT ![Len(frames)] = f]
Pop        == frames' = SubSeq(frames, 1, Len(frames) - 1)

\* The innermost activation is at control point p, below it one that waits at `at`.
At(p, at) == /\ status = "parsing"
             /\ pc = p
             /\ frames # <<>>
             /\ Top.at = at
Enters(p) == status = "parsing" /\ pc = p

Goto(p)      == pc' = p /\ result' = Nothing /\ status' = status
Returns(p, r) == pc' = p /\ result' = r /\ status' = status
Yields(t)    == Returns("return", [type |-> t, name |-> NoName])
Done         == Goto("done")

Emit(op) == emitted' = op /\ operands' = After(operands, op) /\ ignored' = ignored
Quiet    == emitted' = NoOp /\ UNCHANGED <<operands, ignored>>

\* (A variant: the lexer reads on after the end of the file.)
ReadPastEnd ==
  /\ tok' \in IF remaining = 0 THEN {FEOF} ELSE Tokens \cup {FEOF}
  /\ remaining' = remaining - 1

\* read_token(): after the end of the file, the lexer keeps returning FEOF.
ReadToken ==
  /\ tok' \in IF tok = FEOF \/ remaining = 0 THEN {FEOF} ELSE Tokens \cup {FEOF}
  /\ remaining' = IF tok' = FEOF THEN 0 ELSE remaining - 1
KeepToken == UNCHANGED lexer

\* error() and bug() throw: nothing else of the compilation happens, but the
\* code of a call made before the check that fails is in the output.
StopsAfter(op, how) ==
  /\ status' = how
  /\ emitted' = op
  /\ UNCHANGED <<lexer, pc, frames, result, types, m_label_tag, operands, ignored>>
Stops(how) == StopsAfter(NoOp, how)

\* A step that raises an error unless `ok`.
Checked(ok, Step) == \/ ok /\ Step
                     \/ ~ok /\ Stops("error")

\* The same, where the call is made before the check.
CheckedAfter(op, ok, Step) == \/ ok /\ Emit(op) /\ Step
                              \/ ~ok /\ StopsAfter(op, "error")

-----------------------------------------------------------------------------
(* Expressions *)

\* The calls parse_expression -> ... -> parse_dereferencable make on entry.
Descend(from, at, to) ==
  /\ Enters(from)
  /\ Push(Activation(at))
  /\ Goto(to)
  /\ KeepToken /\ Quiet /\ UNCHANGED <<types, m_label_tag>>

ParseExpression       == Descend("expression", "expr", "simple_expression")
ParseSimpleExpression == Descend("simple_expression", "simple", "term")
ParseTerm             == Descend("term", "term", "factor")
ParseFactor           == Descend("factor", "factor", "dereferencable")

\* parse_dereferencable, the alternatives that parse a sub-expression.
ParseNested ==
  /\ Enters("dereferencable")
  /\ \/ tok = "LPARENT" /\ Push(Activation("paren")) /\ Goto("expression")
     \/ tok = "NOT" /\ Push(Activation("not")) /\ Goto("factor")
     \/ tok = "KEYWORD_CONVERT" /\ Push(Activation("cast")) /\ Goto("expression")
     \/ tok = "AT" /\ UNCHANGED frames /\ Goto("reference")
     \/ IsId(tok) /\ Push([Activation("identifier") EXCEPT !.name = tok])
                  /\ Goto("factor_identifier")
  /\ ReadToken /\ Quiet /\ UNCHANGED <<types, m_label_tag>>

\* std::stoull and std::stod may throw std::out_of_range, which operator() lets pass.
ParseLiteral ==
  /\ Enters("dereferencable")
  /\ tok \in DOMAIN Literal
  /\ \/ /\ Emit(OpOf("load_i64", Literal[tok]))
        /\ Yields(Literal[tok])
        /\ ReadToken /\ UNCHANGED <<frames, types, m_label_tag>>
     \/ tok # "CHAR_LITERAL" /\ Stops("uncaught")

ExpectedExpression ==
  /\ Enters("dereferencable")
  /\ ~IsId(tok)
  /\ tok \notin DOMAIN Literal \cup {"LPARENT", "NOT", "KEYWORD_CONVERT", "AT"}
  /\ Stops("error")

CloseParenthesis ==
  /\ At("return", "paren")
  /\ Checked(tok = "RPARENT",
       Pop /\ Returns("return", result) /\ ReadToken /\ Quiet
       /\ UNCHANGED <<types, m_label_tag>>)

\* (A variant: the operand of NOT is not checked.)
NotOperandUnchecked ==
  /\ At("return", "not")
  /\ Emit(OpOf("alu_not_bool", BOOL)) /\ Pop /\ Yields(BOOL)
  /\ KeepToken /\ UNCHANGED <<types, m_label_tag>>

NotOperand ==
  /\ At("return", "not")
  /\ Checked(Matches(result.type, BOOL),
       Emit(OpOf("alu_not_bool", BOOL)) /\ Pop /\ Yields(BOOL)
       /\ KeepToken /\ UNCHANGED <<types, m_label_tag>>)

\* parse_variable_reference, after '@'
VariableReference ==
  /\ Enters("reference")
  /\ Checked(IsId(tok) /\ tok \in DOMAIN VarType,
       LET target == VarType[tok]
           pointer == PointerTo(m_user_types, m_first_free_type, target)
       IN /\ m_user_types' = TableWith(m_user_types, m_first_free_type, target)
          /\ m_first_free_type' = FreeAfter(m_user_types, m_first_free_type, target)
          /\ Emit(OpNamed("load_pointer_to_variable", pointer, tok))
          /\ Yields(pointer)
          /\ ReadToken /\ UNCHANGED <<frames, m_label_tag>>)

\* parse_variable_usage_after_identifier
VariableUsage ==
  /\ At("factor_identifier", "identifier")
  /\ tok # "LPARENT"
  /\ Checked(Top.name \in DOMAIN VarType,
       LET type == VarType[Top.name]
       IN /\ Emit(OpNamed("load_variable", type, Top.name))
          /\ Pop /\ Yields(type)
          /\ KeepToken /\ UNCHANGED <<types, m_label_tag>>)

\* parse_factor, the loop over '^'
Dereference ==
  /\ At("return", "factor")
  /\ tok = "EXPONENT"
  /\ Checked(result.type \in DOMAIN m_user_types,
       LET target == m_user_types[result.type]
       IN /\ Emit(OpTo("load_value_from_pointer", result.type, target))
          /\ Yields(target)
          /\ ReadToken /\ UNCHANGED <<frames, types, m_label_tag>>)

\* A loop over operators ends: its function returns first_type.
LoopEnds(at, operators) ==
  /\ At("return", at)
  /\ tok \notin operators
  /\ Pop /\ Returns("return", result)
  /\ KeepToken /\ Quiet /\ UNCHANGED <<types, m_label_tag>>

EndFactor           == LoopEnds("factor", {"EXPONENT"})
EndTerm             == LoopEnds("term", DOMAIN MulopCall)
EndSimpleExpression == LoopEnds("simple", DOMAIN AddopCall)
EndExpression       == LoopEnds("expr", DOMAIN RelopCall)

\* An operator is read: first_type and op_token wait for the next operand.
Operator(at, operators, rhs, operand) ==
  /\ At("return", at)
  /\ tok \in operators
  /\ Become([Top EXCEPT !.at = rhs, !.type = result.type, !.op = tok])
  /\ Goto(operand)
  /\ ReadToken /\ Quiet /\ UNCHANGED <<types, m_label_tag>>

Mulop == Operator("term", DOMAIN MulopCall, "term_rhs", "factor")
Addop == Operator("simple", DOMAIN AddopCall, "simple_rhs", "term")
Relop == Operator("expr", DOMAIN RelopCall, "expr_rhs", "simple_expression")

\* The operands of + - * / % are arithmetic, those of || and && Boolean.
OperandsMatch(first, nth, op) ==
  /\ Matches(first, nth)
  /\ Matches(first, IF op \in {"MULOP_AND", "ADDOP_OR"} THEN BOOL ELSE ARITHMETIC)

\* The operation is generated, and the loop goes on with its result.
Combine(rhs, at, call) ==
  /\ At("return", rhs)
  /\ Checked(OperandsMatch(Top.type, result.type, Top.op),
       /\ Emit(OpOf(call[Top.op], Top.type))
       /\ Become([Top EXCEPT !.at = at, !.type = VOID, !.op = NoOperator])
       /\ Yields(Top.type)
       /\ KeepToken /\ UNCHANGED <<types, m_label_tag>>)

CombineTerm   == Combine("term_rhs", "term", MulopCall)
CombineSimple == Combine("simple_rhs", "simple", AddopCall)

\* (A variant: a comparison returns first_type, as the other operators do.)
CompareReturnsFirst ==
  /\ At("return", "expr_rhs")
  /\ Checked(Matches(Top.type, result.type) /\ CanCompare(Top.type),
       /\ m_label_tag' = m_label_tag + 1
       /\ Emit([OpOf(RelopCall[Top.op], Top.type) EXCEPT !.n = m_label_tag'])
       /\ Pop /\ Yields(Top.type)
       /\ KeepToken /\ UNCHANGED types)

\* parse_expression, with alu_compare, which takes a label tag.
Compare ==
  /\ At("return", "expr_rhs")
  /\ Checked(Matches(Top.type, result.type),
       \/ /\ CanCompare(Top.type)
          /\ m_label_tag' = m_label_tag + 1
          /\ Emit([OpOf(RelopCall[Top.op], Top.type) EXCEPT !.n = m_label_tag'])
          /\ Pop /\ Yields(BOOL)
          /\ KeepToken /\ UNCHANGED types
       \/ ~CanCompare(Top.type) /\ Stops("bug"))

-----------------------------------------------------------------------------
(* CONVERT expression TO type *)

CastTo ==
  /\ At("return", "cast")
  /\ Checked(tok = "KEYWORD_TO",
       /\ Become([Top EXCEPT !.at = "cast_to", !.type = result.type])
       /\ Goto("type")
       /\ ReadToken /\ Quiet /\ UNCHANGED <<types, m_label_tag>>)

\* parse_type: a type keyword, the name of a type, or '^' and a type.
ParseNamedType ==
  /\ Enters("type")
  /\ \/ tok \in DOMAIN TypeToken
        /\ Returns("type_done", [type |-> TypeToken[tok], name |-> NoName])
     \/ IsId(tok) /\ tok \in DOMAIN Typedefs
        /\ Returns("type_done", [type |-> Typedefs[tok], name |-> NoName])
  /\ ReadToken /\ Quiet /\ UNCHANGED <<frames, types, m_label_tag>>

ParsePointerType ==
  /\ Enters("type")
  /\ tok = "EXPONENT"
  /\ Push(Activation("pointer_type")) /\ Goto("type")
  /\ ReadToken /\ Quiet /\ UNCHANGED <<types, m_label_tag>>

ExpectedType ==
  /\ Enters("type")
  /\ tok \notin DOMAIN TypeToken \cup {"EXPONENT"}
  /\ ~(IsId(tok) /\ tok \in DOMAIN Typedefs)
  /\ Stops("error")

PointerTypeDone ==
  /\ At("type_done", "pointer_type")
  /\ m_user_types' = TableWith(m_user_types, m_first_free_type, result.type)
  /\ m_first_free_type' = FreeAfter(m_user_types, m_first_free_type, result.type)
  /\ Pop
  /\ Returns("type_done",
       [type |-> PointerTo(m_user_types, m_first_free_type, result.type), name |-> NoName])
  /\ KeepToken /\ Quiet /\ UNCHANGED m_label_tag

Convert ==
  /\ At("type_done", "cast_to")
  /\ Checked(~IsUserDefined(Top.type) /\ ~IsUserDefined(result.type),
       \/ /\ CanConvert(Top.type, result.type)
          /\ Emit(OpTo("convert", Top.type, result.type))
          /\ Pop /\ Yields(result.type)
          /\ KeepToken /\ UNCHANGED <<types, m_label_tag>>
       \/ ~CanConvert(Top.type, result.type) /\ Stops("bug"))

-----------------------------------------------------------------------------
(* Function calls: parse_function_call_after_identifier.  An activation at *)
(* "call" returns the result to an expression, one at "call_statement" was *)
(* started by parse_statement_identifier.                                  *)

BeginCall(p, from, at) ==
  /\ At(p, from)
  /\ tok = "LPARENT"
  /\ Checked(Top.name \in DOMAIN FunReturn
             /\ (at = "call" => FunReturn[Top.name] # VOID),
       /\ Become([Top EXCEPT !.at = at])
       /\ Goto("call_args")
       /\ ReadToken /\ Quiet /\ UNCHANGED <<types, m_label_tag>>)

CallInExpression == BeginCall("factor_identifier", "identifier", "call")
CallStatement    == BeginCall("statement_identifier", "statement_name", "call_statement")

InCall == frames # <<>> /\ Top.at \in {"call", "call_statement"}

\* An empty parameter list, or the first parameter.
CallArgs ==
  /\ Enters("call_args") /\ InCall
  /\ Goto(IF tok = "RPARENT" THEN "call_finish" ELSE "call_arg")
  /\ KeepToken /\ Quiet /\ UNCHANGED <<frames, types, m_label_tag>>

CallArg ==
  /\ Enters("call_arg") /\ InCall
  /\ Checked(Top.n < Len(FunParams[Top.name]),
       Goto("expression")
       /\ KeepToken /\ Quiet /\ UNCHANGED <<frames, types, m_label_tag>>)

\* (A variant: the i-th argument goes to the i-th register of its class.)
ArgumentPosition(call, type) == call.n

\* The register of an argument: the next one of its class.
ArgumentIndex(call, type) == IF IsRegular(type) THEN call.regs ELSE call.xmms

\* function_call_param: the argument just computed goes to its register.
CallParam ==
  /\ Enters("return") /\ InCall
  /\ Checked(Matches(result.type, FunParams[Top.name][Top.n + 1]),
       \/ /\ CanPass(result.type, Top.regs, Top.xmms)
          /\ Emit([OpOf("function_call_param", result.type)
                     EXCEPT !.n = ArgumentIndex(Top, result.type)])
          /\ Become([Top EXCEPT !.n = @ + 1,
                       !.regs = IF IsRegular(result.type) THEN @ + 1 ELSE @,
                       !.xmms = IF IsRegular(result.type) THEN @ ELSE @ + 1])
          /\ \/ tok = "COMMA" /\ ReadToken /\ Goto("call_arg")
             \/ tok # "COMMA" /\ KeepToken /\ Goto("call_finish")
          /\ UNCHANGED <<types, m_label_tag>>
       \/ ~CanPass(result.type, Top.regs, Top.xmms) /\ Stops("bug"))

\* function_call_finalize, then the closing parenthesis.
CallFinish ==
  /\ Enters("call_finish") /\ InCall
  /\ LET type == FunReturn[Top.name]
         call == OpNamed("function_call_finalize", type, Top.name)
     IN Checked(Top.n >= Len(FunParams[Top.name]),
          \/ ~CanReturn(type) /\ StopsAfter(call, "bug")
          \/ CanReturn(type) /\ tok # "RPARENT" /\ StopsAfter(call, "error")
          \/ /\ CanReturn(type) /\ tok = "RPARENT"
             /\ emitted' = call /\ operands' = After(operands, call)
             /\ \/ /\ Top.at = "call"
                   /\ ignored' = ignored
                   /\ Yields(type)
                \* parse_statement_identifier ignores the result.
                \/ /\ Top.at = "call_statement"
                   /\ ignored' = ignored + Len(Leaves(call))
                   /\ Done
             /\ Pop
             /\ ReadToken /\ UNCHANGED <<types, m_label_tag>>)

-----------------------------------------------------------------------------
(* Assignments *)

\* parse_assignment_statement, for FOR: an identifier, then as below.
ParseAssignment ==
  /\ Enters("assignment")
  /\ Checked(IsId(tok),
       /\ Push([Activation("target") EXCEPT !.name = tok])
       /\ Goto("assign_target")
       /\ ReadToken /\ Quiet /\ UNCHANGED <<types, m_label_tag>>)

StatementIdentifier ==
  /\ At("statement_identifier", "statement_name")
  /\ tok # "LPARENT"
  /\ Become([Top EXCEPT !.at = "target"])
  /\ Goto("assign_target")
  /\ KeepToken /\ Quiet /\ UNCHANGED <<types, m_label_tag>>

\* parse_assignment_statement_after_identifier
AssignTarget ==
  /\ At("assign_target", "target")
  /\ Checked(Top.name \in DOMAIN VarType /\ tok \in {"EXPONENT", "ASSIGN"},
       /\ \/ /\ tok = "EXPONENT"
             /\ Become([Top EXCEPT !.at = "deref", !.type = VarType[Top.name]])
             /\ Goto("deref_target")
             /\ KeepToken
          \/ /\ tok = "ASSIGN"
             /\ Become([Top EXCEPT !.at = "assign"])
             /\ Goto("expression")
             /\ ReadToken
       /\ Quiet /\ UNCHANGED <<types, m_label_tag>>)

\* (A variant: dereference_stack gets the pointer, not what it points to.)
DerefTargetPushesPointer ==
  /\ At("deref_target", "deref")
  /\ tok = "EXPONENT"
  /\ Checked(Top.type \in DOMAIN m_user_types,
       /\ Become([Top EXCEPT !.type = m_user_types[@], !.derefs = Append(@, Top.type)])
       /\ Goto("deref_target")
       /\ ReadToken /\ Quiet /\ UNCHANGED <<types, m_label_tag>>)

\* One '^' of the target: current_type is type, its targets dereference_stack.
DerefTarget ==
  /\ At("deref_target", "deref")
  /\ tok = "EXPONENT"
  /\ Checked(Top.type \in DOMAIN m_user_types,
       LET target == m_user_types[Top.type]
       IN /\ Become([Top EXCEPT !.type = target, !.derefs = Append(@, target)])
          /\ Goto("deref_target")
          /\ ReadToken /\ Quiet /\ UNCHANGED <<types, m_label_tag>>)

EndTarget ==
  /\ At("deref_target", "deref")
  /\ tok # "EXPONENT"
  /\ Checked(tok = "ASSIGN",
       /\ Become([Top EXCEPT !.at = "assign_ptr"])
       /\ Goto("expression")
       /\ ReadToken /\ Quiet /\ UNCHANGED <<types, m_label_tag>>)

StoreVariable ==
  /\ At("return", "assign")
  /\ LET type == VarType[Top.name]
     IN CheckedAfter(OpNamed("store_variable", type, Top.name), Matches(result.type, type),
          /\ Pop
          /\ Returns("done", [type |-> type, name |-> Top.name])
          /\ KeepToken /\ UNCHANGED <<types, m_label_tag>>)

\* The value is on the stack; the pointer is loaded above it ...
LoadTarget ==
  /\ At("return", "assign_ptr")
  /\ Emit(OpNamed("load_variable", VarType[Top.name], Top.name))
  /\ Become([Top EXCEPT !.at = "store_ptr", !.n = 1])
  /\ Returns("walk_target", result)
  /\ KeepToken /\ UNCHANGED <<types, m_label_tag>>

\* The type of the pointer on top of the stack when n - 1 loads are done.
WalkType(f) == IF f.n = 1 THEN VarType[f.name] ELSE f.derefs[f.n - 1]

\* (A variant: the last '^' is loaded through as well.)
WalkTargetToTheEnd ==
  /\ At("walk_target", "store_ptr")
  /\ Top.n <= Len(Top.derefs)
  /\ Emit(OpTo("load_value_from_pointer", WalkType(Top), Top.derefs[Top.n]))
  /\ Become([Top EXCEPT !.n = @ + 1])
  /\ Returns("walk_target", result)
  /\ KeepToken /\ UNCHANGED <<types, m_label_tag>>

\* ... replaced by what it points to, for all of dereference_stack but the last ...
WalkTarget ==
  /\ At("walk_target", "store_ptr")
  /\ Top.n < Len(Top.derefs)
  /\ Emit(OpTo("load_value_from_pointer", WalkType(Top), Top.derefs[Top.n]))
  /\ Become([Top EXCEPT !.n = @ + 1])
  /\ Returns("walk_target", result)
  /\ KeepToken /\ UNCHANGED <<types, m_label_tag>>

\* (A variant: the variable is returned, with the type of the value.)
StoreReturnsPointer ==
  /\ At("walk_target", "store_ptr")
  /\ Top.n >= Len(Top.derefs)
  /\ CheckedAfter(OpTo("store_value_to_pointer", result.type, WalkType(Top)),
                  Matches(result.type, Top.type),
       /\ Pop /\ Returns("done", [type |-> Top.type, name |-> Top.name])
       /\ KeepToken /\ UNCHANGED <<types, m_label_tag>>)

\* ... and used for the store.  The assignment returns no variable ({}).
StoreToPointer ==
  /\ At("walk_target", "store_ptr")
  /\ Top.n >= Len(Top.derefs)
  /\ CheckedAfter(OpTo("store_value_to_pointer", result.type, WalkType(Top)),
                  Matches(result.type, Top.type),
       /\ Pop /\ Done
       /\ KeepToken /\ UNCHANGED <<types, m_label_tag>>)

-----------------------------------------------------------------------------
(* Statements *)

\* parse_statement for the statements that begin with an expression or a name.
ParseStatement ==
  /\ Enters("statement")
  /\ \/ tok = "KEYWORD_DISPLAY" /\ Push(Activation("display")) /\ Goto("expression")
     \/ tok = "KEYWORD_FOR" /\ Push(Activation("for_assign")) /\ Goto("assignment")
     \/ IsId(tok) /\ Push([Activation("statement_name") EXCEPT !.name = tok])
                  /\ Goto("statement_identifier")
  /\ ReadToken /\ Quiet /\ UNCHANGED <<types, m_label_tag>>

\* (A variant: m_label_tag is incremented after it was saved.)
ParseConditionalPostIncrement ==
  /\ Enters("statement")
  /\ m_label_tag' = m_label_tag + 1
  /\ \/ /\ tok = "KEYWORD_IF"
        /\ Push([Activation("if_cond") EXCEPT !.n = m_label_tag])
        /\ Quiet
     \/ /\ tok = "KEYWORD_WHILE"
        /\ Push([Activation("while_cond") EXCEPT !.n = m_label_tag])
        /\ Emit(OpTag("statement_while_prepare", m_label_tag))
  /\ Goto("expression")
  /\ ReadToken /\ UNCHANGED types

\* statement_if_prepare and statement_while_prepare take a label tag first.
ParseConditional ==
  /\ Enters("statement")
  /\ m_label_tag' = m_label_tag + 1
  /\ \/ /\ tok = "KEYWORD_IF"
        /\ Push([Activation("if_cond") EXCEPT !.n = m_label_tag'])
        /\ Quiet
     \/ /\ tok = "KEYWORD_WHILE"
        /\ Push([Activation("while_cond") EXCEPT !.n = m_label_tag'])
        /\ Emit(OpTag("statement_while_prepare", m_label_tag'))
  /\ Goto("expression")
  /\ ReadToken /\ UNCHANGED types

ParseNestedBlock ==
  /\ Enters("statement")
  /\ tok = "KEYWORD_BEGIN"
  /\ Goto("block_statement")
  /\ KeepToken /\ Quiet /\ UNCHANGED <<frames, types, m_label_tag>>

ExpectedStatement ==
  /\ Enters("statement")
  /\ ~IsId(tok)
  /\ tok \notin {"KEYWORD_DISPLAY", "KEYWORD_FOR", "KEYWORD_IF", "KEYWORD_WHILE",
                 "KEYWORD_BEGIN"}
  /\ Stops("error")

\* (A variant: no code tests the condition.)
ConditionUntested(at, keyword, call, body) ==
  /\ At("return", at)
  /\ Checked(Matches(result.type, BOOL) /\ tok = keyword,
       /\ Become([Top EXCEPT !.at = body])
       /\ Goto("statement")
       /\ ReadToken /\ Quiet /\ UNCHANGED <<types, m_label_tag>>)

\* The Boolean on the stack is tested; `keyword` must follow the condition.
Condition(at, keyword, call, body) ==
  /\ At("return", at)
  /\ Checked(Matches(result.type, BOOL) /\ tok = keyword,
       /\ Emit([OpOf(call, BOOL) EXCEPT !.n = Top.n])
       /\ Become([Top EXCEPT !.at = body])
       /\ Goto("statement")
       /\ ReadToken /\ UNCHANGED <<types, m_label_tag>>)

IfCondition    == Condition("if_cond", "KEYWORD_THEN", "statement_if_post_check", "if_then")
WhileCondition == Condition("while_cond", "KEYWORD_DO", "statement_while_post_check", "while_body")

IfElse ==
  /\ At("done", "if_then")
  /\ \/ /\ tok = "KEYWORD_ELSE"
        /\ Emit(OpTag("statement_if_with_else", Top.n))
        /\ Goto("statement") /\ ReadToken
     \/ /\ tok # "KEYWORD_ELSE"
        /\ Emit(OpTag("statement_if_without_else", Top.n))
        /\ Goto("done") /\ KeepToken
  /\ Become([Top EXCEPT !.at = "if_end"])
  /\ UNCHANGED <<types, m_label_tag>>

\* (A variant: the latest tag is used for the one saved.)
ClosesLatest(at, call) ==
  /\ At("done", at)
  /\ Emit(OpTag(call, m_label_tag))
  /\ Pop /\ Done
  /\ KeepToken /\ UNCHANGED <<types, m_label_tag>>

\* The last step of a statement: its closing labels.
Closes(at, call) ==
  /\ At("done", at)
  /\ Emit(OpTag(call, Top.n))
  /\ Pop /\ Done
  /\ KeepToken /\ UNCHANGED <<types, m_label_tag>>

EndIf    == Closes("if_end", "statement_if_finalize")
EndWhile == Closes("while_body", "statement_while_finalize")
EndFor   == Closes("for_body", "statement_for_finalize")

\* FOR: the variable assigned must be an integer, then the loop's label.
ForAssigned ==
  /\ At("done", "for_assign")
  /\ Checked(Matches(result.type, UNSIGNED_INT),
       CheckedAfter(OpTag("statement_for_post_assignment", m_label_tag + 1), tok = "KEYWORD_TO",
         /\ m_label_tag' = m_label_tag + 1
         /\ Become([Top EXCEPT !.at = "for_max", !.name = result.name, !.n = m_label_tag'])
         /\ Goto("expression")
         /\ ReadToken /\ UNCHANGED types))

ForMax ==
  /\ At("return", "for_max")
  /\ Checked(Matches(result.type, UNSIGNED_INT) /\ tok = "KEYWORD_DO",
       /\ Emit([OpNamed("statement_for_post_check", UNSIGNED_INT, Top.name) EXCEPT !.n = Top.n])
       /\ Become([Top EXCEPT !.at = "for_body"])
       /\ Goto("statement")
       /\ ReadToken /\ UNCHANGED <<types, m_label_tag>>)

Display ==
  /\ At("return", "display")
  /\ Checked(~IsUserDefined(result.type),
       \/ /\ CanDisplay(result.type)
          /\ Emit(OpOf("debug_display", result.type))
          /\ Pop /\ Done
          /\ KeepToken /\ UNCHANGED <<types, m_label_tag>>
       \/ ~CanDisplay(result.type) /\ Stops("bug"))

\* parse_block_statement: a block may be empty and may end in ';'.
BeginBlock ==
  /\ Enters("block_statement")
  /\ Checked(tok = "KEYWORD_BEGIN",
       /\ Push(Activation("block")) /\ Goto("block")
       /\ ReadToken /\ Quiet /\ UNCHANGED <<types, m_label_tag>>)

BlockItem ==
  /\ At("block", "block")
  /\ \/ tok = "KEYWORD_END" /\ Pop /\ Done /\ ReadToken
     \/ tok # "KEYWORD_END" /\ UNCHANGED frames /\ Goto("statement") /\ KeepToken
  /\ Quiet /\ UNCHANGED <<types, m_label_tag>>

\* (A variant: after an error, tokens are skipped up to the next ';' or END.)
BlockNextRecovers ==
  /\ At("done", "block")
  /\ \/ tok = "SEMICOLON" /\ UNCHANGED frames /\ Goto("block")
     \/ tok = "KEYWORD_END" /\ Pop /\ Done
     \/ tok \notin {"SEMICOLON", "KEYWORD_END"} /\ UNCHANGED frames /\ Done
  /\ ReadToken /\ Quiet /\ UNCHANGED <<types, m_label_tag>>

BlockNext ==
  /\ At("done", "block")
  /\ Checked(tok \in {"SEMICOLON", "KEYWORD_END"},
       /\ \/ tok = "SEMICOLON" /\ UNCHANGED frames /\ Goto("block")
          \/ tok = "KEYWORD_END" /\ Pop /\ Done
       /\ ReadToken /\ Quiet /\ UNCHANGED <<types, m_label_tag>>)

-----------------------------------------------------------------------------
(* parse_main_block_statement, and the end of the file. *)

EndMain ==
  /\ At("done", "main")
  /\ Checked(tok = "DOT",
       /\ Emit(OpOf("finalize_main_procedure", VOID))
       /\ Pop /\ Goto("end")
       /\ ReadToken /\ UNCHANGED <<types, m_label_tag>>)

EndOfFile ==
  /\ Enters("end")
  /\ Stops(IF tok = FEOF THEN "accepted" ELSE "error")

\* The compiler has stopped.
Stopped == status # "parsing" /\ UNCHANGED vars

Init ==
  /\ tok \in Tokens \cup {FEOF}
  /\ remaining = IF tok = FEOF THEN 0 ELSE MaxTokens
  /\ pc = "block_statement"
  /\ operands = <<>>
  /\ ignored = 0
  /\ frames = <<Activation("main")>>
  /\ result = Nothing
  /\ m_user_types = DeclaredTypes
  /\ m_first_free_type = DeclaredFree
  /\ m_label_tag = 0
  /\ emitted = NoOp
  /\ status = "parsing"

ExpressionStep ==
  \/ ParseExpression \/ ParseSimpleExpression \/ ParseTerm \/ ParseFactor
  \/ ParseNested \/ ParseLiteral \/ ExpectedExpression \/ CloseParenthesis
  \/ NotOperand \/ VariableReference \/ VariableUsage \/ Dereference
  \/ EndFactor \/ EndTerm \/ EndSimpleExpression \/ EndExpression
  \/ Mulop \/ Addop \/ Relop \/ CombineTerm \/ CombineSimple \/ Compare
  \/ CastTo \/ ParseNamedType \/ ParsePointerType \/ ExpectedType
  \/ PointerTypeDone \/ Convert

CallStep ==
  \/ CallInExpression \/ CallStatement \/ CallArgs \/ CallArg \/ CallParam
  \/ CallFinish

StatementStep ==
  \/ ParseAssignment \/ StatementIdentifier \/ AssignTarget \/ DerefTarget
  \/ EndTarget \/ StoreVariable \/ LoadTarget \/ WalkTarget \/ StoreToPointer
  \/ ParseStatement \/ ParseConditional \/ ParseNestedBlock \/ ExpectedStatement
  \/ IfCondition \/ WhileCondition \/ IfElse \/ EndIf \/ EndWhile \/ EndFor
  \/ ForAssigned \/ ForMax \/ Display \/ BeginBlock \/ BlockItem \/ BlockNext
  \/ EndMain \/ EndOfFile

Next == ExpressionStep \/ CallStep \/ StatementStep \/ Stopped

Spec == Init /\ [][Next]_vars

\* The compiler is one sequential process: while it can step, it does.
FairSpec == Spec /\ WF_vars(Next)
=============================================================================
