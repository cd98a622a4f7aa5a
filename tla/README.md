# Verification of cericompiler

cericompiler translates a small Pascal-like language to x86-64 assembly in one
pass: a flex lexer feeds a recursive descent parser, and the parser calls the
code generator while it descends. There is no syntax tree. The parser therefore
has to know, at every call it makes, what all earlier calls left on the
*run-time* operand stack, in which registers, and under which labels. That
knowledge is spread over the activations of some twenty mutually recursive
functions, and it is what these modules are about.

## 1. The system

| Component | Source | State | Operations |
|---|---|---|---|
| Lexer | `tokeniser.l`, `token.*` | position in the input, line | `yylex` |
| Parser: declarations | `compiler.cpp` 421-522, 614-683 | `m_variables`, `m_typedefs`, `m_functions`, `m_user_types`, `m_first_free_type` | `parse_variable_declaration_block`, `parse_type_definition`, `parse_foreign_function_declaration`, `parse_type` |
| Parser: includes | `compiler.cpp` 524-612 | `m_includes`, `m_file_name_stack`, `m_lexer`, `m_current_token` | `parse_include` |
| Parser: expressions | `compiler.cpp` 76-419, 685-712 | `m_current_token`, the C++ call stack | `parse_expression` ... `parse_dereferencable`, calls, conversions |
| Parser: statements | `compiler.cpp` 714-924 | the C++ call stack | `parse_statement` and one function per statement |
| Global data | `codegen.cpp` 30-74, `compiler.cpp` 958-967 | the `.data` section | `define_global_variable`, loads and stores |
| Types | `types.hpp`, `usertype.*`, `compiler.cpp` 926-956, 1002-1030 | `m_user_types`, `m_first_free_type` | `create_type`, `check_type` |
| Code generator | `codegen/x86/` | `m_label_tag`, a `saved_tag` per statement, counters per `FunctionCall` | one method per construct |
| Driver | `main.cpp` | options, streams | `parse`, `main` |

They interact by calls only, in one thread: driver -> `Compiler::operator()` ->
parser -> lexer and code generator. The code generator calls back into the
compiler for its output stream and for `bug()`. `error()` and `bug()` throw, and
an exception ends the compilation, leaving the code written so far.

What is hard here is not concurrency but *long protocols*: the code of a
construct is emitted in pieces, with the code of arbitrary other constructs in
between, and every piece relies on what the pieces before it left: operands on
the stack, arguments in registers, a saved tag, a type that was looked up
earlier. A test runs one program; the modules below run all of them up to a
length, and the theorems hold for all.

Properties that make the components correct:

* expressions and statements: the calls are a well-typed stack program; each
  activation finds its operands where it left them; statements are balanced;
  `FOR` runs on an INTEGER variable; the compiler stops on every text;
* types: equal pointer types have equal ids; calls of the code generator name
  the types their operands have, and memory is accessed through a pointer only
  as what it points to;
* code generator, interface: every label is defined once and every jump
  resolves; arguments are in the registers of the System V ABI, and stay there;
  conversions that are documented are generated;
* code generator, instructions: the code of each call computes what the source
  means, whatever the code before it left in registers and memory; calls are
  aligned; `main` returns to its caller; loops visit their range and end;
* global data: a store to a 64-bit variable changes no other 64-bit variable;
  which variables one to a BOOLEAN or a CHAR may damage is bounded;
* declarations and includes: the tables are what the main block relies on; no
  name changes its meaning; a path is read once; lexer, token and file name are
  restored together; an error names the files that led to it, in order;
* lexer: lexemes are read as what they are; a comment ends where it should;
* driver: success means that what the options ask for is there; a failure leaves
  files alone.

## 2. The modules

| Module | What it is |
|---|---|
| `CeriTypes` | `enum class Type`, `check_type`, the table of pointer types and `create_type` |
| `CodeGenCalls` | a call of a `CodeGen` method as a record, what its code pops and pushes, and which calls end in `bug()` |
| `StackCode` | abstract specification: a well-typed stack program |
| `Parser` | the main block: every function of the descent, every check, every call to the code generator |
| `ParserProps` | its properties, the refinement of `StackCode`, the inductive invariant |
| `ParserLabels` | `Parser` with the labels of the code it writes |
| `ArgumentRegisters` | the argument registers of the code |
| `ValueCode` | abstract specification: `StackCode` with values, what the source means |
| `Words` | integers, doubles and characters as words of a few bits |
| `Assembly` | the instructions each method of `CodeGen` writes |
| `X86` | the processor, the stack, and the functions called (external) |
| `OperandMachine` | straight-line programs on the processor, the refinement of `ValueCode` |
| `LoopMachine` | whole programs with `FOR`, `WHILE` and `IF` on the processor |
| `Variables` | abstract specification: independent variables, and small ones |
| `GlobalData` | the `.data` section byte by byte, the refinement of `Variables` |
| `Declarations` | `VAR`, `TYPE`, `FFI` and `INCLUDE`: the tables, and the stack of lexers |
| `DeclarationProps` | their properties |
| `Lexer` | the rules of `tokeniser.l`, longest match, comments |
| `Driver` | options, files, the compiler as one step, the linker, the exit status |
| `ParserProofs`, `InstructionProofs`, `MachineProofs`, `LoopProofs`, `GlobalDataProofs`, `DeclarationProofs`, `LexerProofs`, `DriverProofs` | theorems and their proofs (section 4) |
| `MCParser`, `MCMachine`, `MCLoops`, `MCGlobalData`, `MCDeclarations`, `MCLexer`, `MCDriver` | small instances for TLC |

They meet at four places, as the parts of the compiler do:

* `Declarations` leaves the tables which `Parser` takes as constants:
  `TablesAreWellFormed`, proved of the former, is `DeclarationsAssumption`, on
  which the proofs about the latter rest;
* `TypedCalls` (`CodeGenCalls`) is the set of the calls that compute, assign or
  pass a value, with the types the language gives them. `CallsAreTyped`, proved
  of `Parser`, says that it makes no others, and `StackCode` that their operands
  are on the stack; `OperandMachine` chooses among just these
  (`Possible`), and its theorems show their code right in every order that the
  types allow. The composition of the two, minus the nesting of calls and the
  jumps, is the refinement of `ValueCode` by the compiler;
* `ParserLabels` shows that jumps find their labels, and `LoopMachine` runs them;
* `Lexer` yields the tokens `Parser` and `Declarations` choose freely; `Driver`
  knows of all of them only how they end.

### How Parser corresponds to the code

The C++ call stack is the variable `frames`: one record per active `parse_*`
function that waits for another one, with the locals that matter (`first_type`,
`op_token`, `name`, `dereference_stack`, `i`, the counters of its
`FunctionCall`, the `saved_tag` of its statement object). `pc` is the point
where the innermost function runs: being entered (`"expression"`, `"factor"`,
...), at a point after a token, or returning (`"return"` for a function that
returns a type, `"type_done"` for `parse_type`, `"done"` for a statement).
`result` is the value returned. An action is the code between two such points:
its guards are the tests on the token, on the types and on the tables; a check
that fails sets `status` to `"error"` in the same action, a call to `bug()` to
`"bug"`. `"uncaught"` stands for `std::out_of_range`, which `std::stoull` and
`std::stod` throw, and which no handler of the compiler catches. A step that
emits code before the check that fails keeps that call in `emitted`
(`CheckedAfter`: assignments, `FOR`).

The source text is not fixed: `ReadToken` chooses any token of `Tokens`, or the
end of the file. An identifier is represented by its name. The behaviours of
`Parser` are those of the compiler on all texts over `Tokens`, well-formed or
not. The tables of declarations are constants; `DeclarationsAssumption` says
what every run of the declaration parser leaves in them.

`operands` and `ignored` are history variables, not state of the compiler: the
types of the values which the code emitted so far leaves on the run-time stack
(in the order of the code, one pass over it), and how many of them are results
of functions called as statements, which the code never pops.

### How the other modules correspond to the code

**Instructions.** `Assembly!Code` gives, for each method of `CodeGen`, the
instructions it writes, in its order; an instruction is a record of mnemonic,
source and destination. `X86` runs them one at a time on words of `WordBits`
bits. Doubles are half of the words (`Words`): some numbers with signs, and
NaN. The bitwise operations are constants of `X86`, of which only
`BitwiseAssumption` is used in the proofs; the instances take those of the
community module `Bitwise`. `OperandMachine` chooses the next call when the code of the last one has
run (`BeginOperation`): any call whose operands have the types on the stack. At
these points, and only there, the stack, the variables and the arguments mean
the state of `ValueCode`, and `ImplementsValueCode` says that each call does to
them what it should. `Defects` names calls whose code does not: with the
constant as it is in `Machine.cfg` they are left out, so that the run is about
the rest (section 3, divergences). A called function leaves `Junk` in the
registers it may change.

**Loops.** `LoopMachine` composes the code of the calls for `FOR`, `WHILE` and
`IF` in the order of `parse_for_statement`, `parse_while_statement` and
`parse_if_statement`, and runs the program whole, jumps included. `For`,
`While` and `If` take the code of their parts, so that they nest as the
functions of the parser do. `shown` is what `DISPLAY` was given.

**Global data.** `DefineGlobalVariable` takes the variables in any order, since
the code walks an `unordered_map`. `location` is the location counter of the
assembler, from which a variable has its address. The widths are those of the
directives, the accesses those of `load_variable` and `store_variable`. `stored`
is a history variable: the variable stored to last, if any. `Variables` says what
a program may count on: a load right after a store yields what was stored, and
only stores to the variables of `Small` (BOOLEAN, CHAR) reach others.

**Declarations and includes.** As in `Parser`, `pc` is the point a function has
reached and `ReadToken` chooses the next token. The one function active more
than once is `parse_include`: `lexers`, `files` and `saved` are `m_lexer` with
the lexers put aside, `m_file_name_stack`, and the tokens saved. They are three
variables because the code keeps three, and changes them one by one. `Raise`
is `error()`; its exception leaves one file with each `Unwind`, which restores
the state and adds a note, as the handler of `parse_include` does. All files
draw their tokens from one `MaxTokens`.

**Lexer.** The state is a position in a text, and `start`, where the comment
being skipped began. `Fixed` has the texts of each rule without a pattern,
`RuleFor` is the first rule that matches a text, `Match` takes the longest text
that has one. `Echo` is the default rule of flex, which writes the character to
the output of the lexer. That output is the assembly.

**Driver.** `step` is the place in `main`. Of a file only the kind of its
content matters; a stream that was written but not closed has left `"partial"`
in its file. The compiler is one step with the outcomes the other modules give
it: accepted, an error, or an exception nobody catches (134 is the status of
`abort`). `assembly_stdout` is not initialised: without its option it may have
either value. `SuccessMeansResults` therefore does not look at the flags but at
the options (`line`). Files of an earlier compilation may be there at the start,
and a gcc that fails may have removed or half written the program.

### Variants

The operators named in a comment `(A variant: ...)` are not used by the
specification. Each is a plausible mistake in the function it precedes, and
makes one of the properties fail when it replaces it: this is how we know that
the runs can see such a mistake.

## 3. What is checked

| Run | Distinct states | Shows |
|---|---|---|
| `programs` | 1 782 063 | `OperandsMatchActivations`, `ImplementsStackCode`: each activation finds its operands, the calls are a well-typed stack program. `PointerTypesAreUnique`, `CallsAreTyped`, `LoopVariablesAreIntegers`. `LabelsDefinedOnce`, `JumpsResolve`. `ArgumentsFollowABI` |
| `texts` | 559 539 | `TypeOK`, `IInv` (the invariant of the proofs), `StatementsAreBalanced`, `Terminates`, on ill-formed texts too |
| `machine` | 628 113 | `ImplementsValueCode`, `X87StackIsEmpty`, `CallsAreAligned`, `ReturnsToCaller`, `TypeOK` |
| `loops` | 5 312 | `LoopsVisitTheirRange`, `IterationsKeepTheStack`, `ProgramsEnd` |
| `global_data` | 9 305 | `ImplementsVariables`, `StoresSpillUpwards` |
| `declarations` | 657 698 | `TablesAreWellFormed`, `DeclarationsAreFinal`, `StateBelongsToLexer`, `PathsAreReadOnce`, `IncludersAreNamed`, `TypeOK`, `Terminates` |
| `lexer` | 42 847 | `LexemesAreRead`, `CommentsEndAtFirstClose`, `ReachesTheEnd` |
| `driver` | 18 200 | `SuccessMeansResults`, `LinksCompiledAssembly`, `FailuresKeepFiles` |
| `nested_arguments` | | `ArgumentsSurvive` is violated (finding) |
| `documented_conversions` | | `ConversionsSupported` is violated (finding) |
| `operators` | | `OperatorsAsDocumented` is violated (finding) |
| `linker_status` | | `FailedLinksAreReported` is violated (finding) |

### Bounds, and why they are enough

Where a run asks its question of several sets of tokens or calls, these are its
*profiles*: a behaviour keeps to one of them (`profile`), and each has a length
of its own. A profile only restricts which tokens may be read, never which
steps the program takes.

* **Parser.** The declarations are those of one small program: variables of all
  concrete types, a pointer and a pointer to a pointer, a type name, and
  foreign functions with none, two and three parameters, with and without a
  result, with a result the code generator supports and with one it refuses.
  There are two registers of each kind instead of six and eight, so that three
  arguments already exhaust them. `BEGIN`, `END` and `.` are three tokens, so 9
  tokens (operators, statements) hold an expression of three operands or one
  in parentheses below another operator; 10 (calls, results, pointers) hold a
  call inside the arguments of a call and an assignment through a pointer to a
  pointer; 12 (arguments, labels) hold two conditional statements, in sequence
  or nested, with a comparison. 5 tokens of nearly all kinds reach every
  check of every construct with a wrong token.
* **Machine.** Words of 3 bits hold numbers on both sides of the largest signed
  one, immediates (2 bits) and characters (2 bits) are shorter than words, as
  32 and 8 bits are shorter than 64. 5 calls hold two operands, an operator,
  and a use of its result on top of what is left on the stack; 7 are needed to
  make `&&` differ from its first operand. Every profile (integers and
  Booleans, doubles, functions and `DISPLAY`, pointers) ends its programs with
  `finalize_main_procedure`. The functions have two integers, two doubles, one
  of each in the other order, a CHAR and a BOOLEAN for parameters, so that both
  classes of registers and both short types are passed; they return a word, a
  CHAR, a DOUBLE or nothing.
* **Loops.** Every pair of bounds on one side of the largest signed number.
* **Global data.** Two variables of a word of two bytes and two of one byte, in
  every order: one-byte variables beside each other and on both sides of words,
  and the last one of the section.
* **Declarations.** 13 tokens of `TYPE` hold two definitions with pointers and
  an error after them, 11 of `FFI` two parameters and a result, 7 of `VAR` two
  names or two declarations, 13 of `INCLUDE` files three deep, 10 of all kinds
  a declaration on both sides of an included one. The files are the main one,
  one beside it, one in a lookup directory, and one that does not exist.
* **Lexer.** All pairs of 18 lexemes, at least one for each rule with a pattern
  and for operators that begin others, with blanks or a comment between; all
  texts of up to 6 of the characters `(`, `*`, `)` and one no rule matches.
* **Driver.** All combinations of the options; three kinds of source text, or no
  source; assembly and program of an earlier compilation, or none.

The lengths are the only bounds. Every mistake of the variants is found within
them, and the results that matter most do not depend on them (section 4).

### Fairness

Each of these programs is one sequential process that never waits, so weak
fairness of the whole next-state relation is what its scheduling gives: it
keeps running. `Terminates` then says that no loop of the descent runs for
ever, the end of the file being repeated by the lexer, and that files which
include each other end; `ReachesTheEnd` and `ProgramsEnd` say the same of the
lexer and of generated code. A program that has ended stutters by a step of its own
(`Stopped`, `AtEnd`, `Exited`), so deadlock checking stays on: before that there
is always a step.

### Findings

* **Arguments of an enclosing call are overwritten** (`nested_arguments`):
  arguments go to their registers as they are parsed (`compiler.cpp:297`), so
  `f(1, f(1, 1))` overwrites `%rdi` before the outer call. `*`, `/` and `%` on
  integers do the same to `%rdx`. README.md:50 promises the System V ABI.
* **CHAR cannot be converted to INTEGER** (`documented_conversions`):
  `codegen.cpp:297` tests the destination where the source is meant. README.md:64
  lists `CHAR` <=> `INTEGER` as supported.
* **`%` yields the quotient** (`operators`): `alu_modulus` pushes `%rax`
  (`codegen.cpp:249`) where its comment says that the remainder is in `%rdx`;
  README.md:75 lists `%`. In the same run, `&&` computes into `%rbx` and pushes
  `%rax`, its first operand (`codegen.cpp:117`).
* **A linker that fails is reported as success** (`linker_status`): `main.cpp:159`
  passes the status of `std::system` to `exit`, which keeps its low 8 bits; gcc
  exiting with 1 is 256. tests/CMakeLists.txt:2 relies on the contrary.

### Divergences without a run of their own

No document promises the contrary of these in so many words, or a finding
stands for several of the kind. The modules show them when a constant is
changed:

* `"sign"` or `"character"` in `Defects` of `Machine.cfg`: `ImplementsValueCode`
  fails. An INTEGER of 2^63 or more becomes a negative DOUBLE (`fildq` is
  signed); a DOUBLE becomes a CHAR without a conversion. `"conjunction"` and
  `"remainder"` are those of the finding. Literals from 2^31 to 2^32 - 1
  (`"immediate"`) are refused by the assembler, or sign-extended.
* `Bounds <- AllBounds` in `Loops.cfg`: `LoopsVisitTheirRange` fails. `FOR`
  compares with the signed `jl`; an upper bound of 2^63 - 1 never ends.
* `Inputs <- Arguments` in `Lexer.cfg`: `LexemesAreRead` fails. A comma and a
  character literal become one unknown token, since the last rule takes the
  longest run of characters outside its list, and that list lacks the comma.

Two are in the behaviours of the passing runs, whose properties say what holds
all the same:

* A store to a BOOLEAN or a CHAR overwrites variables placed after it: these take
  one byte and are accessed with 64-bit instructions, of which
  `codegen.cpp:47-48` says "Realistically, this does not matter, though".
  `StoresSpillUpwards` bounds the damage (only such stores, only upwards, only
  within the word), `ImplementsVariables` says that 64-bit variables are safe from
  each other.
* README.md:43 says that the assembly goes to the standard output by default, the
  help text (`main.cpp:39`) that it goes to a file based on the input file; the
  code decides by a flag without a value (`main.cpp:13`, `69-72`), and with a
  source from the standard input the file is called `.s`. For a command line that
  names no place, `SuccessMeansResults` says that the assembly is complete in one
  of the two places; for one that does, that it is there.

Others are what the models do, and no property forbids: `VAR` takes any token
for the name of a variable; lists of parameters may begin or end with commas;
`main` does not preserve `%rbx`, `%rbp` and `%r12`; `--assembly-stdout` with `--program-output` gives gcc an empty path; a
literal that `std::stoull` does not take ends the compiler with an exception
nobody catches; characters no rule matches are written into the assembly.

## 4. What is proved

For every value of the constants that satisfies the named assumptions: any
names, declarations, files, number of registers, command lines, any width of
words, any variables, literals and functions, and any length of the texts and
of the sequences of calls. The assumptions are

* `DeclarationsAssumption` (`Parser`): the tables are as `DeclarationProofs`
  shows that the declarations leave them; `RegistersAssumption`
  (`CodeGenCalls`): numbers of registers are natural numbers;
* `TokensAssumption` (`Declarations`): the end of a file is none of the tokens
  in it;
* `OutputsAssumption` (`Driver`): program and assembly have different names;
* `TextsAssumption` (`Lexer`): the lengths of texts and their parts, as the
  provers know nothing of strings; `GlobalDataAssumption`: a word has bytes;
* `WordsAssumption`, `PowersAssumption` (`Words`): a word has at least two
  bits, and immediates and characters no more than a word; what this means for
  powers of two, of which the provers know nothing;
* `BitwiseAssumption` (`X86`): what the generated code needs of `and`, `or` and
  `xor`: exchanging two words with `pxor`, Booleans, and the last bit of the
  stack pointer. TLC evaluates it with the operators of `Bitwise`;
* `MemoryAssumption` (`X86`): the stack is entered aligned, variables have
  different addresses other than 0, and no variable is called like a register;
* `SignatureAssumption` (`X86`): arguments fit into the registers of their
  class, and results have types that can be returned, since the code generator
  reports a bug for others; and no function of
  the program is called `printf` or `fmod`, as the model takes a call of these
  for one that `CodeGen` makes for `DISPLAY` or `%` (`std/stdc/math.pas` declares
  an `fmod`, with the parameters of the latter: programs that call it are left
  out);
* `ProgramAssumption` (`OperandMachine`): variables and pointers have types
  with values, literals are words, and the memory for the stack is large enough
  for the number of calls;
* `LoopsAssumption` (`LoopMachine`): the counters of the two loops are different
  variables, bounds are words, and the memory of the stack is at least four
  words.

### The main block (`ParserProofs`)

* `StructureHolds` : `Spec => []Structure`. `Structure` is inductive. It says
  that the variables have their types; that an activation only waits below one
  that can have started it, and only runs at a point of its own function
  (`Nesting`, with the tables `RunsIn` and `Parents`); that pointer types are
  unique and declared ones keep their meaning (`TableKept`); and what each
  activation knows: its operator belongs to its level, its function is
  declared, its `dereference_stack` follows the type of its variable
  (`FramesResolved`). `TypeOK` alone is not inductive: that `DerefTarget` or
  `LoadTarget` looks up a name that exists depends on how its activation was
  started, and that `EndMain` leaves no activation depends on the nesting.
  `TypeCorrect` and `PointersUnique` follow.
* `StackInvariant`, and from it `OperandsFound`, `StatementsBalance` and
  `ParserImplementsStackCode`: the operand stack, and the refinement of
  `StackCode`. `IInv`, that is `Structure`, `OperandsMatchActivations` and
  `BasesAscend`, is inductive. `BasesAscend` carries the operand of an outer
  activation over the code of inner ones: a step changes the operand stack only
  above the base of the activation it runs in, and every operand held lies
  below.
* `CallsTyped` and `LoopsCountIntegers`: the types that calls name from
  `Structure` alone, as `FramesResolved` knows the operator, the function and
  the first operand's type of each activation, and follows the pointers of an
  assignment;
  the variable of a `FOR` from `LoopsResolved`, which says of each waiting loop
  that its name is an INTEGER variable, and of an assignment in its header that
  it returns one or none.
* `LabelsUnique` and `JumpsFound`: `LabelInv` gives each tag taken to one
  activation, which knows the labels it has written and those it still has to
  write; a jump owed is a label of the second kind. It speaks of runs that are
  still parsing, since the step of a `FOR` that fails its check has written a
  label already and takes no tag. The labels come on top of `Parser`: `LNext`
  implies `Next`, and `Structure` is used again.
* `ArgumentsPassed`: `ArgumentInv` says that the counters of each call are the
  numbers (cardinalities) of its arguments of each class so far, and that a
  call waiting for an argument has a parameter for it. Only `CallParam` changes
  a counter, and of its own activation only.

They have one lemma per action, and reduce to a few lemmas about what remains
true when an activation is pushed, replaced or popped (`StructurePush`,
`StructureBecome`, `StructurePop`; `StackPush` ... `StackSame`; `TagsStep`;
`BesidePush`, `BesideBecome`).

### Instructions

`CodeKeepsMeaning` : `Spec => []IInv` (`MachineProofs`, on the lemmas of
`InstructionProofs`) is about the processor. What the runs check holds between
two calls of `CodeGen`; within the code of a call the stack, the registers and
the flags pass through states that mean nothing to the source. So `IInv` has
two halves:

* between two calls, every word on the stack and in the variables is one of its
  type (`Sound`: a BOOLEAN is 0 or all ones, a pointer 0 or the address of a
  variable of the type it points to); the last call has pushed a value it
  should (`Yields`), and has changed variables, passed arguments and told
  functions what it should (`Effects`); the x87 stack is empty (`Remains`);
* within the code of a call, `before` is what the state meant when it began,
  and `Points` says, for each kind of call and each of its instructions, where
  the operands are: on the stack, in which register, on the x87 stack, as
  flags. The code of function calls is the same in three kinds of calls;
  `Segment` is where it begins, and `AtSegment` speaks of it once. In it the
  number of words on the stack depends on the alignment of `%rsp`, which `%r12`
  remembers.

`Slots` ties the types on the stack to those of the calls, `Kept` says that
arguments passed earlier are still in their registers, as only the calls of
`ChangesArguments` change these, and `Careful` that a conversion of an integer
with the highest bit set is not among the calls when `Defects` leaves it out.

There is a lemma for each instruction of each call (`Run...`), which reduces
the step of the processor to the next conjunct of `Points` or, for the last
instruction, to the boundary. `BeginStep` and `EndStep` show that a call finds
the operands it expects. `MachineTypeCorrect`, `DoublesAreRemoved`,
`MainReturns` and `StackIsAligned` follow for all values of `Defects`: wrong
values do no harm to the stack.

`CodeImplementsValueCode` is the refinement, `Spec => ImplementsValueCode`, if
`Defects \subseteq {"immediate"}`. Within the code of a call the mapping `At`
gives the state before it, so a step of the processor either changes nothing or
is the last one, and `before' = At` in every step (`Remembered`). Of the last
one `Accomplished` says what `Compute` asks, from `Yields`, `Effects` and
`Intact`. The hypothesis leaves out the calls with a defect (section 3). A
literal that the assembler refuses need not be left out, as it stops the
program.

### Loops

`LoopsKeepTheStack` and `LoopsCount` (`LoopProofs`) are about the programs with
one `FOR` or one `WHILE` (`Kinds \subseteq {"for", "while"}`), from `main` to its
`ret`, for words of any width and all bounds.

* *Where the code lies.* The program is the codes of its calls one after
  another. `Split` and `At` say that a part of a sequence is at an index of it;
  `ForProgram` and `WhileProgram` compute from them the layouts `ForLayout` and
  `WhileLayout`, in which only the length of a literal is variable (`Width`:
  one instruction, or two if it needs more bits than an immediate has). From
  them `ForLabels` and `WhileLabels` find the labels: each jump leads to the one
  label of its name, no other instruction of the program being that label.
* *What a round does.* `LoopInv` is inductive. It has a disjunct for each
  instruction (`InFor`, `InWhile`, built from `InLiteral`, `InShow`,
  `InCondition`, `InIncrement` for the calls in them), which says what is on the
  stack and in the registers and flags that are read later. `History` ties what
  has been displayed to the counter: before a round it is the first bound plus
  the number of values displayed (`BeforeRound`), within one it is one behind
  (`AfterDisplay`). Neither half is inductive alone: that a round is the last
  one is known from the flags that the comparison left, and where these came
  from is known only from the layout.
* *What the comparison means.* `ForTest` and `WhileTest` go from the signed `jl`
  and the unsigned `jbe` to the number of rounds. `LoopsCount` assumes for a
  `FOR` that its bounds are on the same side of the largest signed number, and
  that the second one is not that number: this is the hypothesis under which
  `jl` is right. It holds of `SameSide`, the bounds of the run; with all bounds
  TLC finds the property violated (section 3). A `WHILE` needs only that its
  bound is not the largest word, above which no counter gets (`Init`).
  `LoopsKeepTheStack` assumes nothing of the bounds.
* *Which bodies.* The bodies display the counter. Statements in general leave the
  stack as they found it (`StatementsBalance`) but for one: a call whose result is
  ignored leaves it there, in a loop once for each iteration.

### Declarations and includes

`DeclarationProofs` has an invariant of two parts. `TableInv` is about the
tables and the locals of the declaration being parsed;
`DeclarationTypeCorrect`, `DeclarationsTyped` and `DeclarationsKept` follow,
with the lemma `CreateType`, on which the parser's proof rests as well (each of
the two modules proves it). `ReadingInv` is about files: lexers, tokens and
names belong together, every file opened is in `m_includes`, and the files on
the stack, like the messages, form a chain of includes. Every action is one of eight kinds of steps
as far as files go (`Continues`, `Finishes`, `Fails`, `Passes`, `Begins`, ...),
so that the invariant is shown for the eight kinds. `StateRestored`,
`PathsReadOnce` and `IncludersNamed` follow.

### Global data and the lexer

* `VariablesAreIndependent` (`GlobalDataProofs`) is the refinement of
  `Variables`, and `SpillsGoUpwards` the bound on what stores to one-byte
  variables damage, both for variables of all types. The invariant says that the
  own bytes of the variables defined lie apart from each other below the location
  counter, and that the section goes on for a word after it.
* `CommentsEnd` (`LexerProofs`) : `Spec => CommentsEndAtFirstClose`. The
  invariant says that the part of a comment already skipped does not close it;
  a `*` just read may do so only with the character after it, which is why the
  code has to put that character back.

### The driver

`DriverProofs`: `SuccessIsReal`, `LinkerSeesAssembly` and
`FailuresAreContained`, from `DriverInv`, which says for each step of `main`
what files and streams hold before it. `FlagsFollow` is the part that ties the
flags to the options, whatever the uninitialised one held when they were parsed:
only when the options name no place may it choose one. `OutputsAssumption` is
needed: if the program is to be written to the file of its own assembly, the
assembly is gone.

### Only model-checked

* Liveness (`Terminates`, `ProgramsEnd`, `ReachesTheEnd`): out of the prover's
  reach.
* The two properties of the loops for programs with nested loops and with `IF`
  (`"nested"` and `"if"` of `Kinds`): the values they display are `FlattenSeq`
  of the inner ones, which is defined by recursion. The code of `IF` and of a
  loop in a loop is run by `loops` only.
* `LexemesAreRead`: the rules are about the characters of strings, which the
  prover does not take apart.
* That TLC's operators for bits satisfy `BitwiseAssumption` for more than the
  widths of the instances.

## 5. What is not modelled

* texts, colours and line numbers of diagnostics, and the `string_view` they
  are passed in: that `error()` and `bug()` end the compilation, and which
  files the messages name, is modelled;
* the mangling of function names per target, and the `.s` syntax apart from
  instructions;
* the order of the lookup directories, which decides only which of two files of
  the same name is read;
* build files and tests, read for what they expect of the compiler;
* what a comparison with NaN yields, and a conversion of a value its
  destination cannot hold: no document says, `ValueCode` leaves it open;
* a grammar as a reference for which texts the parser accepts: the one in the
  repository's README "includes some approximations", and a recogniser derived
  from the code would restate the code;
* writes that fail (a full disk): the code does not look at the state of its
  streams after opening them, and neither does `Driver`;
* the rounding of `fistpq` and of operations on doubles: the doubles of `Words`
  are integers and NaN.

Every other part of the compiler that changes state is an action of a module.
