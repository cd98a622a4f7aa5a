----------------------------- MODULE DriverProofs -----------------------------
(***************************************************************************)
(* Proofs about the driver, for every set of command lines and whatever    *)
(* the compiler and the linker do.                                         *)
(***************************************************************************)
EXTENDS Driver, TLAPS

Paths == {"a.out", DefaultAssembly(line.source), line.source, line.assembly, line.program} \ {""}

Given == IF line.source = "" THEN stdin ELSE before[line.source]

\* Every file but the assembly is as it was.
Untouched == \A p \in DOMAIN files \ {flags.assembly_path} : files[p] = before[p]

FilesOK == /\ line \in CommandLines
           /\ files = [p \in Paths |-> files[p]]
           /\ before = [p \in Paths |-> before[p]]

\* The files that will be written, once the command line is parsed.
FlagsOK ==
  /\ flags.assembly_path \in {"", line.assembly, DefaultAssembly(line.source)}
  /\ flags.should_link => flags.program_path \in {"a.out", line.program} \ {""}

\* They are those the options ask for; the assembly goes nowhere else when they say where.
FlagsFollow ==
  /\ line.stdout => flags.assembly_path = ""
  /\ line.assembly # "" => flags.assembly_path = line.assembly
  /\ flags.should_link <=> AsksForLink
  /\ AsksForLink => flags.program_path = ProgramAsked

Steps == {"parse", "open_source", "open_assembly", "compile", "close", "link", "exited"}

SourceExists == line.source # "" => before[line.source] # "none"

StepOK ==
  /\ step \in Steps
  /\ step # "exited" => linker = 0
  /\ step \in {"open_source", "open_assembly", "compile", "close", "link"} => FlagsFollow
  /\ step \in {"parse", "open_source", "open_assembly"} => files = before
  /\ step \in {"open_assembly", "compile", "close", "link"} => SourceExists
  /\ step \in {"compile", "close", "link"} => Untouched
  /\ step = "compile" /\ flags.assembly_path # "" => files[flags.assembly_path] = "empty"
  /\ step \in {"close", "link"} => Given = "program"
  /\ step \in {"close", "link"} /\ flags.assembly_path = "" => stdout = "partial"
  /\ step = "link" /\ flags.assembly_path # "" => files[flags.assembly_path] = "assembly"

DriverInv == FilesOK /\ FlagsOK /\ StepOK /\ SuccessMeansResults /\ FailuresKeepFiles

LEMMA Assembly ==
  ASSUME DriverInv, flags.assembly_path # ""
  PROVE  flags.assembly_path \in DOMAIN files
BY DEF DriverInv, FilesOK, FlagsOK, Paths

LEMMA Program ==
  ASSUME DriverInv, flags.should_link
  PROVE  flags.program_path \in DOMAIN files /\ flags.program_path # flags.assembly_path
<1>1. flags.program_path \in {"a.out", line.program} \ {""}
  BY DEF DriverInv, FlagsOK
<1>2. flags.program_path # line.assembly /\ flags.program_path # DefaultAssembly(line.source)
  BY <1>1, OutputsAssumption DEF DriverInv, FilesOK
<1>3. flags.program_path \in DOMAIN files
  BY <1>1 DEF DriverInv, FilesOK, Paths
<1> QED BY <1>1, <1>2, <1>3 DEF DriverInv, FlagsOK

LEMMA ExitsWith ==
  /\ \A code : Exits(code) => step' = "exited" /\ status' = code % 256
  /\ 0 % 256 = 0 /\ 1 % 256 = 1 /\ 134 % 256 = 134
BY DEF Exits

\* After the options are parsed, nothing changes what they ask for.
LEMMA FlagsKept ==
  ASSUME DriverInv, step \notin {"parse", "exited"}, UNCHANGED <<line, flags>>
  PROVE  FlagsFollow /\ FlagsFollow'
<1>1. FlagsFollow
  BY DEF DriverInv, StepOK, Steps
<1> QED BY <1>1 DEF FlagsFollow, AsksForLink, ProgramAsked

\* Nothing but the step and the flags changes.
LEMMA ParseOK ==
  ASSUME DriverInv, Parse
  PROVE  DriverInv'
<1>1. step = "parse" /\ UNCHANGED <<line, files, stdin, stdout, linker, before>> /\ files = before
  BY DEF Parse, DriverInv, StepOK
<1>2. FilesOK'
  BY <1>1 DEF DriverInv, FilesOK, Paths
<1>3. CASE Excluded /\ Exits(1) /\ UNCHANGED flags
  <2>1. step' = "exited" /\ status' = 1
    BY <1>3, ExitsWith
  <2>2. FlagsOK'
    BY <1>1, <1>3 DEF DriverInv, FlagsOK
  <2>3. StepOK'
    BY <2>1 DEF StepOK, Steps
  <2>4. SuccessMeansResults' /\ FailuresKeepFiles'
    BY <1>1, <2>1 DEF SuccessMeansResults, FailuresKeepFiles
  <2> QED BY <1>2, <2>2, <2>3, <2>4 DEF DriverInv
<1>4. CASE ~Excluded
  <2>1. PICK assembly_stdout \in AssemblyStdout :
          LET should_link == line.link \/ line.program # "" IN
          flags' = [assembly_path |-> IF assembly_stdout \/ line.assembly # ""
                                      THEN line.assembly ELSE DefaultAssembly(line.source),
                    program_path  |-> IF should_link /\ line.program = "" THEN "a.out"
                                      ELSE line.program,
                    should_link   |-> should_link]
    BY <1>4 DEF Parse
  <2>2. FlagsOK'
    BY <1>1, <2>1 DEF FlagsOK
  <2>3. step' = "open_source"
    BY <1>4 DEF Parse
  <2>4. FlagsFollow'
    <3>1. AsksForLink' = AsksForLink /\ ProgramAsked' = ProgramAsked /\ line' = line
      BY <1>1 DEF AsksForLink, ProgramAsked
    <3>2. /\ flags'.assembly_path = IF assembly_stdout \/ line.assembly # "" THEN line.assembly
                                    ELSE DefaultAssembly(line.source)
          /\ flags'.program_path = IF AsksForLink /\ line.program = "" THEN "a.out" ELSE line.program
          /\ flags'.should_link = AsksForLink
      BY <2>1 DEF AsksForLink
    <3>3. line.stdout => assembly_stdout = TRUE /\ line.assembly = ""
      BY <1>4 DEF AssemblyStdout, Excluded
    <3> QED BY <3>1, <3>2, <3>3 DEF FlagsFollow, ProgramAsked
  <2> QED BY <1>1, <1>2, <2>2, <2>3, <2>4
          DEF DriverInv, StepOK, Steps, SuccessMeansResults, FailuresKeepFiles, Done
<1> QED BY <1>3, <1>4 DEF Parse

LEMMA OpenSourceOK ==
  ASSUME DriverInv, OpenSource
  PROVE  DriverInv'
<1>1. /\ step = "open_source" /\ files = before
      /\ UNCHANGED <<line, flags, files, stdin, stdout, linker, before>>
  BY DEF OpenSource, DriverInv, StepOK
<1>2. FilesOK' /\ FlagsOK'
  BY <1>1 DEF DriverInv, FilesOK, FlagsOK, Paths
<1>3. CASE line.source # "" /\ files[line.source] = "none"
  <2>1. step' = "exited" /\ status' = 1
    BY <1>3, ExitsWith DEF OpenSource
  <2> QED BY <1>1, <1>2, <2>1
          DEF DriverInv, StepOK, Steps, SuccessMeansResults, FailuresKeepFiles, Done
<1>4. CASE ~(line.source # "" /\ files[line.source] = "none")
  <2>1. step' = "open_assembly"
    BY <1>4 DEF OpenSource
  <2>2. FlagsFollow'
    BY <1>1, FlagsKept
  <2> QED BY <1>1, <1>2, <1>4, <2>1, <2>2
          DEF DriverInv, StepOK, Steps, SuccessMeansResults, FailuresKeepFiles, Done, SourceExists
<1> QED BY <1>3, <1>4

\* The assembly is the only file whose content a step gives.
AssemblyBecomes(content) ==
  /\ flags.assembly_path # ""
  /\ files' = [files EXCEPT ![flags.assembly_path] = content]

LEMMA WrittenOK ==
  ASSUME DriverInv, Untouched, UNCHANGED <<line, flags, before>>,
         files' = files \/ \E content : AssemblyBecomes(content)
  PROVE  FilesOK' /\ FlagsOK' /\ Untouched'
<1>1. FlagsOK' /\ Paths' = Paths
  BY DEF DriverInv, FlagsOK, Paths
<1>2. CASE files' = files
  BY <1>1, <1>2 DEF DriverInv, FilesOK, Untouched
<1>3. CASE \E content : AssemblyBecomes(content)
  <2>1. PICK content : AssemblyBecomes(content)
    BY <1>3
  <2>2. files = [p \in Paths |-> files[p]] /\ before = [p \in Paths |-> before[p]] /\ line \in CommandLines
    BY DEF DriverInv, FilesOK
  <2>3. /\ DOMAIN files' = Paths /\ files' = [p \in Paths |-> files'[p]]
        /\ \A p \in Paths \ {flags.assembly_path} : files'[p] = files[p]
    BY <2>1, <2>2 DEF AssemblyBecomes
  <2>4. Untouched'
    BY <2>2, <2>3 DEF Untouched
  <2> QED BY <1>1, <2>2, <2>3, <2>4 DEF FilesOK
<1> QED BY <1>2, <1>3

LEMMA OpenAssemblyOK ==
  ASSUME DriverInv, OpenAssembly
  PROVE  DriverInv'
<1>1. /\ step = "open_assembly" /\ files = before /\ SourceExists /\ linker = 0
      /\ UNCHANGED <<line, flags, stdin, stdout, linker, before>>
  BY DEF OpenAssembly, DriverInv, StepOK
<1>2. Untouched /\ FlagsFollow'
  BY <1>1, FlagsKept DEF Untouched
<1>3. CASE flags.assembly_path # "" /\ Exits(1) /\ UNCHANGED files
  <2>1. step' = "exited" /\ status' = 1
    BY <1>3, ExitsWith
  <2>2. FilesOK' /\ FlagsOK' /\ Untouched'
    BY <1>1, <1>2, <1>3, WrittenOK
  <2>3. StepOK'
    BY <2>1 DEF StepOK, Steps
  <2>4. SuccessMeansResults'
    <3>1. status' # 0
      BY <2>1
    <3> QED BY <3>1 DEF SuccessMeansResults
  <2>5. files' = before'
    BY <1>1, <1>3
  <2>6. FailuresKeepFiles'
    BY <2>5 DEF FailuresKeepFiles
  <2> QED BY <2>2, <2>3, <2>4, <2>6 DEF DriverInv
<1>4. CASE flags.assembly_path = "" /\ step' = "compile" /\ UNCHANGED <<files, status>>
  <2>1. FilesOK' /\ FlagsOK' /\ Untouched'
    BY <1>1, <1>2, <1>4, WrittenOK
  <2> QED BY <1>1, <1>2, <1>4, <2>1
          DEF DriverInv, StepOK, Steps, SuccessMeansResults, FailuresKeepFiles, Done, SourceExists
<1>5. CASE AssemblyBecomes("empty") /\ step' = "compile"
  <2>1. FilesOK' /\ FlagsOK' /\ Untouched'
    BY <1>1, <1>2, <1>5, WrittenOK
  <2>2. files'[flags.assembly_path] = "empty"
    BY <1>5, Assembly DEF AssemblyBecomes
  <2> QED BY <1>1, <1>2, <1>5, <2>1, <2>2
          DEF DriverInv, StepOK, Steps, SuccessMeansResults, FailuresKeepFiles, Done, SourceExists
<1> QED BY <1>3, <1>4, <1>5 DEF OpenAssembly, AssemblyBecomes

LEMMA WritesOK ==
  ASSUME DriverInv, NEW content, Writes(content)
  PROVE  files' = files \/ AssemblyBecomes(content)
BY DEF Writes, AssemblyBecomes

\* A compilation that fails ends the program.
LEMMA CompileFailsOK ==
  ASSUME DriverInv, step = "compile", CompileFails, UNCHANGED <<line, flags, stdin, linker, before>>,
         step' = "exited", status' # 0
  PROVE  DriverInv'
<1>1. Untouched /\ SourceExists
  BY DEF DriverInv, StepOK
<1>2. files' = files \/ \E content : AssemblyBecomes(content)
  BY WritesOK DEF CompileFails
<1>3. FilesOK' /\ FlagsOK' /\ Untouched'
  BY <1>1, <1>2, WrittenOK
<1>4. FailuresKeepFiles'
  BY <1>1, <1>3 DEF FailuresKeepFiles, Untouched, SourceExists
<1> QED BY <1>3, <1>4 DEF DriverInv, StepOK, Steps, SuccessMeansResults

LEMMA CompileOK ==
  ASSUME DriverInv, Compile
  PROVE  DriverInv'
<1>1. step = "compile" /\ UNCHANGED <<line, flags, stdin, linker, before>>
  BY DEF Compile
<1>2. CASE Aborts
  <2>1. CompileFails /\ step' = "exited" /\ status' = 1
    BY <1>2, ExitsWith DEF Aborts
  <2> QED BY <1>1, <2>1, CompileFailsOK
<1>3. CASE Terminates
  <2>1. CompileFails /\ step' = "exited" /\ status' = 134
    BY <1>3, ExitsWith DEF Terminates
  <2> QED BY <1>1, <2>1, CompileFailsOK
<1>4. CASE Source = "program" /\ Writes("partial") /\ step' = "close" /\ UNCHANGED status
  <2>1. Untouched /\ SourceExists /\ linker = 0
    BY <1>1 DEF DriverInv, StepOK
  <2>2. FilesOK' /\ FlagsOK' /\ Untouched'
    BY <1>1, <1>4, <2>1, WritesOK, WrittenOK
  <2>3. Given = "program"
    <3>1. CASE line.source = ""
      BY <1>4, <3>1 DEF Source, Given
    <3>2. CASE line.source # ""
      <4>1. line.source \in DOMAIN files /\ files[line.source] = "program"
        BY <1>4, <3>2 DEF Source, DriverInv, FilesOK, Paths
      <4>2. line.source # flags.assembly_path
        BY <1>1, <3>2, <4>1 DEF DriverInv, StepOK
      <4> QED BY <2>1, <3>2, <4>1, <4>2 DEF Untouched, Given
    <3> QED BY <3>1, <3>2
  <2>4. flags.assembly_path = "" => stdout' = "partial"
    BY <1>4 DEF Writes
  <2>5. Given' = Given /\ SourceExists' /\ FlagsFollow'
    BY <1>1, <2>1, FlagsKept DEF Given, SourceExists
  <2> QED BY <1>1, <1>4, <2>1, <2>2, <2>3, <2>4, <2>5
          DEF DriverInv, StepOK, Steps, SuccessMeansResults, FailuresKeepFiles, Done
<1> QED BY <1>2, <1>3, <1>4 DEF Compile

LEMMA CloseStreamsOK ==
  ASSUME DriverInv, CloseStreams
  PROVE  DriverInv'
<1>1. /\ step = "close" /\ step' = "link"
      /\ UNCHANGED <<line, flags, stdin, linker, status, before>>
      /\ Untouched /\ SourceExists /\ Given = "program" /\ linker = 0
  BY DEF CloseStreams, DriverInv, StepOK
<1>2. Given' = Given /\ SourceExists' /\ FlagsFollow'
  BY <1>1, FlagsKept DEF Given, SourceExists
<1>3. CASE flags.assembly_path = "" /\ UNCHANGED <<files, stdout>>
  <2>1. FilesOK' /\ FlagsOK' /\ Untouched'
    BY <1>1, <1>3, WrittenOK
  <2> QED BY <1>1, <1>2, <1>3, <2>1
          DEF DriverInv, StepOK, Steps, SuccessMeansResults, FailuresKeepFiles, Done
<1>4. CASE AssemblyBecomes("assembly")
  <2>1. FilesOK' /\ FlagsOK' /\ Untouched'
    BY <1>1, <1>4, WrittenOK
  <2>2. flags.assembly_path # "" /\ files'[flags.assembly_path] = "assembly"
    BY <1>4, Assembly DEF AssemblyBecomes
  <2> QED BY <1>1, <1>2, <2>1, <2>2
          DEF DriverInv, StepOK, Steps, SuccessMeansResults, FailuresKeepFiles, Done
<1> QED BY <1>3, <1>4 DEF CloseStreams, Writes, AssemblyBecomes

\* What is on the standard output or in the assembly, and what was linked, is what the
\* options ask for.
LEMMA ResultsAsked ==
  ASSUME DriverInv, FlagsFollow, UNCHANGED <<line, flags>>, Given' = "program",
         flags.assembly_path = "" => stdout' = "assembly",
         flags.assembly_path # "" => files'[flags.assembly_path] = "assembly",
         flags.should_link => files'[flags.program_path] = "executable"
  PROVE  SuccessMeansResults'
<1>1. AsksForLink' = AsksForLink /\ ProgramAsked' = ProgramAsked /\ AsksForNoPlace' = AsksForNoPlace
  BY DEF AsksForLink, ProgramAsked, AsksForNoPlace
<1>2. line.stdout => stdout' = "assembly"
  BY DEF FlagsFollow
<1>3. line.assembly # "" => files'[line.assembly] = "assembly"
  BY DEF FlagsFollow
<1>4. AsksForNoPlace => stdout' = "assembly" \/ files'[DefaultAssembly(line.source)] = "assembly"
  BY DEF AsksForNoPlace, DriverInv, FlagsOK
<1>5. AsksForLink => files'[ProgramAsked] = "executable"
  BY DEF FlagsFollow
<1> QED BY <1>1, <1>2, <1>3, <1>4, <1>5 DEF SuccessMeansResults, Given

LEMMA LinkOK ==
  ASSUME DriverInv, Link
  PROVE  DriverInv'
<1>1. /\ step = "link" /\ UNCHANGED <<line, flags, stdin, before>>
      /\ Untouched /\ SourceExists /\ Given = "program" /\ linker = 0
      /\ flags.assembly_path = "" => stdout = "partial"
      /\ flags.assembly_path # "" => files[flags.assembly_path] = "assembly"
  BY DEF Link, DriverInv, StepOK
<1>2. Given' = Given /\ FlagsOK' /\ Paths' = Paths /\ FlagsFollow
  BY <1>1, FlagsKept DEF Given, DriverInv, FlagsOK, Paths
<1>3. step' = "exited" /\ stdout' = IF stdout = "partial" THEN "assembly" ELSE stdout
  BY ExitsWith DEF Link, Ends
<1>4. CASE ~flags.should_link /\ Ends(0) /\ UNCHANGED <<files, linker>>
  <2>1. status' = 0
    BY <1>4, ExitsWith DEF Ends
  <2>2. FilesOK'
    BY <1>1, <1>4, WrittenOK
  <2>3. SuccessMeansResults'
    BY <1>1, <1>2, <1>3, <1>4, ResultsAsked
  <2> QED BY <1>2, <1>3, <2>1, <2>2, <2>3 DEF DriverInv, StepOK, Steps, FailuresKeepFiles
<1>5. CASE /\ flags.should_link
           /\ flags.assembly_path # "" /\ files[flags.assembly_path] = "assembly"
           /\ files' = [files EXCEPT ![flags.program_path] = "executable"]
           /\ Ends(0) /\ UNCHANGED linker
  <2>1. status' = 0
    BY <1>5, ExitsWith DEF Ends
  <2>2. flags.program_path \in DOMAIN files /\ flags.program_path # flags.assembly_path
    BY <1>5, Program
  <2>3. FilesOK'
    BY <1>1, <1>2, <1>5, <2>2 DEF DriverInv, FilesOK
  <2>4. files'[flags.program_path] = "executable" /\ files'[flags.assembly_path] = "assembly"
    BY <1>5, <2>2, Assembly
  <2>5. SuccessMeansResults'
    BY <1>1, <1>2, <1>5, <2>4, ResultsAsked
  <2> QED BY <1>2, <1>3, <2>1, <2>3, <2>5 DEF DriverInv, StepOK, Steps, FailuresKeepFiles
<1>6. CASE /\ flags.should_link
           /\ linker' \in Failures
           /\ files' \in {files} \cup {[files EXCEPT ![flags.program_path] = c] : c \in {"none", "partial"}}
           /\ Ends(linker')
  <2>1. linker' # 0
    BY <1>6 DEF Failures
  <2>2. /\ files = [p \in Paths |-> files[p]] /\ before = [p \in Paths |-> before[p]]
        /\ line \in CommandLines
    BY DEF DriverInv, FilesOK
  <2>3. /\ files' = [p \in Paths |-> files'[p]]
        /\ \A p \in Paths \ {flags.program_path} : files'[p] = files[p]
    <3>1. CASE files' = files
      BY <2>2, <3>1
    <3>2. CASE \E c \in {"none", "partial"} : files' = [files EXCEPT ![flags.program_path] = c]
      BY <2>2, <3>2
    <3> QED BY <1>6, <3>1, <3>2
  <2>4. FilesOK' /\ DOMAIN files' = Paths /\ DOMAIN files = Paths
    BY <1>1, <1>2, <2>2, <2>3 DEF FilesOK
  <2>5. \A p \in DOMAIN files' \ {flags.assembly_path} :
          files'[p] = before[p] \/ p = flags.program_path
    BY <1>1, <2>3, <2>4 DEF Untouched
  <2>6. FailuresKeepFiles'
    BY <1>1, <2>1, <2>5 DEF FailuresKeepFiles, SourceExists
  <2> QED BY <1>2, <1>3, <2>1, <2>4, <2>6 DEF DriverInv, StepOK, Steps, SuccessMeansResults
<1> QED BY <1>4, <1>5, <1>6 DEF Link

LEMMA DriverInit ==
  ASSUME Init
  PROVE  DriverInv
<1>1. FilesOK
  BY DEF Init, FilesOK, Paths
<1>2. FlagsOK
  BY DEF Init, Unparsed, FlagsOK
<1> QED BY <1>1, <1>2 DEF Init, DriverInv, StepOK, Steps, SuccessMeansResults, FailuresKeepFiles, Done

LEMMA DriverStep ==
  ASSUME DriverInv, [Next]_vars
  PROVE  DriverInv'
<1>1. CASE UNCHANGED vars
  <2>1. FilesOK' /\ FlagsOK'
    BY <1>1 DEF vars, DriverInv, FilesOK, FlagsOK, Paths
  <2>2. FlagsFollow' = FlagsFollow
    BY <1>1 DEF vars, FlagsFollow, AsksForLink, ProgramAsked
  <2>3. Given' = Given /\ Untouched' = Untouched /\ SourceExists' = SourceExists
    BY <1>1 DEF vars, Given, Untouched, SourceExists
  <2>4. StepOK'
    BY <1>1, <2>2, <2>3 DEF vars, DriverInv, StepOK
  <2>5. SuccessMeansResults' /\ FailuresKeepFiles'
    BY <1>1 DEF vars, DriverInv, AsksForLink, ProgramAsked, AsksForNoPlace,
                SuccessMeansResults, FailuresKeepFiles, Done
  <2> QED BY <2>1, <2>4, <2>5 DEF DriverInv
<1>2. CASE Exited
  BY <1>1, <1>2 DEF Exited
<1> QED BY <1>1, <1>2, ParseOK, OpenSourceOK, OpenAssemblyOK, CompileOK, CloseStreamsOK, LinkOK DEF Next

LEMMA DriverInvariant == Spec => []DriverInv
<1>1. Init => DriverInv
  BY DriverInit
<1>2. DriverInv /\ [Next]_vars => DriverInv'
  BY DriverStep
<1> QED BY <1>1, <1>2, PTL DEF Spec

(***************************************************************************)
(* Success of the compiler, with a linker that did not fail, means that    *)
(* the source was well-formed and that all results the options ask for are *)
(* where they ask for them (main).                                         *)
(***************************************************************************)
THEOREM SuccessIsReal == Spec => []SuccessMeansResults
<1>1. DriverInv => SuccessMeansResults
  BY DEF DriverInv
<1> QED BY <1>1, DriverInvariant, PTL

(***************************************************************************)
(* The linker is never run on a file whose stream is still open (the inner *)
(* block of main).                                                         *)
(***************************************************************************)
THEOREM LinkerSeesAssembly == Spec => []LinksCompiledAssembly
<1>1. DriverInv => LinksCompiledAssembly
  BY DEF DriverInv, StepOK, LinksCompiledAssembly
<1> QED BY <1>1, DriverInvariant, PTL

(***************************************************************************)
(* A failure of the compiler touches no file but the assembly, one of the  *)
(* linker the program too, and a missing source none at all (main,         *)
(* ifstream before ofstream).                                              *)
(***************************************************************************)
THEOREM FailuresAreContained == Spec => []FailuresKeepFiles
<1>1. DriverInv => FailuresKeepFiles
  BY DEF DriverInv
<1> QED BY <1>1, DriverInvariant, PTL
=============================================================================
