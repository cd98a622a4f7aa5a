------------------------------- MODULE Driver -------------------------------
(***************************************************************************)
(* The driver (main.cpp): from the options of a command line to the files  *)
(* opened, the compilation, the linker and the exit status.                *)
(*                                                                         *)
(* What the driver does depends on whether a file can be opened, on what   *)
(* the compiler makes of the text it reads and on the status of gcc: these *)
(* are choices of the steps.  Of a file only its kind of content matters.  *)
(***************************************************************************)
EXTENDS Sequences, FiniteSetsExt

CONSTANTS
  CommandLines,  \* [source, assembly, program: paths, stdout, link: BOOLEAN], "" for no path
  SourceTexts    \* what sources may contain

\* Sources are "program" (well-formed), "ill-formed", or hold a "huge literal" that
\* std::stoull does not take; other files are "none", "empty", "partial", "assembly",
\* "executable" or "old".

VARIABLES
  line,     \* the command line
  flags,    \* CliFlags
  step,     \* what main does next, "exited" after it
  files,    \* path -> content, "none" for a file that does not exist
  stdin,    \* the text on the standard input
  stdout,   \* what was written to the standard output
  linker,   \* what std::system returned, 0 before
  status,   \* exit status, -1 before
  before    \* history: files at the start

vars == <<line, flags, step, files, stdin, stdout, linker, status, before>>

Extension(path) == {i \in 1 .. Len(path) : SubSeq(path, i, i) = "."}
BaseName(path)  == IF Extension(path) = {} THEN path
                   ELSE SubSeq(path, 1, Max(Extension(path)) - 1)

DefaultAssembly(source) == BaseName(source) \o ".s"

\* Nobody asks for the program in the file of its own assembly.
ASSUME OutputsAssumption ==
  \A c \in CommandLines : \A program \in {"a.out", c.program} \ {""} :
    program # c.assembly /\ program # DefaultAssembly(c.source)

Unparsed == [assembly_path |-> "", program_path |-> "", should_link |-> FALSE]

Exits(code) == step' = "exited" /\ status' = code % 256

\* --assembly-stdout excludes --assembly-output and --link.
Excluded == line.stdout /\ (line.assembly # "" \/ line.link)

\* (A variant: the flag is not read.)
AssemblyStdoutUnread == BOOLEAN

\* assembly_stdout has no initial value, and nothing assigns it when the flag is not given.
AssemblyStdout == IF line.stdout THEN {TRUE} ELSE BOOLEAN

Parse ==
  /\ step = "parse"
  /\ \/ Excluded /\ Exits(1) /\ UNCHANGED flags
     \/ /\ ~Excluded
        /\ step' = "open_source" /\ UNCHANGED status
        /\ \E assembly_stdout \in AssemblyStdout :
             LET should_link == line.link \/ line.program # "" IN
             flags' = [assembly_path |-> IF assembly_stdout \/ line.assembly # ""
                                         THEN line.assembly ELSE DefaultAssembly(line.source),
                       program_path  |-> IF should_link /\ line.program = "" THEN "a.out"
                                         ELSE line.program,
                       should_link   |-> should_link]
  /\ UNCHANGED <<line, files, stdin, stdout, linker, before>>

\* (A variant: the destination is opened, and emptied, before the source.)
OpenSourceAfterAssembly ==
  /\ step = "open_source"
  /\ files' = IF flags.assembly_path = "" THEN files
              ELSE [files EXCEPT ![flags.assembly_path] = "empty"]
  /\ IF line.source # "" /\ files[line.source] = "none"
     THEN Exits(1) ELSE step' = "open_assembly" /\ UNCHANGED status
  /\ UNCHANGED <<line, flags, stdin, stdout, linker, before>>

OpenSource ==
  /\ step = "open_source"
  /\ IF line.source # "" /\ files[line.source] = "none"
     THEN Exits(1) ELSE step' = "open_assembly" /\ UNCHANGED status
  /\ UNCHANGED <<line, flags, files, stdin, stdout, linker, before>>

\* Opening a file for writing empties it.
OpenAssembly ==
  /\ step = "open_assembly"
  /\ \/ /\ flags.assembly_path = ""
        /\ step' = "compile" /\ UNCHANGED <<files, status>>
     \/ /\ flags.assembly_path # ""
        /\ files' = [files EXCEPT ![flags.assembly_path] = "empty"]
        /\ step' = "compile" /\ UNCHANGED status
     \/ flags.assembly_path # "" /\ Exits(1) /\ UNCHANGED files
  /\ UNCHANGED <<line, flags, stdin, stdout, linker, before>>

(***************************************************************************)
(* Compiler{...}().  The assembly that the stream holds back is written    *)
(* when the stream is closed at the end of the block: exit() and abort()   *)
(* do not close it.  They differ for stdout, which exit() flushes.         *)
(***************************************************************************)
Source == IF line.source = "" THEN stdin ELSE files[line.source]

Writes(content) ==
  IF flags.assembly_path = "" THEN stdout' = content /\ UNCHANGED files
  ELSE files' = [files EXCEPT ![flags.assembly_path] = content] /\ UNCHANGED stdout

CompileFails == \E content \in {"empty", "partial"} : Writes(content)

\* (A variant: the handler does not end the program.)
AbortsHandled ==
  /\ Source \notin {"program", "huge literal"}
  /\ CompileFails /\ step' = "close" /\ UNCHANGED status

\* std::runtime_error: an error of the source, already displayed.
Aborts == Source \notin {"program", "huge literal"} /\ CompileFails /\ Exits(1)

\* std::out_of_range is not a std::runtime_error: nothing handles it.
Terminates == Source = "huge literal" /\ CompileFails /\ Exits(134)

Compile ==
  /\ step = "compile"
  /\ \/ Source = "program" /\ Writes("partial") /\ step' = "close" /\ UNCHANGED status
     \/ Aborts
     \/ Terminates
  /\ UNCHANGED <<line, flags, stdin, linker, before>>

\* (A variant: the linker is run before the streams are closed.)
CloseStreamsNever ==
  /\ step = "close"
  /\ step' = "link"
  /\ UNCHANGED <<line, flags, files, stdin, stdout, linker, status, before>>

\* The end of the block of the streams.
CloseStreams ==
  /\ step = "close"
  /\ IF flags.assembly_path # "" THEN Writes("assembly") ELSE UNCHANGED <<files, stdout>>
  /\ step' = "link"
  /\ UNCHANGED <<line, flags, stdin, linker, status, before>>

\* Wait statuses: gcc exits with 1 or 4, is killed, or the shell cannot be started.  A
\* gcc that fails may have removed or begun to write the program.
Failures == {1 * 256, 4 * 256, 9, -1}

\* main() ends: exit() also writes what std::cout holds back.
Ends(code) ==
  /\ Exits(code)
  /\ stdout' = IF stdout = "partial" THEN "assembly" ELSE stdout

Link ==
  /\ step = "link"
  /\ \/ ~flags.should_link /\ Ends(0) /\ UNCHANGED <<files, linker>>
     \/ /\ flags.should_link
        /\ flags.assembly_path # "" /\ files[flags.assembly_path] = "assembly"
        /\ files' = [files EXCEPT ![flags.program_path] = "executable"]
        /\ Ends(0) /\ UNCHANGED linker
     \/ /\ flags.should_link
        /\ linker' \in Failures
        /\ files' \in {files} \cup {[files EXCEPT ![flags.program_path] = c] : c \in {"none", "partial"}}
        /\ Ends(linker')
  /\ UNCHANGED <<line, flags, stdin, before>>

Exited == step = "exited" /\ UNCHANGED vars

Init ==
  /\ line \in CommandLines
  /\ flags = Unparsed
  /\ step = "parse"
  /\ stdin \in SourceTexts
  /\ \E source \in SourceTexts \cup {"none"}, assembly, program \in {"none", "old"} :
       files = [p \in {"a.out", DefaultAssembly(line.source), line.source, line.assembly, line.program} \ {""} |->
                  IF p = line.source THEN source
                  ELSE IF p = line.assembly \/ p = DefaultAssembly(line.source) THEN assembly
                  ELSE program]
  /\ stdout = "empty" /\ linker = 0 /\ status = -1
  /\ before = files

Next == Parse \/ OpenSource \/ OpenAssembly \/ Compile \/ CloseStreams \/ Link \/ Exited

Spec == Init /\ [][Next]_vars

-----------------------------------------------------------------------------
Done == step = "exited"

\* What the options of the command line ask for.
AsksForLink    == line.link \/ line.program # ""
ProgramAsked   == IF line.program = "" THEN "a.out" ELSE line.program
AsksForNoPlace == ~line.stdout /\ line.assembly = ""

(***************************************************************************)
(* A compiler that reports success, and whose linker did not fail, has     *)
(* accepted its source; with --assembly-stdout, all of the assembly is on  *)
(* the standard output, with --assembly-output it is in that file, and the *)
(* program is where --program-output says, or in a.out with --link alone.  *)
(* Without either of the first two, it is complete on the standard output  *)
(* or in the file named like the source, whatever value assembly_stdout    *)
(* happens to have; README.md:43 says the former, the help text            *)
(* (main.cpp:39) the latter, and neither is always true.                   *)
(***************************************************************************)
SuccessMeansResults ==
  Done /\ status = 0 /\ linker = 0 =>
    /\ (IF line.source = "" THEN stdin ELSE before[line.source]) = "program"
    /\ line.stdout => stdout = "assembly"
    /\ line.assembly # "" => files[line.assembly] = "assembly"
    /\ AsksForNoPlace => stdout = "assembly" \/ files[DefaultAssembly(line.source)] = "assembly"
    /\ AsksForLink => files[ProgramAsked] = "executable"

(***************************************************************************)
(* When the linker is run on a file, it is the assembly of this            *)
(* compilation, and all of it is there: the stream has been closed.        *)
(***************************************************************************)
LinksCompiledAssembly ==
  step = "link" /\ flags.should_link /\ flags.assembly_path # "" =>
    files[flags.assembly_path] = "assembly"

(***************************************************************************)
(* A compilation that fails leaves all files but the assembly alone, the   *)
(* program of an earlier one among them; one whose source is missing, all  *)
(* files.  If the linker fails, its program may be gone as well.           *)
(***************************************************************************)
FailuresKeepFiles ==
  Done /\ status # 0 =>
    /\ \A p \in DOMAIN files \ {flags.assembly_path} :
         files[p] = before[p] \/ (linker # 0 /\ p = flags.program_path)
    /\ line.source # "" /\ before[line.source] = "none" => files = before

(***************************************************************************)
(* The tests (tests/CMakeLists.txt:2) count on the status of the compiler: *)
(* a linker that fails makes it fail.                                      *)
(***************************************************************************)
FailedLinksAreReported == Done /\ linker # 0 => status # 0
=============================================================================
