-------------------------- MODULE DeclarationProofs --------------------------
(***************************************************************************)
(* Proofs about the declarations and INCLUDE, for every set of files, on   *)
(* every text.                                                             *)
(***************************************************************************)
EXTENDS DeclarationProps, SequenceTheorems, TLAPS

(***************************************************************************)
(* create_type: the id it returns stands for a pointer to the target, and  *)
(* the table stays free of duplicates and cycles.                          *)
(***************************************************************************)
LEMMA CreateType ==
  ASSUME NEW table, NEW free, NEW target,
         PointerTableOK(table, free),
         target \in Concrete \cup DOMAIN table,
         NEW new,  new  = TableWith(table, free, target),
         NEW id,   id   = PointerTo(table, free, target),
         NEW next, next = FreeAfter(table, free, target)
  PROVE  /\ PointerTableOK(new, next)
         /\ id \in DOMAIN new
         /\ new[id] = target
         /\ DOMAIN table \subseteq DOMAIN new
         /\ \A t \in DOMAIN table : new[t] = table[t]
<1>1. CASE IsCreated(table, target)
  <2>1. new = table /\ next = free
    BY <1>1 DEF TableWith, FreeAfter
  <2>2. id \in DOMAIN table /\ table[id] = target
    BY <1>1 DEF PointerTo, IsCreated
  <2> QED BY <2>1, <2>2
<1>2. CASE ~IsCreated(table, target)
  <2>1. next = free + 1 /\ id = free + 1
    BY <1>2 DEF FreeAfter, PointerTo
  <2>2. new = [t \in DOMAIN table \cup {free + 1} |->
                 IF t \in DOMAIN table THEN table[t] ELSE target]
    BY <1>2 DEF TableWith
  <2>3. free + 1 \notin DOMAIN table /\ free \in Nat /\ free >= FIRST_USER_DEFINED
    BY DEF PointerTableOK
  <2>4. DOMAIN new = (FIRST_USER_DEFINED + 1) .. next
    BY <2>1, <2>2, <2>3 DEF PointerTableOK, FIRST_USER_DEFINED
  <2>5. \A t \in DOMAIN new :
          new[t] \in Concrete \cup {u \in DOMAIN new : u < t}
    BY <2>2, <2>3 DEF PointerTableOK, FIRST_USER_DEFINED
  <2>6. \A t, u \in DOMAIN new : new[t] = new[u] => t = u
    <3>1. /\ DOMAIN new = DOMAIN table \cup {free + 1}
          /\ \A t \in DOMAIN table : new[t] = table[t] /\ new[t] # target
          /\ new[free + 1] = target
      BY <1>2, <2>2, <2>3 DEF IsCreated
    <3>2. \A t, u \in DOMAIN table : table[t] = table[u] => t = u
      BY DEF PointerTableOK
    <3> QED BY <3>1, <3>2
  <2>7. PointerTableOK(new, next)
    BY <2>1, <2>3, <2>4, <2>5, <2>6 DEF PointerTableOK, FIRST_USER_DEFINED
  <2> QED BY <2>1, <2>2, <2>3, <2>7
<1> QED BY <1>1, <1>2

AllTokens == Tokens \cup {FEOF}
AllTexts  == {t.text : t \in AllTokens} \cup {MainFile}
LexerStates == [path : AllTexts, last : AllTokens]

-----------------------------------------------------------------------------
(***************************************************************************)
(* The reading of files: what a step can do to the lexers, the token, the  *)
(* names of files and the messages.                                        *)
(***************************************************************************)

ReadingTypes ==
  /\ token \in AllTokens
  /\ lexers \in Seq(LexerStates) /\ Depth >= 1
  /\ files \in Seq(AllTexts)
  /\ saved \in Seq(AllTokens)
  /\ opened \in Seq([path : AllTexts, by : AllTexts])
  /\ said \in Seq(AllTexts)
  /\ status \in {"parsing", "main", "error", "stopped"}

\* Every file that was opened is in m_includes.
OpenedIsEntered == \A j \in DOMAIN opened : opened[j].path \in m_includes

IncludedBy(path, by) == \E j \in DOMAIN opened : opened[j] = [path |-> path, by |-> by]

\* Each file on the stack was included by the one below it, and so was each file named.
ChainOfFiles ==
  /\ files[1] = MainFile
  /\ \A i \in 1 .. Len(files) - 1 : IncludedBy(files[i + 1], files[i])

ChainOfMessages ==
  /\ status \in {"parsing", "main"} => said = <<>>
  /\ status \in {"error", "stopped"} => said # <<>>
  /\ status = "error" => said[Len(said)] = files[Len(files)]
  /\ status = "stopped" => said[Len(said)] = MainFile
  /\ \A i \in 1 .. Len(said) - 1 : IncludedBy(said[i], said[i + 1])

ReadingInv ==
  /\ ReadingTypes
  /\ StateBelongsToLexer
  /\ OpenedIsEntered /\ PathsAreReadOnce
  /\ ChainOfFiles /\ ChainOfMessages

\* The steps there are.
Quietly == UNCHANGED <<said, status>>

Continues == (ReadToken \/ KeepToken) /\ UNCHANGED includes /\ Quietly
Finishes  == status' = "main" /\ status = "parsing" /\ UNCHANGED <<text, includes, said>>
Fails     == Raise /\ status = "parsing" /\ KeepToken /\ UNCHANGED <<files, saved, opened>>
             /\ m_includes \subseteq m_includes'
Passes    == KeepToken /\ UNCHANGED <<files, saved, opened>> /\ m_includes \subseteq m_includes'
             /\ Quietly
Begins    == /\ status = "parsing"
             /\ \E path \in AllTexts : path \notin m_includes /\ m_includes' = Entered(path)
                                       /\ BeginFile(path)
Comes     == status = "parsing" /\ Depth > 1 /\ RestoreState /\ Quietly
Stops     == status = "error" /\ Depth = 1 /\ status' = "stopped" /\ UNCHANGED <<text, includes, said>>
Notes     == status = "error" /\ Depth > 1 /\ RestoreThenNote /\ UNCHANGED status

ReadingStep == Continues \/ Finishes \/ Fails \/ Passes \/ Begins \/ Comes \/ Stops \/ Notes

LEMMA InTheText ==
  ASSUME NEW lexer, NEW t \in Lexed(lexer)
  PROVE  t \in AllTokens
BY DEF Lexed, AllTokens

\* A step that leaves the files as they are.
SameFiles == UNCHANGED <<files, opened>>

LEMMA SameFilesChain ==
  ASSUME ChainOfFiles, UNCHANGED <<files, opened>>
  PROVE  ChainOfFiles'
BY DEF ChainOfFiles, IncludedBy

LEMMA SameMessagesChain ==
  ASSUME ChainOfMessages, UNCHANGED <<files, opened, said, status>>
  PROVE  ChainOfMessages'
BY DEF ChainOfMessages, IncludedBy

LEMMA SameOpened ==
  ASSUME OpenedIsEntered, PathsAreReadOnce, UNCHANGED opened, m_includes \subseteq m_includes'
  PROVE  OpenedIsEntered' /\ PathsAreReadOnce'
BY DEF OpenedIsEntered, PathsAreReadOnce

LEMMA ContinuesOK ==
  ASSUME ReadingInv, Continues
  PROVE  ReadingInv'
<1>1. UNCHANGED <<files, saved, opened, m_includes, said, status>>
  BY DEF Continues, includes, Quietly
<1>2. /\ token' \in AllTokens
      /\ lexers' \in Seq(LexerStates)
      /\ Len(lexers') = Depth
      /\ \A i \in 1 .. Depth : lexers'[i].path = lexers[i].path
      /\ \A i \in 1 .. Depth - 1 : lexers'[i] = lexers[i]
      /\ lexers'[Depth].last = token'
  <2>1. CASE KeepToken
    BY <2>1 DEF KeepToken, text, ReadingInv, ReadingTypes, StateBelongsToLexer, Depth, Lexer
  <2>2. CASE ReadToken
    <3>1. PICK t \in Lexed(Lexer) : token' = t /\ lexers' = [lexers EXCEPT ![Depth].last = t]
      BY <2>2 DEF ReadToken
    <3>2. t \in AllTokens
      BY <3>1, InTheText
    <3>3. lexers[Depth] \in LexerStates /\ Depth \in 1 .. Len(lexers)
      BY DEF ReadingInv, ReadingTypes, Depth
    <3>4. [lexers[Depth] EXCEPT !.last = t] \in LexerStates
      BY <3>2, <3>3 DEF LexerStates
    <3> QED BY <3>1, <3>2, <3>3, <3>4 DEF ReadingInv, ReadingTypes, Depth, LexerStates
  <2> QED BY <2>1, <2>2 DEF Continues
<1>3. ReadingTypes'
  BY <1>1, <1>2 DEF ReadingInv, ReadingTypes, Depth
<1>4. StateBelongsToLexer'
  BY <1>1, <1>2 DEF ReadingInv, ReadingTypes, StateBelongsToLexer, Depth, Lexer
<1> QED BY <1>1, <1>3, <1>4, SameFilesChain, SameMessagesChain, SameOpened DEF ReadingInv

LEMMA PassesOK ==
  ASSUME ReadingInv, Passes
  PROVE  ReadingInv'
<1>1. UNCHANGED <<token, lexers, files, saved, opened, said, status>> /\ m_includes \subseteq m_includes'
  BY DEF Passes, KeepToken, text, Quietly
<1>2. ReadingTypes' /\ StateBelongsToLexer'
  BY <1>1 DEF ReadingInv, ReadingTypes, StateBelongsToLexer, Depth, Lexer
<1> QED BY <1>1, <1>2, SameFilesChain, SameMessagesChain, SameOpened DEF ReadingInv

LEMMA FailsOK ==
  ASSUME ReadingInv, Fails
  PROVE  ReadingInv'
<1>1. UNCHANGED <<token, lexers, files, saved, opened>> /\ m_includes \subseteq m_includes'
  BY DEF Fails, KeepToken, text
<1>2. status = "parsing" /\ status' = "error" /\ said = <<>> /\ said' = Append(said, files[Len(files)])
  BY DEF Fails, Raise, ReadingInv, ChainOfMessages
<1>3. files \in Seq(AllTexts) /\ Len(files) >= 1
  BY DEF ReadingInv, ReadingTypes, StateBelongsToLexer
<1>4. said' = <<files[Len(files)]>> /\ said' \in Seq(AllTexts)
  BY <1>2, <1>3
<1>5. ReadingTypes' /\ StateBelongsToLexer'
  BY <1>1, <1>2, <1>4 DEF ReadingInv, ReadingTypes, StateBelongsToLexer, Depth, Lexer
<1>6. ChainOfMessages'
  BY <1>1, <1>2, <1>4 DEF ChainOfMessages
<1> QED BY <1>1, <1>5, <1>6, SameFilesChain, SameOpened DEF ReadingInv

LEMMA FinishesOK ==
  ASSUME ReadingInv, Finishes
  PROVE  ReadingInv'
<1>1. UNCHANGED <<token, lexers, files, saved, opened, m_includes, said>> /\ status' = "main"
  BY DEF Finishes, text, includes
<1>2. ReadingTypes' /\ StateBelongsToLexer'
  BY <1>1 DEF ReadingInv, ReadingTypes, StateBelongsToLexer, Depth, Lexer
<1>3. ChainOfMessages'
  BY <1>1 DEF ReadingInv, Finishes, ChainOfMessages, IncludedBy
<1> QED BY <1>1, <1>2, <1>3, SameFilesChain, SameOpened DEF ReadingInv

LEMMA StopsOK ==
  ASSUME ReadingInv, Stops
  PROVE  ReadingInv'
<1>1. UNCHANGED <<token, lexers, files, saved, opened, m_includes, said>> /\ status' = "stopped"
  BY DEF Stops, text, includes
<1>2. ReadingTypes' /\ StateBelongsToLexer'
  BY <1>1 DEF ReadingInv, ReadingTypes, StateBelongsToLexer, Depth, Lexer
<1>3. Len(files) = 1 /\ files[1] = MainFile
  BY DEF Stops, ReadingInv, StateBelongsToLexer, ChainOfFiles
<1>4. ChainOfMessages'
  BY <1>1, <1>3 DEF ReadingInv, Stops, ChainOfMessages, IncludedBy
<1> QED BY <1>1, <1>2, <1>4, SameFilesChain, SameOpened DEF ReadingInv

LEMMA BeginsOK ==
  ASSUME ReadingInv, Begins
  PROVE  ReadingInv'
<1>1. PICK path \in AllTexts :
        path \notin m_includes /\ m_includes' = m_includes \cup {path} /\ BeginFile(path)
  BY DEF Begins, Entered
<1>2. PICK t \in Lexed(LexerOf(path, NoToken)) :
        token' = t /\ lexers' = Append(lexers, LexerOf(path, t))
  BY <1>1 DEF BeginFile
<1>3. /\ files' = Append(files, path)
      /\ saved' = Append(saved, token)
      /\ opened' = Append(opened, [path |-> path, by |-> files[Depth]])
      /\ UNCHANGED <<said, status>>
  BY <1>1 DEF BeginFile, Goto
<1>4. t \in AllTokens
  BY InTheText
<1>5. /\ Len(files) = Len(lexers) /\ Len(saved) = Len(lexers) - 1 /\ Len(lexers) >= 1
      /\ Depth = Len(lexers)
      /\ lexers \in Seq(LexerStates)
      /\ files \in Seq(AllTexts) /\ saved \in Seq(AllTokens)
      /\ opened \in Seq([path : AllTexts, by : AllTexts])
  BY DEF ReadingInv, ReadingTypes, StateBelongsToLexer, Depth
<1>6. LexerOf(path, t) \in LexerStates
  BY <1>4 DEF LexerOf, LexerStates
<1>7. [path |-> path, by |-> files[Depth]] \in [path : AllTexts, by : AllTexts]
  BY <1>5
<1>8. ReadingTypes'
  BY <1>2, <1>3, <1>4, <1>5, <1>6, <1>7 DEF ReadingInv, ReadingTypes, Depth
<1>9. StateBelongsToLexer'
  <2>1. /\ token = lexers[Len(lexers)].last
        /\ \A i \in 1 .. Len(lexers) : files[i] = lexers[i].path
        /\ \A i \in 1 .. Len(lexers) - 1 : saved[i] = lexers[i].last
    BY DEF ReadingInv, StateBelongsToLexer, Depth, Lexer
  <2>2. Len(lexers') = Len(lexers) + 1 /\ Len(files') = Len(lexers) + 1 /\ Len(saved') = Len(lexers)
    BY <1>2, <1>3, <1>5
  <2>3. /\ lexers'[Len(lexers) + 1] = LexerOf(path, t)
        /\ files'[Len(lexers) + 1] = path /\ saved'[Len(lexers)] = token
    BY <1>2, <1>3, <1>5
  <2>4. /\ \A i \in 1 .. Len(lexers) : lexers'[i] = lexers[i] /\ files'[i] = files[i]
        /\ \A i \in 1 .. Len(lexers) - 1 : saved'[i] = saved[i]
    BY <1>2, <1>3, <1>5
  <2>5. \A i \in 1 .. Len(lexers) : saved'[i] = lexers'[i].last
    BY <1>5, <2>1, <2>3, <2>4
  <2> QED BY <1>2, <1>5, <2>1, <2>2, <2>3, <2>4, <2>5 DEF StateBelongsToLexer, Depth, Lexer, LexerOf
<1>10. /\ \A j \in DOMAIN opened : j \in DOMAIN opened' /\ opened'[j] = opened[j]
       /\ Len(opened) + 1 \in DOMAIN opened'
       /\ opened'[Len(opened) + 1] = [path |-> path, by |-> files[Depth]]
       /\ \A j \in DOMAIN opened' : j \in DOMAIN opened \/ j = Len(opened) + 1
  BY <1>3, <1>5, <1>7
<1>11. OpenedIsEntered' /\ PathsAreReadOnce'
  BY <1>1, <1>10 DEF ReadingInv, OpenedIsEntered, PathsAreReadOnce
<1>13. \E j \in DOMAIN opened' : opened'[j] = [path |-> path, by |-> files[Depth]]
  BY <1>10
<1>14. ChainOfFiles'
  <2>1. /\ Len(files') = Depth + 1 /\ files'[Depth + 1] = path
        /\ \A i \in 1 .. Depth : files'[i] = files[i]
    BY <1>3, <1>5
  <2>2. ASSUME NEW i \in 1 .. Len(files') - 1
        PROVE  IncludedBy(files[i + 1], files[i])'
    <3>1. CASE i = Depth
      <4>1. files'[i + 1] = path /\ files'[i] = files[Depth]
        BY <1>5, <2>1, <3>1
      <4> QED BY <1>13, <4>1 DEF IncludedBy
    <3>2. CASE i # Depth
      <4>1. i \in 1 .. Len(files) - 1 /\ files'[i + 1] = files[i + 1] /\ files'[i] = files[i]
        BY <1>5, <2>1, <3>2 DEF Depth
      <4>2. IncludedBy(files[i + 1], files[i])
        BY <4>1 DEF ReadingInv, ChainOfFiles
      <4> QED BY <1>10, <4>1, <4>2 DEF IncludedBy
    <3> QED BY <3>1, <3>2
  <2> QED BY <1>5, <2>1, <2>2 DEF ReadingInv, ChainOfFiles
<1>15. ChainOfMessages'
  <2>1. status = "parsing" /\ said = <<>>
    BY DEF Begins, ReadingInv, ChainOfMessages
  <2> QED BY <1>3, <2>1 DEF ChainOfMessages
<1> QED BY <1>8, <1>9, <1>11, <1>14, <1>15 DEF ReadingInv

LEMMA Shortened ==
  ASSUME NEW S, NEW s \in Seq(S), Len(s) >= 1
  PROVE  /\ DropLast(s) \in Seq(S) /\ Len(DropLast(s)) = Len(s) - 1
         /\ \A i \in 1 .. Len(s) - 1 : DropLast(s)[i] = s[i]
<1>1. Len(s) \in Nat /\ Len(s) - 1 \in Nat /\ 1 \in Nat
  OBVIOUS
<1>2. DropLast(s) = SubSeq(s, 1, Len(s) - 1)
  BY DEF DropLast
<1>3. DropLast(s) \in Seq(S)
  BY <1>1, <1>2, SubSeqProperties
<1>4. Len(DropLast(s)) = Len(s) - 1
  <2>1. ASSUME NEW n \in Nat, n <= Len(s)
        PROVE  Len(SubSeq(s, 1, n)) = n
    <3>1. CASE n >= 1
      BY <1>1, <2>1, <3>1, SubSeqProperties
    <3>2. CASE n = 0
      <4>1. SubSeq(s, 1, 0) = <<>> /\ Len(<<>>) = 0
        BY SubSeqEmpty
      <4> QED BY <3>2, <4>1, Zenon
    <3> QED BY <3>1, <3>2
  <2>2. Len(s) - 1 \in Nat /\ Len(s) - 1 <= Len(s)
    BY <1>1
  <2>3. Len(SubSeq(s, 1, Len(s) - 1)) = Len(s) - 1
    BY <2>1, <2>2, Zenon
  <2> QED BY <1>2, <2>3
<1>5. \A i \in 1 .. Len(s) - 1 : DropLast(s)[i] = s[i]
  BY <1>1, <1>2
<1> QED BY <1>3, <1>4, <1>5

LEMMA RestoredOK ==
  ASSUME ReadingInv, Depth > 1, RestoreState
  PROVE  /\ StateBelongsToLexer' /\ ChainOfFiles' /\ OpenedIsEntered' /\ PathsAreReadOnce'
         /\ token' \in AllTokens /\ Depth' >= 1
         /\ lexers' \in Seq(LexerStates)
         /\ files' \in Seq(AllTexts) /\ saved' \in Seq(AllTokens)
         /\ UNCHANGED <<opened, m_includes>>
         /\ Len(files') = Len(files) - 1 /\ Len(files) > 1
         /\ files'[Len(files')] = files[Len(files) - 1]
<1>1. /\ Len(files) = Len(lexers) /\ Len(saved) = Len(lexers) - 1 /\ Len(lexers) > 1
      /\ lexers \in Seq(LexerStates)
      /\ files \in Seq(AllTexts) /\ saved \in Seq(AllTokens)
      /\ \A i \in 1 .. Len(lexers) : files[i] = lexers[i].path
      /\ \A i \in 1 .. Len(lexers) - 1 : saved[i] = lexers[i].last
  BY DEF ReadingInv, ReadingTypes, StateBelongsToLexer, Depth
<1>2. /\ files' = DropLast(files) /\ lexers' = DropLast(lexers) /\ saved' = DropLast(saved)
      /\ token' = saved[Len(saved)] /\ UNCHANGED <<opened, m_includes>>
  BY DEF RestoreState
<1>3. /\ lexers' \in Seq(LexerStates) /\ Len(lexers') = Len(lexers) - 1
      /\ \A i \in 1 .. Len(lexers) - 1 : lexers'[i] = lexers[i]
  BY <1>1, <1>2, Shortened
<1>4. /\ files' \in Seq(AllTexts) /\ Len(files') = Len(lexers) - 1
      /\ \A i \in 1 .. Len(lexers) - 1 : files'[i] = files[i]
  BY <1>1, <1>2, Shortened
<1>5. /\ saved' \in Seq(AllTokens) /\ Len(saved') = Len(lexers) - 2
      /\ \A i \in 1 .. Len(lexers) - 2 : saved'[i] = saved[i]
  <2>1. Len(saved) >= 1 /\ Len(saved) - 1 = Len(lexers) - 2
    BY <1>1
  <2>2. /\ DropLast(saved) \in Seq(AllTokens) /\ Len(DropLast(saved)) = Len(saved) - 1
        /\ \A i \in 1 .. Len(saved) - 1 : DropLast(saved)[i] = saved[i]
    BY <1>1, <2>1, Shortened
  <2> QED BY <1>2, <2>1, <2>2
<1>7. token' = lexers[Len(lexers) - 1].last /\ token' \in AllTokens
  <2>1. Len(lexers) \in Nat /\ Len(saved) \in 1 .. Len(lexers) - 1 /\ Len(saved) \in DOMAIN saved
    BY <1>1
  <2>2. saved[Len(saved)] \in AllTokens /\ saved[Len(saved)] = lexers[Len(saved)].last
    BY <1>1, <2>1
  <2> QED BY <1>1, <1>2, <2>2
<1>8. StateBelongsToLexer'
  <2>1. /\ \A i \in 1 .. Len(lexers') : files'[i] = lexers'[i].path
        /\ \A i \in 1 .. Len(lexers') - 1 : saved'[i] = lexers'[i].last
    <3>1. Len(lexers') - 1 = Len(lexers) - 2 /\ Len(lexers) \in Nat
      BY <1>1, <1>3
    <3>2. \A i \in 1 .. Len(lexers) - 1 : files'[i] = lexers'[i].path
      BY <1>1, <1>3, <1>4
    <3>3. \A i \in 1 .. Len(lexers) - 2 : saved'[i] = lexers'[i].last
      <4>1. \A i \in 1 .. Len(lexers) - 2 : i \in 1 .. Len(lexers) - 1
        BY <3>1
      <4> QED BY <1>1, <1>3, <1>5, <4>1
    <3> QED BY <1>3, <3>1, <3>2, <3>3
  <2>2. token' = lexers'[Len(lexers')].last
    <3>1. Len(lexers') \in 1 .. Len(lexers) - 1 /\ Len(lexers') = Len(lexers) - 1
      BY <1>1, <1>3
    <3>2. lexers'[Len(lexers')] = lexers[Len(lexers')]
      BY <1>3, <3>1
    <3> QED BY <1>7, <3>1, <3>2
  <2>3. Len(files') = Len(lexers') /\ Len(saved') = Len(lexers') - 1
    BY <1>1, <1>3, <1>4, <1>5
  <2> QED BY <2>1, <2>2, <2>3 DEF StateBelongsToLexer, Depth, Lexer
<1>9. ChainOfFiles'
  <2>1. files'[1] = MainFile
    BY <1>1, <1>4 DEF ReadingInv, ChainOfFiles
  <2>2. \A i \in 1 .. Len(files') - 1 :
          \E j \in DOMAIN opened' : opened'[j] = [path |-> files'[i + 1], by |-> files'[i]]
    <3>1. \A i \in 1 .. Len(files') - 1 :
            i \in 1 .. Len(files) - 1 /\ files'[i + 1] = files[i + 1] /\ files'[i] = files[i]
      BY <1>1, <1>4
    <3>2. opened' = opened
      BY <1>2
    <3>3. \A i \in 1 .. Len(files) - 1 :
            \E j \in DOMAIN opened : opened[j] = [path |-> files[i + 1], by |-> files[i]]
      BY DEF ReadingInv, ChainOfFiles, IncludedBy
    <3> QED BY <3>1, <3>2, <3>3, Zenon
  <2> QED BY <2>1, <2>2 DEF ChainOfFiles, IncludedBy
<1>10. OpenedIsEntered' /\ PathsAreReadOnce'
  BY <1>2 DEF ReadingInv, OpenedIsEntered, PathsAreReadOnce
<1>11. Len(files') = Len(files) - 1 /\ Len(files) > 1 /\ Depth' >= 1
  BY <1>1, <1>3, <1>4 DEF Depth
<1>12. files'[Len(files')] = files[Len(files) - 1]
  <2>1. Len(files') \in 1 .. Len(lexers) - 1
    BY <1>1, <1>4
  <2> QED BY <1>4, <1>11, <2>1
<1> QED BY <1>2, <1>3, <1>4, <1>5, <1>7, <1>8, <1>9, <1>10, <1>11, <1>12

LEMMA ComesOK ==
  ASSUME ReadingInv, Comes
  PROVE  ReadingInv'
<1>1. UNCHANGED <<said, status>> /\ status = "parsing"
  BY DEF Comes, Quietly
<1>2. /\ StateBelongsToLexer' /\ ChainOfFiles' /\ OpenedIsEntered' /\ PathsAreReadOnce'
      /\ token' \in AllTokens /\ Depth' >= 1
      /\ lexers' \in Seq(LexerStates)
      /\ files' \in Seq(AllTexts) /\ saved' \in Seq(AllTokens)
      /\ opened' = opened
  BY RestoredOK DEF Comes
<1>3. ReadingTypes'
  BY <1>1, <1>2 DEF ReadingInv, ReadingTypes
<1>4. ChainOfMessages'
  BY <1>1 DEF ReadingInv, ChainOfMessages
<1> QED BY <1>2, <1>3, <1>4 DEF ReadingInv

LEMMA NotesOK ==
  ASSUME ReadingInv, Notes
  PROVE  ReadingInv'
<1>1. /\ status = "error" /\ status' = "error"
      /\ said' = Append(said, files[Len(files) - 1])
  BY DEF Notes, RestoreThenNote
<1>2. /\ StateBelongsToLexer' /\ ChainOfFiles' /\ OpenedIsEntered' /\ PathsAreReadOnce'
      /\ token' \in AllTokens /\ Depth' >= 1
      /\ lexers' \in Seq(LexerStates)
      /\ files' \in Seq(AllTexts) /\ saved' \in Seq(AllTokens)
      /\ opened' = opened
      /\ Len(files') = Len(files) - 1 /\ Len(files) > 1
      /\ files'[Len(files')] = files[Len(files) - 1]
  BY RestoredOK DEF Notes, RestoreThenNote
<1>3. said \in Seq(AllTexts) /\ files \in Seq(AllTexts) /\ Len(said) \in Nat /\ said # <<>>
  BY <1>1 DEF ReadingInv, ReadingTypes, ChainOfMessages
<1>4. files[Len(files) - 1] \in AllTexts
  BY <1>2, <1>3
<1>5. /\ said' \in Seq(AllTexts) /\ Len(said') = Len(said) + 1 /\ said' # <<>>
      /\ said'[Len(said) + 1] = files[Len(files) - 1]
      /\ \A i \in 1 .. Len(said) : said'[i] = said[i]
  BY <1>1, <1>3, <1>4
<1>6. ReadingTypes'
  BY <1>1, <1>2, <1>5 DEF ReadingInv, ReadingTypes
<1>7. \E j \in DOMAIN opened :
        opened[j] = [path |-> files[Len(files)], by |-> files[Len(files) - 1]]
  <2>1. Len(files) - 1 \in 1 .. Len(files) - 1 /\ Len(files) - 1 + 1 = Len(files)
    BY <1>2, <1>3
  <2>2. IncludedBy(files[Len(files) - 1 + 1], files[Len(files) - 1])
    BY <2>1 DEF ReadingInv, ChainOfFiles
  <2> QED BY <2>1, <2>2 DEF IncludedBy
<1>8. ASSUME NEW i \in 1 .. Len(said') - 1
      PROVE  \E j \in DOMAIN opened : opened[j] = [path |-> said'[i], by |-> said'[i + 1]]
  <2>1. CASE i = Len(said)
    <3>1. said'[i] = files[Len(files)] /\ said'[i + 1] = files[Len(files) - 1]
      BY <1>1, <1>3, <1>5, <2>1 DEF ReadingInv, ChainOfMessages
    <3> QED BY <1>7, <3>1
  <2>2. CASE i # Len(said)
    <3>1. i \in 1 .. Len(said) - 1 /\ said'[i] = said[i] /\ said'[i + 1] = said[i + 1]
      BY <1>3, <1>5, <2>2
    <3> QED BY <3>1 DEF ReadingInv, ChainOfMessages, IncludedBy
  <2> QED BY <2>1, <2>2
<1>9. ChainOfMessages'
  BY <1>1, <1>2, <1>5, <1>8 DEF ChainOfMessages, IncludedBy
<1> QED BY <1>2, <1>6, <1>9 DEF ReadingInv

LEMMA ReadingStepOK ==
  ASSUME ReadingInv, ReadingStep
  PROVE  ReadingInv'
BY ContinuesOK, FinishesOK, FailsOK, PassesOK, BeginsOK, ComesOK, StopsOK, NotesOK DEF ReadingStep

-----------------------------------------------------------------------------
(***************************************************************************)
(* The tables: what is known of the declaration being parsed.              *)
(***************************************************************************)

Locals == [names : Seq(AllTexts), parameters : Seq(Concrete), carets : Nat, type : Type]

\* What the function that runs next relies on.
TypeIsKnown ==
  /\ status = "parsing" /\ pc \in TypeAwaited \cup PointerPoints => local.type \in KnownTypes
  /\ status = "parsing" /\ pc \in ReturnAwaited => local.type \in KnownTypes \cup {VOID}
  /\ status = "parsing" /\ pc \in PointerPoints => local.carets > 0

PathIsKnown == pc \in {"include_semicolon", "include_open"} => local.names # <<>>

TableInv == local \in Locals /\ TypeIsKnown /\ PathIsKnown /\ TablesAreWellFormed

DeclarationsGrow ==
  /\ Extends(m_variables', m_variables) /\ Extends(m_typedefs', m_typedefs)
  /\ Extends(m_functions', m_functions) /\ Extends(m_user_types', m_user_types)

NeedsNoType(p) == p \notin TypeAwaited \cup ReturnAwaited \cup PointerPoints

LEMMA Points ==
  /\ PointerPoints = {"variable_pointers", "alias_pointers", "return_pointers"}
  /\ DOMAIN PointsFrom = DOMAIN ReturnsTo
  /\ DOMAIN ReturnsTo = {"type_of_variables", "type_aliased", "type_returned"}
BY DEF PointerPoints, PointsFrom, ReturnsTo

LEMMA KeptTables ==
  ASSUME TableInv, KeepTables, local' \in Locals, TypeIsKnown', PathIsKnown'
  PROVE  TableInv' /\ DeclarationsGrow
<1>1. UNCHANGED <<m_variables, m_typedefs, m_functions, m_user_types, m_first_free_type>>
  BY DEF KeepTables, tables, types
<1>2. TablesAreWellFormed'
  BY <1>1 DEF TableInv, TablesAreWellFormed, PointerTableOK, KnownTypes
<1>3. DeclarationsGrow
  BY <1>1 DEF DeclarationsGrow, Extends
<1> QED BY <1>2, <1>3 DEF TableInv

\* A step to a point that relies on no type.
LEMMA MovesOK ==
  ASSUME TableInv, KeepTables, NEW p, Goto(p), NeedsNoType(p), local' \in Locals,
         p \in {"include_semicolon", "include_open"} => local'.names # <<>>
  PROVE  TableInv' /\ DeclarationsGrow
<1>1. pc' = p
  BY DEF Goto
<1>2. TypeIsKnown'
  BY <1>1 DEF TypeIsKnown, NeedsNoType, TypeAwaited, ReturnAwaited, PointerPoints
<1>3. PathIsKnown'
  BY <1>1 DEF PathIsKnown
<1> QED BY <1>2, <1>3, KeptTables

\* A step that keeps the point and what is known.
LEMMA EndsOK ==
  ASSUME TableInv, KeepTables, UNCHANGED <<pc, local>>, status' # "parsing"
  PROVE  TableInv' /\ DeclarationsGrow
<1>1. local' \in Locals /\ TypeIsKnown' /\ PathIsKnown'
  BY DEF TableInv, TypeIsKnown, PathIsKnown
<1> QED BY <1>1, KeptTables

LEMMA ErrorOK ==
  ASSUME TableInv, Error
  PROVE  TableInv' /\ DeclarationsGrow
BY EndsOK DEF Error, Raise

LEMMA ExpectOK ==
  ASSUME TableInv, NEW p, NEW kind, NEW next, Expect(p, kind, next),
         \/ NeedsNoType(next)
         \/ p \in TypeAwaited /\ next \in TypeAwaited
         \/ p \in ReturnAwaited /\ next \in ReturnAwaited,
         next \in {"include_semicolon", "include_open"} => p = "include_semicolon"
  PROVE  TableInv' /\ DeclarationsGrow
<1>1. CASE Error
  BY <1>1, ErrorOK
<1>2. CASE Reads(next) /\ UNCHANGED local
  <2>1. pc = p /\ pc' = next /\ status' = status /\ local' = local /\ KeepTables /\ status = "parsing"
    BY <1>2 DEF Expect, At, Reads, Goto
  <2>2. KnownTypes' = KnownTypes
    BY <2>1 DEF KeepTables, types, KnownTypes
  <2>3. TypeIsKnown'
    BY <2>1, <2>2, Points DEF TableInv, TypeIsKnown, NeedsNoType, TypeAwaited, ReturnAwaited
  <2>4. PathIsKnown' /\ local' \in Locals
    BY <2>1 DEF TableInv, PathIsKnown
  <2> QED BY <2>1, <2>3, <2>4, KeptTables
<1> QED BY <1>1, <1>2 DEF Expect

LEMMA NamedOK ==
  ASSUME TableInv, token \in AllTokens, NEW p, NEW kind, NEW next, Named(p, kind, next),
         NeedsNoType(next)
  PROVE  TableInv' /\ DeclarationsGrow
<1>1. CASE Error
  BY <1>1, ErrorOK
<1>2. CASE Reads(next) /\ local' = [local EXCEPT !.names = <<token.text>>]
  <2>1. token.text \in AllTexts
    BY DEF AllTexts
  <2>2. <<token.text>> \in Seq(AllTexts) /\ <<token.text>> # <<>>
    BY <2>1
  <2>3. local' \in Locals /\ local'.names # <<>>
    BY <1>2, <2>2 DEF TableInv, Locals
  <2> QED BY <1>2, <2>3, MovesOK DEF Reads
<1> QED BY <1>1, <1>2 DEF Named


-----------------------------------------------------------------------------
(* One lemma for each action. *)

LEMMA Names == VOID \in Type /\ Concrete \subseteq Type
BY DEF Type, VOID, Concrete, Arithmetic, Integral, Floating, UNSIGNED_INT, DOUBLE, BOOL, CHAR

LEMMA TypeTokens ==
  ASSUME NEW kind \in DOMAIN TypeToken
  PROVE  TypeToken[kind] \in Concrete
BY DEF TypeToken, Concrete, Arithmetic, Integral, Floating

LEMMA BeginDeclarationOK ==
  ASSUME TableInv, BeginDeclaration
  PROVE  TableInv' /\ DeclarationsGrow
<1>1. /\ NeedsNoType(After[token.kind])
      /\ After[token.kind] \notin {"include_semicolon", "include_open"}
  BY Points DEF BeginDeclaration, After, NeedsNoType, TypeAwaited, ReturnAwaited
<1>2. NoLocals \in Locals
  BY Names DEF NoLocals, Locals
<1> QED BY <1>1, <1>2, MovesOK DEF BeginDeclaration, Reads

LEMMA ParsePointerTypeOK ==
  ASSUME TableInv, NEW p \in DOMAIN ReturnsTo, ParsePointerType(p)
  PROVE  TableInv' /\ DeclarationsGrow
<1>1. NeedsNoType(p) /\ p \notin {"include_semicolon", "include_open"}
  BY Points DEF NeedsNoType, TypeAwaited, ReturnAwaited
<1>2. local' \in Locals
  BY DEF ParsePointerType, TableInv, Locals
<1> QED BY <1>1, <1>2, MovesOK DEF ParsePointerType, Reads

LEMMA TypesMeantOK ==
  ASSUME TableInv, NEW p, NEW t \in TypesMeant(p)
  PROVE  /\ t \in Type
         /\ t \in KnownTypes \/ (t = VOID /\ AllowsVoid(p))
<1>1. t \in KnownTypes \/ (t = VOID /\ AllowsVoid(p))
  <2>0. DOMAIN TypeToken = {"TYPE_INTEGER", "TYPE_DOUBLE", "TYPE_BOOLEAN", "TYPE_CHAR"}
    BY DEF TypeToken
  <2>1. CASE token.kind = "VOID" /\ AllowsVoid(p)
    BY <2>0, <2>1 DEF TypesMeant
  <2>2. CASE ~(token.kind = "VOID" /\ AllowsVoid(p)) /\ token.kind \in DOMAIN TypeToken
    <3>0. TypesMeant(p) = {TypeToken[token.kind]}
      BY <2>0, <2>2 DEF TypesMeant
    <3>1. t = TypeToken[token.kind]
      BY <3>0
    <3>2. t \in KnownTypes
      BY <2>2, <3>1, TypeTokens DEF KnownTypes
    <3> QED BY <3>2
  <2>3. CASE ~(token.kind = "VOID" /\ AllowsVoid(p)) /\ token.kind \notin DOMAIN TypeToken
    <3>0. \/ TypesMeant(p) = {m_typedefs[n] : n \in DOMAIN m_typedefs \cap {token.text}}
          \/ TypesMeant(p) = {}
      BY <2>0, <2>3 DEF TypesMeant
    <3>1. PICK n \in DOMAIN m_typedefs : t = m_typedefs[n]
      BY <3>0
    <3>2. t \in KnownTypes
      BY <3>1 DEF TableInv, TablesAreWellFormed
    <3> QED BY <3>2
  <2> QED BY <2>1, <2>2, <2>3
<1>2. KnownTypes \subseteq Type
  BY Names DEF KnownTypes, TableInv, TablesAreWellFormed, PointerTableOK, Type, FIRST_USER_DEFINED
<1> QED BY <1>1, <1>2, Names

LEMMA ParseTypeOK ==
  ASSUME TableInv, NEW p \in DOMAIN ReturnsTo, ParseType(p)
  PROVE  TableInv' /\ DeclarationsGrow
<1>1. CASE Error
  BY <1>1, ErrorOK
<1>2. ASSUME NEW t \in TypesMeant(p),
             Reads(IF local.carets = 0 THEN ReturnsTo[p] ELSE PointsFrom[p]),
             local' = [local EXCEPT !.type = t]
      PROVE  TableInv' /\ DeclarationsGrow
  <2>1. t \in Type /\ (t \in KnownTypes \/ (t = VOID /\ AllowsVoid(p)))
    BY TypesMeantOK
  <2>2. /\ KeepTables /\ status' = status
        /\ pc' = IF local.carets = 0 THEN ReturnsTo[p] ELSE PointsFrom[p]
    BY <1>2 DEF Reads, Goto
  <2>3. KnownTypes' = KnownTypes
    BY <2>2 DEF KeepTables, types, KnownTypes
  <2>4. /\ local' \in Locals /\ local'.type = t /\ local'.carets = local.carets
        /\ local.carets \in Nat
    BY <1>2, <2>1 DEF TableInv, Locals
  <2>5. TypeIsKnown'
    BY <2>1, <2>2, <2>3, <2>4, Points
       DEF TypeIsKnown, ReturnsTo, PointsFrom, TypeAwaited, ReturnAwaited, AllowsVoid
  <2>6. PathIsKnown'
    BY <2>2, Points DEF PathIsKnown, ReturnsTo, PointsFrom
  <2> QED BY <2>2, <2>4, <2>5, <2>6, KeptTables
<1> QED BY <1>1, <1>2 DEF ParseType

LEMMA ReturnPointerTypeOK ==
  ASSUME TableInv, NEW p \in DOMAIN ReturnsTo, ReturnPointerType(p)
  PROVE  TableInv' /\ DeclarationsGrow
<1> DEFINE id == PointerTo(m_user_types, m_first_free_type, local.type)
<1>1. /\ pc = PointsFrom[p] /\ status = "parsing" /\ status' = status
      /\ local' = [local EXCEPT !.type = id, !.carets = @ - 1]
      /\ m_user_types' = TableWith(m_user_types, m_first_free_type, local.type)
      /\ m_first_free_type' = FreeAfter(m_user_types, m_first_free_type, local.type)
      /\ pc' = (IF local.carets = 1 THEN ReturnsTo[p] ELSE pc)
      /\ UNCHANGED <<m_variables, m_typedefs, m_functions>>
  BY DEF ReturnPointerType, At, Jumps, Goto, tables
<1>2. PointsFrom[p] \in PointerPoints
  BY Points DEF PointerPoints
<1>3. local.type \in KnownTypes /\ local.carets > 0
  BY <1>1, <1>2 DEF TableInv, TypeIsKnown
<1>4. /\ PointerTableOK(m_user_types', m_first_free_type')
      /\ id \in DOMAIN m_user_types'
      /\ DOMAIN m_user_types \subseteq DOMAIN m_user_types'
      /\ \A t \in DOMAIN m_user_types : m_user_types'[t] = m_user_types[t]
  BY <1>1, <1>3, CreateType DEF TableInv, TablesAreWellFormed, KnownTypes
<1> HIDE DEF id
<1>5. KnownTypes \subseteq KnownTypes' /\ id \in KnownTypes' /\ id \in Type
  BY <1>4 DEF KnownTypes, PointerTableOK, Type, FIRST_USER_DEFINED
<1>6. local' \in Locals /\ local'.type = id /\ local'.carets = local.carets - 1
  <2>1. local \in Locals /\ local.carets - 1 \in Nat
    BY <1>3 DEF TableInv, Locals
  <2>2. local' = [local EXCEPT !.type = id, !.carets = local.carets - 1]
    BY <1>1 DEF id
  <2> QED BY <1>5, <2>1, <2>2 DEF Locals
<1>7. TypeIsKnown'
  <2>1. pc' \in PointerPoints => local'.carets > 0
    <3>1. ReturnsTo[p] \notin PointerPoints
      BY Points DEF ReturnsTo
    <3>2. local.carets \in Nat
      BY DEF TableInv, Locals
    <3> QED BY <1>1, <1>3, <1>6, <3>1, <3>2
  <2> QED BY <1>5, <1>6, <2>1 DEF TypeIsKnown
<1>8. PathIsKnown'
  BY <1>1, Points DEF PathIsKnown, ReturnsTo, PointsFrom
<1>9. TablesAreWellFormed'
  BY <1>1, <1>4, <1>5 DEF TableInv, TablesAreWellFormed
<1>10. DeclarationsGrow
  BY <1>1, <1>4 DEF DeclarationsGrow, Extends
<1> QED BY <1>6, <1>7, <1>8, <1>9, <1>10 DEF TableInv

LEMMA ParseATypeOK ==
  ASSUME TableInv, ParseAType
  PROVE  TableInv' /\ DeclarationsGrow
BY ParsePointerTypeOK, ParseTypeOK, ReturnPointerTypeOK DEF ParseAType

\* What emplace does where the name is new.
LEMMA EmplaceOK ==
  ASSUME NEW table, NEW name, NEW entry, Emplace(table, name, entry).success
  PROVE  /\ DOMAIN Emplace(table, name, entry).table = DOMAIN table \cup {name}
         /\ Emplace(table, name, entry).table[name] = entry
         /\ \A n \in DOMAIN table : Emplace(table, name, entry).table[n] = table[n]
<1>1. name \notin DOMAIN table
  BY DEF Emplace
<1>2. Emplace(table, name, entry).table = Extended(table, name, entry)
  BY <1>1 DEF Emplace
<1> QED BY <1>1, <1>2 DEF Extended

LEMMA VariableNameOK ==
  ASSUME TableInv, token \in AllTokens, VariableName
  PROVE  TableInv' /\ DeclarationsGrow
<1>1. token.text \in AllTexts
  BY DEF AllTexts
<1>2. local' \in Locals
  <2>1. local \in Locals /\ Append(local.names, token.text) \in Seq(AllTexts)
    BY <1>1 DEF TableInv, Locals
  <2> QED BY <2>1 DEF VariableName, Locals
<1>3. NeedsNoType("variable_list")
  BY Points DEF NeedsNoType, TypeAwaited, ReturnAwaited
<1> QED BY <1>2, <1>3, MovesOK DEF VariableName, Reads

LEMMA VariableListOK ==
  ASSUME TableInv, VariableList
  PROVE  TableInv' /\ DeclarationsGrow
<1>1. NeedsNoType("variable_name") /\ NeedsNoType("type_of_variables")
  BY Points DEF NeedsNoType, TypeAwaited, ReturnAwaited
<1>2. local \in Locals
  BY DEF TableInv
<1>3. CASE Reads("variable_name") /\ UNCHANGED local
  BY <1>1, <1>2, <1>3, MovesOK DEF Reads
<1>4. CASE Expect("variable_list", "COLON", "type_of_variables")
  BY <1>1, <1>4, ExpectOK
<1> QED BY <1>3, <1>4 DEF VariableList

LEMMA DeclareVariablesOK ==
  ASSUME TableInv, DeclareVariables
  PROVE  TableInv' /\ DeclarationsGrow
<1> DEFINE emplaced == Emplace(m_variables, local.names[1], local.type)
<1>1. CASE Expect("declare_variables", "SEMICOLON", "more_variables")
  <2>1. NeedsNoType("more_variables")
    BY Points DEF NeedsNoType, TypeAwaited, ReturnAwaited
  <2> QED BY <1>1, <2>1, ExpectOK
<1>2. CASE Error
  BY <1>2, ErrorOK
<1>3. CASE /\ At("declare_variables") /\ local.names # <<>> /\ emplaced.success
           /\ m_variables' = emplaced.table
           /\ local' = [local EXCEPT !.names = Tail(@)]
           /\ Jumps(pc) /\ UNCHANGED <<m_typedefs, m_functions, types>>
  <2>1. pc = "declare_variables" /\ pc' = pc /\ status = "parsing" /\ status' = status
    BY <1>3 DEF At, Jumps, Goto
  <2>2. local.type \in KnownTypes
    BY <2>1 DEF TableInv, TypeIsKnown, TypeAwaited
  <2>3. /\ DOMAIN m_variables' = DOMAIN m_variables \cup {local.names[1]}
        /\ m_variables'[local.names[1]] = local.type
        /\ \A n \in DOMAIN m_variables : m_variables'[n] = m_variables[n]
    BY <1>3, EmplaceOK
  <2> HIDE DEF emplaced
  <2>4. UNCHANGED <<m_typedefs, m_functions, m_user_types, m_first_free_type>>
    BY <1>3 DEF types
  <2>5. TablesAreWellFormed'
    BY <2>2, <2>3, <2>4 DEF TableInv, TablesAreWellFormed, KnownTypes, PointerTableOK
  <2>6. DeclarationsGrow
    BY <2>3, <2>4 DEF DeclarationsGrow, Extends
  <2>7. Tail(local.names) \in Seq(AllTexts)
    BY <1>3 DEF TableInv, Locals
  <2>8. local' \in Locals /\ local'.type = local.type
    BY <1>3, <2>7 DEF TableInv, Locals
  <2>9. TypeIsKnown' /\ PathIsKnown'
    BY <2>1, <2>2, <2>4, <2>8, Points DEF TypeIsKnown, PathIsKnown, KnownTypes
  <2> QED BY <2>5, <2>6, <2>8, <2>9 DEF TableInv
<1> QED BY <1>1, <1>2, <1>3 DEF DeclareVariables

LEMMA MoreVariablesOK ==
  ASSUME TableInv, MoreVariables
  PROVE  TableInv' /\ DeclarationsGrow
<1> DEFINE p == IF token.kind = "ID" THEN "variable_name" ELSE "declarations"
<1>1. NeedsNoType(p) /\ p \notin {"include_semicolon", "include_open"}
  BY Points DEF NeedsNoType, TypeAwaited, ReturnAwaited
<1>2. Goto(p) /\ KeepTables /\ local' \in Locals
  BY DEF MoreVariables, Jumps, TableInv
<1> HIDE DEF p
<1> QED BY <1>1, <1>2, MovesOK

\* A table that got an entry of a declaration that has been parsed.
LEMMA DefinesOK ==
  ASSUME TableInv, Jumps("declarations"), UNCHANGED <<types, local>>,
         TablesAreWellFormed', DeclarationsGrow
  PROVE  TableInv' /\ DeclarationsGrow
<1>1. pc' = "declarations" /\ local' \in Locals
  BY DEF Jumps, Goto, TableInv
<1>2. TypeIsKnown' /\ PathIsKnown'
  BY <1>1, Points DEF TypeIsKnown, PathIsKnown, TypeAwaited, ReturnAwaited
<1> QED BY <1>1, <1>2 DEF TableInv

LEMMA DefineTypeOK ==
  ASSUME TableInv, DefineType
  PROVE  TableInv' /\ DeclarationsGrow
<1> DEFINE emplaced == Emplace(m_typedefs, local.names[1], local.type)
<1>1. CASE Error
  BY <1>1, ErrorOK
<1>2. CASE /\ At("alias_define") /\ emplaced.success /\ m_typedefs' = emplaced.table
           /\ Jumps("declarations") /\ UNCHANGED <<m_variables, m_functions, types, local>>
  <2>1. local.type \in KnownTypes
    BY <1>2 DEF At, TableInv, TypeIsKnown, TypeAwaited
  <2>2. /\ DOMAIN m_typedefs' = DOMAIN m_typedefs \cup {local.names[1]}
        /\ m_typedefs'[local.names[1]] = local.type
        /\ \A n \in DOMAIN m_typedefs : m_typedefs'[n] = m_typedefs[n]
    BY <1>2, EmplaceOK
  <2> HIDE DEF emplaced
  <2>3. UNCHANGED <<m_variables, m_functions, m_user_types, m_first_free_type>>
    BY <1>2 DEF types
  <2>4. TablesAreWellFormed'
    BY <2>1, <2>2, <2>3 DEF TableInv, TablesAreWellFormed, KnownTypes, PointerTableOK
  <2>5. DeclarationsGrow
    BY <2>2, <2>3 DEF DeclarationsGrow, Extends
  <2> QED BY <1>2, <2>4, <2>5, DefinesOK
<1> QED BY <1>1, <1>2 DEF DefineType

LEMMA TypeDefinitionOK ==
  ASSUME TableInv, token \in AllTokens, TypeDefinition
  PROVE  TableInv' /\ DeclarationsGrow
<1>1. /\ NeedsNoType("alias_equal") /\ NeedsNoType("type_aliased")
      /\ "alias_semicolon" \in TypeAwaited /\ "alias_define" \in TypeAwaited
  BY Points DEF NeedsNoType, TypeAwaited, ReturnAwaited
<1>2. CASE Named("alias", "ID", "alias_equal")
  BY <1>1, <1>2, NamedOK
<1>3. CASE Expect("alias_equal", "EQUAL", "type_aliased")
  BY <1>1, <1>3, ExpectOK
<1>4. CASE Expect("alias_semicolon", "SEMICOLON", "alias_define")
  BY <1>1, <1>4, ExpectOK
<1> QED BY <1>2, <1>3, <1>4, DefineTypeOK DEF TypeDefinition

LEMMA BeginParametersOK ==
  ASSUME TableInv, BeginParameters
  PROVE  TableInv' /\ DeclarationsGrow
<1> DEFINE p == IF token.kind = "RPARENT" THEN "end_parameters" ELSE "parameter"
<1>1. NeedsNoType(p) /\ p \notin {"include_semicolon", "include_open"}
  BY Points DEF NeedsNoType, TypeAwaited, ReturnAwaited
<1>2. Goto(p) /\ KeepTables /\ local' \in Locals
  BY DEF BeginParameters, Jumps, TableInv
<1> HIDE DEF p
<1> QED BY <1>1, <1>2, MovesOK

LEMMA ParameterOK ==
  ASSUME TableInv, Parameter
  PROVE  TableInv' /\ DeclarationsGrow
<1>1. NeedsNoType("next_parameter")
  BY Points DEF NeedsNoType, TypeAwaited, ReturnAwaited
<1>2. Goto("next_parameter") /\ KeepTables
  BY DEF Parameter, Jumps, Reads
<1>3. local' \in Locals
  <2>1. CASE /\ token.kind \in DOMAIN TypeToken
             /\ local' = [local EXCEPT !.parameters = Append(@, TypeToken[token.kind])]
    <3>1. TypeToken[token.kind] \in Concrete
      BY <2>1, TypeTokens
    <3>2. local \in Locals /\ Append(local.parameters, TypeToken[token.kind]) \in Seq(Concrete)
      BY <3>1 DEF TableInv, Locals
    <3> QED BY <2>1, <3>2 DEF Locals
  <2>2. CASE UNCHANGED local
    BY <2>2 DEF TableInv
  <2> QED BY <2>1, <2>2 DEF Parameter
<1> QED BY <1>1, <1>2, <1>3, MovesOK

LEMMA NextParameterOK ==
  ASSUME TableInv, NextParameter
  PROVE  TableInv' /\ DeclarationsGrow
<1>1. NeedsNoType("parameter") /\ NeedsNoType("function_colon")
  BY Points DEF NeedsNoType, TypeAwaited, ReturnAwaited
<1>2. local \in Locals
  BY DEF TableInv
<1>3. CASE Reads("parameter") /\ UNCHANGED local
  BY <1>1, <1>2, <1>3, MovesOK DEF Reads
<1>4. CASE Expect("next_parameter", "RPARENT", "function_colon")
  BY <1>1, <1>4, ExpectOK
<1> QED BY <1>3, <1>4 DEF NextParameter

LEMMA DeclareFunctionOK ==
  ASSUME TableInv, DeclareFunction
  PROVE  TableInv' /\ DeclarationsGrow
<1> DEFINE function == [return_type |-> local.type, parameters |-> local.parameters]
           emplaced == Emplace(m_functions, local.names[1], function)
<1>1. CASE Error
  BY <1>1, ErrorOK
<1>2. CASE /\ At("function_define") /\ emplaced.success /\ m_functions' = emplaced.table
           /\ Jumps("declarations") /\ UNCHANGED <<m_variables, m_typedefs, types, local>>
  <2>1. local.type \in KnownTypes \cup {VOID} /\ local.parameters \in Seq(Concrete)
    BY <1>2 DEF At, TableInv, Locals, TypeIsKnown, ReturnAwaited
  <2>2. /\ DOMAIN m_functions' = DOMAIN m_functions \cup {local.names[1]}
        /\ m_functions'[local.names[1]] = function
        /\ \A n \in DOMAIN m_functions : m_functions'[n] = m_functions[n]
    BY <1>2, EmplaceOK
  <2>3. function.return_type = local.type /\ function.parameters = local.parameters
    OBVIOUS
  <2> HIDE DEF emplaced, function
  <2>4. UNCHANGED <<m_variables, m_typedefs, m_user_types, m_first_free_type>>
    BY <1>2 DEF types
  <2>5. TablesAreWellFormed'
    BY <2>1, <2>2, <2>3, <2>4 DEF TableInv, TablesAreWellFormed, KnownTypes, PointerTableOK
  <2>6. DeclarationsGrow
    BY <2>2, <2>4 DEF DeclarationsGrow, Extends
  <2> QED BY <1>2, <2>5, <2>6, DefinesOK
<1> QED BY <1>1, <1>2 DEF DeclareFunction

LEMMA ForeignFunctionOK ==
  ASSUME TableInv, token \in AllTokens, ForeignFunction
  PROVE  TableInv' /\ DeclarationsGrow
<1>1. /\ NeedsNoType("function_lparent") /\ NeedsNoType("parameters")
      /\ NeedsNoType("function_colon") /\ NeedsNoType("type_returned")
      /\ "function_semicolon" \in ReturnAwaited /\ "function_define" \in ReturnAwaited
  BY Points DEF NeedsNoType, TypeAwaited, ReturnAwaited
<1>2. CASE Named("function_name", "ID", "function_lparent")
  BY <1>1, <1>2, NamedOK
<1>3. CASE Expect("function_lparent", "LPARENT", "parameters")
  BY <1>1, <1>3, ExpectOK
<1>4. CASE Expect("end_parameters", "RPARENT", "function_colon")
  BY <1>1, <1>4, ExpectOK
<1>5. CASE Expect("function_colon", "COLON", "type_returned")
  BY <1>1, <1>5, ExpectOK
<1>6. CASE Expect("function_semicolon", "SEMICOLON", "function_define")
  BY <1>1, <1>6, ExpectOK
<1> QED BY <1>2, <1>3, <1>4, <1>5, <1>6, BeginParametersOK, ParameterOK, NextParameterOK,
           DeclareFunctionOK DEF ForeignFunction

LEMMA OpenIncludeOK ==
  ASSUME TableInv, OpenInclude
  PROVE  TableInv' /\ DeclarationsGrow
<1>1. NeedsNoType("declarations")
  BY Points DEF NeedsNoType, TypeAwaited, ReturnAwaited
<1>2. KeepTables /\ UNCHANGED local /\ local' \in Locals
  BY DEF OpenInclude, TableInv
<1>3. Goto("declarations") \/ (Raise /\ UNCHANGED pc)
  <2>1. CASE BeginFile(Path)
    BY <2>1 DEF BeginFile
  <2>2. CASE ~BeginFile(Path)
    BY <2>2 DEF OpenInclude
  <2> QED BY <2>1, <2>2
<1>4. CASE Goto("declarations")
  BY <1>1, <1>2, <1>4, MovesOK
<1>5. CASE Raise /\ UNCHANGED pc
  BY <1>2, <1>5, EndsOK DEF Raise
<1> QED BY <1>3, <1>4, <1>5

LEMMA IncludeOK ==
  ASSUME TableInv, token \in AllTokens, Include
  PROVE  TableInv' /\ DeclarationsGrow
<1>1. NeedsNoType("declarations") /\ NeedsNoType("include_semicolon") /\ NeedsNoType("include_open")
  BY Points DEF NeedsNoType, TypeAwaited, ReturnAwaited
<1>2. CASE Named("include_path", "STRINGCONST", "include_semicolon")
  BY <1>1, <1>2, NamedOK
<1>3. CASE Expect("include_semicolon", "SEMICOLON", "include_open")
  BY <1>1, <1>3, ExpectOK
<1>4. CASE EndInclude
  <2>1. CASE Error
    BY <2>1, ErrorOK
  <2>2. CASE RestoreState /\ Goto("declarations") /\ KeepTables /\ UNCHANGED local
    BY <1>1, <2>2, MovesOK DEF TableInv
  <2> QED BY <1>4, <2>1, <2>2 DEF EndInclude
<1>5. CASE Unwind
  BY <1>5, EndsOK DEF Unwind
<1> QED BY <1>2, <1>3, <1>4, <1>5, OpenIncludeOK DEF Include

LEMMA TableStep ==
  ASSUME TableInv, token \in AllTokens, Next
  PROVE  TableInv' /\ DeclarationsGrow
<1>1. CASE EndDeclarations
  BY <1>1, EndsOK DEF EndDeclarations
<1>2. CASE DeclareVariable
  BY <1>2, VariableNameOK, VariableListOK, DeclareVariablesOK, MoreVariablesOK DEF DeclareVariable
<1>3. CASE Stopped
  <2>1. KeepTables /\ UNCHANGED <<pc, local, status>> /\ status # "parsing"
    BY <1>3 DEF Stopped, vars, KeepTables, tables, types
  <2> QED BY <2>1, EndsOK
<1> QED BY <1>1, <1>2, <1>3, BeginDeclarationOK, ParseATypeOK, TypeDefinitionOK, ForeignFunctionOK,
           IncludeOK DEF Next

-----------------------------------------------------------------------------
(***************************************************************************)
(* Every step is one of the ways to go on reading.                         *)
(***************************************************************************)

LEMMA ReadsContinue ==
  ASSUME NEW p, Reads(p) \/ Jumps(p)
  PROVE  ReadingStep
BY DEF Reads, Jumps, Goto, ReadingStep, Continues, Quietly

LEMMA ErrorsFail ==
  ASSUME status = "parsing", Error
  PROVE  ReadingStep
BY DEF Error, ReadingStep, Fails, KeepToken, includes

LEMMA ExpectsContinue ==
  ASSUME NEW p, NEW kind, NEW next, Expect(p, kind, next) \/ Named(p, kind, next)
  PROVE  ReadingStep
<1>1. status = "parsing" /\ (Reads(next) \/ Error)
  BY DEF Expect, Named, At
<1> QED BY <1>1, ReadsContinue, ErrorsFail

LEMMA PathKnown ==
  ASSUME TableInv, pc = "include_open"
  PROVE  Path \in AllTexts
<1>1. local.names \in Seq(AllTexts) /\ local.names # <<>>
  BY DEF TableInv, Locals, PathIsKnown
<1> QED BY <1>1 DEF Path

LEMMA OpenIncludeReads ==
  ASSUME TableInv, OpenInclude
  PROVE  ReadingStep
<1>1. status = "parsing" /\ pc = "include_open" /\ m_includes' = Entered(Path)
  BY DEF OpenInclude, At
<1>2. m_includes \subseteq m_includes'
  BY <1>1 DEF Entered
<1>3. CASE Path \notin m_includes /\ BeginFile(Path)
  BY <1>1, <1>3, PathKnown DEF ReadingStep, Begins
<1>4. CASE Goto("declarations") /\ KeepToken /\ UNCHANGED <<files, saved, opened>>
  BY <1>2, <1>4 DEF Goto, ReadingStep, Passes, Quietly
<1>5. CASE Raise /\ KeepToken /\ UNCHANGED <<files, saved, opened>>
  BY <1>1, <1>2, <1>5 DEF ReadingStep, Fails
<1>6. CASE Path \notin m_includes /\ IsFound(Path)
  BY <1>3, <1>6 DEF OpenInclude
<1>7. CASE ~(Path \notin m_includes /\ IsFound(Path))
  BY <1>4, <1>5, <1>7 DEF OpenInclude
<1> QED BY <1>6, <1>7

LEMMA IncludeReads ==
  ASSUME TableInv, Include
  PROVE  ReadingStep
<1>1. CASE EndInclude
  <2>1. status = "parsing" /\ Depth > 1
    BY <1>1 DEF EndInclude, At
  <2>2. CASE RestoreState /\ Goto("declarations")
    BY <2>1, <2>2 DEF ReadingStep, Comes, Goto, Quietly
  <2> QED BY <1>1, <2>1, <2>2, ErrorsFail DEF EndInclude
<1>2. CASE Unwind
  <2>1. CASE Depth = 1 /\ status' = "stopped" /\ UNCHANGED <<text, includes, said>>
    BY <1>2, <2>1 DEF Unwind, ReadingStep, Stops
  <2>2. CASE Depth > 1 /\ RestoreThenNote /\ UNCHANGED status
    BY <1>2, <2>2 DEF Unwind, ReadingStep, Notes
  <2> QED BY <1>2, <2>1, <2>2 DEF Unwind
<1> QED BY <1>1, <1>2, ExpectsContinue, OpenIncludeReads DEF Include

LEMMA TypesRead ==
  ASSUME ParseAType
  PROVE  ReadingStep
<1>1. PICK p \in DOMAIN ReturnsTo : ParsePointerType(p) \/ ParseType(p) \/ ReturnPointerType(p)
  BY DEF ParseAType
<1>2. CASE ParsePointerType(p)
  BY <1>2, ReadsContinue DEF ParsePointerType
<1>3. CASE ParseType(p)
  <2>1. status = "parsing"
    BY <1>3 DEF ParseType, At
  <2>2. Error \/ Reads(IF local.carets = 0 THEN ReturnsTo[p] ELSE PointsFrom[p])
    BY <1>3 DEF ParseType
  <2> QED BY <2>1, <2>2, ReadsContinue, ErrorsFail
<1>4. CASE ReturnPointerType(p)
  BY <1>4, ReadsContinue DEF ReturnPointerType
<1> QED BY <1>1, <1>2, <1>3, <1>4

LEMMA VariablesRead ==
  ASSUME DeclareVariable
  PROVE  ReadingStep
<1>1. CASE VariableName
  BY <1>1, ReadsContinue DEF VariableName
<1>2. CASE VariableList
  BY <1>2, ReadsContinue, ExpectsContinue DEF VariableList
<1>3. CASE DeclareVariables
  <2>1. CASE Expect("declare_variables", "SEMICOLON", "more_variables")
    BY <2>1, ExpectsContinue
  <2>2. CASE At("declare_variables") /\ (Error \/ Jumps(pc))
    BY <2>2, ReadsContinue, ErrorsFail DEF At
  <2> QED BY <1>3, <2>1, <2>2 DEF DeclareVariables
<1>4. CASE MoreVariables
  BY <1>4, ReadsContinue DEF MoreVariables
<1> QED BY <1>1, <1>2, <1>3, <1>4 DEF DeclareVariable

LEMMA TypeDefinitionReads ==
  ASSUME TypeDefinition
  PROVE  ReadingStep
<1>1. CASE DefineType
  <2>1. status = "parsing" /\ (Error \/ Jumps("declarations"))
    BY <1>1 DEF DefineType, At
  <2> QED BY <2>1, ReadsContinue, ErrorsFail
<1> QED BY <1>1, ExpectsContinue DEF TypeDefinition

LEMMA ForeignFunctionReads ==
  ASSUME ForeignFunction
  PROVE  ReadingStep
<1>1. CASE DeclareFunction
  <2>1. status = "parsing" /\ (Error \/ Jumps("declarations"))
    BY <1>1 DEF DeclareFunction, At
  <2> QED BY <2>1, ReadsContinue, ErrorsFail
<1>2. CASE BeginParameters
  BY <1>2, ReadsContinue DEF BeginParameters
<1>3. CASE Parameter
  BY <1>3, ReadsContinue DEF Parameter
<1>4. CASE NextParameter
  BY <1>4, ReadsContinue, ExpectsContinue DEF NextParameter
<1> QED BY <1>1, <1>2, <1>3, <1>4, ExpectsContinue DEF ForeignFunction

LEMMA StepsRead ==
  ASSUME TableInv, Next
  PROVE  ReadingStep
<1>1. CASE BeginDeclaration
  BY <1>1, ReadsContinue DEF BeginDeclaration
<1>2. CASE EndDeclarations
  BY <1>2 DEF EndDeclarations, At, ReadingStep, Finishes
<1>3. CASE Stopped
  BY <1>3 DEF Stopped, vars, ReadingStep, Continues, KeepToken, Quietly
<1> QED BY <1>1, <1>2, <1>3, IncludeReads, TypesRead, VariablesRead, TypeDefinitionReads,
           ForeignFunctionReads DEF Next

-----------------------------------------------------------------------------
DeclarationInv == ReadingInv /\ TableInv

LEMMA DeclarationInit ==
  ASSUME Init
  PROVE  DeclarationInv
<1>1. token \in AllTokens /\ MainFile \in AllTexts
  BY DEF Init, AllTokens, AllTexts
<1>2. ReadingTypes
  BY <1>1 DEF Init, ReadingTypes, LexerOf, LexerStates, Depth
<1>3. StateBelongsToLexer
  BY DEF Init, StateBelongsToLexer, LexerOf, Depth, Lexer
<1>4. OpenedIsEntered /\ PathsAreReadOnce /\ ChainOfFiles /\ ChainOfMessages
  BY DEF Init, OpenedIsEntered, PathsAreReadOnce, ChainOfFiles, ChainOfMessages
<1>5. local \in Locals
  BY Names DEF Init, NoLocals, Locals
<1>6. TypeIsKnown /\ PathIsKnown
  BY Points DEF Init, TypeIsKnown, PathIsKnown, TypeAwaited, ReturnAwaited
<1>7. TablesAreWellFormed
  <2>1. DOMAIN m_user_types = {} /\ m_first_free_type = FIRST_USER_DEFINED
    BY DEF Init
  <2>2. (FIRST_USER_DEFINED + 1) .. FIRST_USER_DEFINED = {}
    BY DEF FIRST_USER_DEFINED
  <2>3. PointerTableOK(m_user_types, m_first_free_type)
    BY <2>1, <2>2 DEF PointerTableOK, FIRST_USER_DEFINED
  <2> QED BY <2>3 DEF Init, TablesAreWellFormed
<1> QED BY <1>2, <1>3, <1>4, <1>5, <1>6, <1>7 DEF DeclarationInv, ReadingInv, TableInv

LEMMA DeclarationStep ==
  ASSUME DeclarationInv, [Next]_vars
  PROVE  DeclarationInv' /\ DeclarationsGrow
<1>1. CASE Next
  <2>1. token \in AllTokens
    BY DEF DeclarationInv, ReadingInv, ReadingTypes
  <2>2. TableInv' /\ DeclarationsGrow
    BY <1>1, <2>1, TableStep DEF DeclarationInv
  <2>3. ReadingInv'
    BY <1>1, StepsRead, ReadingStepOK DEF DeclarationInv
  <2> QED BY <2>2, <2>3 DEF DeclarationInv
<1>2. CASE UNCHANGED vars
  <2>1. UNCHANGED <<text, includes, tables, types, pc, local, said, status>>
    BY <1>2 DEF vars
  <2>2. Continues
    BY <2>1 DEF Continues, KeepToken, Quietly
  <2>3. ReadingInv'
    BY <2>2, ContinuesOK DEF DeclarationInv
  <2>4. local' \in Locals /\ TypeIsKnown' /\ PathIsKnown'
    BY <2>1 DEF DeclarationInv, TableInv, TypeIsKnown, PathIsKnown, KnownTypes, types
  <2>5. TableInv' /\ DeclarationsGrow
    BY <2>1, <2>4, KeptTables DEF DeclarationInv, KeepTables
  <2> QED BY <2>3, <2>5 DEF DeclarationInv
<1> QED BY <1>1, <1>2

LEMMA DeclarationInvImplies ==
  ASSUME DeclarationInv
  PROVE  /\ TypeOK /\ TablesAreWellFormed
         /\ StateBelongsToLexer /\ PathsAreReadOnce /\ IncludersAreNamed
<1>1. TypeOK
  BY DEF DeclarationInv, TableInv, Locals, TypeIsKnown, TypeOK
<1>2. IncludersAreNamed
  BY DEF DeclarationInv, ReadingInv, ChainOfMessages, IncludedBy, IncludersAreNamed
<1> QED BY <1>1, <1>2 DEF DeclarationInv, TableInv, ReadingInv

LEMMA DeclarationsInvariant == Spec => []DeclarationInv
<1>1. Init => DeclarationInv
  BY DeclarationInit
<1>2. DeclarationInv /\ [Next]_vars => DeclarationInv'
  BY DeclarationStep
<1> QED BY <1>1, <1>2, PTL DEF Spec

(***************************************************************************)
(* The variables of the model hold values of their types, whatever the     *)
(* texts of the files and however they include each other.                 *)
(***************************************************************************)
THEOREM DeclarationTypeCorrect == Spec => []TypeOK
<1>1. DeclarationInv => TypeOK
  BY DeclarationInvImplies
<1> QED BY <1>1, DeclarationsInvariant, PTL

(***************************************************************************)
(* The declarations leave tables Parser can rely on, with the types        *)
(* parse_type returned while they were being parsed (compiler.cpp).        *)
(***************************************************************************)
THEOREM DeclarationsTyped == Spec => []TablesAreWellFormed
<1>1. DeclarationInv => TablesAreWellFormed
  BY DeclarationInvImplies
<1> QED BY <1>1, DeclarationsInvariant, PTL

(***************************************************************************)
(* No declaration changes the meaning of a name or of a pointer type       *)
(* (emplace and create_type).                                              *)
(***************************************************************************)
THEOREM DeclarationsKept == Spec => DeclarationsAreFinal
<1>1. DeclarationInv /\ [Next]_vars => [DeclarationsGrow]_vars
  BY DeclarationStep
<1>2. DeclarationsAreFinal <=> [][DeclarationsGrow]_vars
  BY DEF DeclarationsAreFinal, DeclarationsGrow
<1> QED BY <1>1, <1>2, DeclarationsInvariant, PTL DEF Spec

(***************************************************************************)
(* The lexer, the token and the file name belong together at any depth of  *)
(* INCLUDE, on the way in, on the way back and after an error              *)
(* (save_state, restore_state).                                            *)
(***************************************************************************)
THEOREM StateRestored == Spec => []StateBelongsToLexer
<1>1. DeclarationInv => StateBelongsToLexer
  BY DeclarationInvImplies
<1> QED BY <1>1, DeclarationsInvariant, PTL

(***************************************************************************)
(* No path is read twice, although files include each other (m_includes).  *)
(***************************************************************************)
THEOREM PathsReadOnce == Spec => []PathsAreReadOnce
<1>1. DeclarationInv => PathsAreReadOnce
  BY DeclarationInvImplies
<1> QED BY <1>1, DeclarationsInvariant, PTL

(***************************************************************************)
(* An error in an included file is followed by one note for each file on   *)
(* the way to the main file, in this order (the handler of parse_include). *)
(***************************************************************************)
THEOREM IncludersNamed == Spec => []IncludersAreNamed
<1>1. DeclarationInv => IncludersAreNamed
  BY DeclarationInvImplies
<1> QED BY <1>1, DeclarationsInvariant, PTL

=============================================================================
