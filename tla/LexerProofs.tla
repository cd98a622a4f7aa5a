----------------------------- MODULE LexerProofs -----------------------------
(***************************************************************************)
(* Proofs about the lexer, for all texts.                                  *)
(***************************************************************************)
EXTENDS Lexer, TLAPS

\* The rule for comments has one text.
LEMMA OneOpening ==
  ASSUME NEW text, RuleFor(text) = "comment"
  PROVE  text = "(*"
<1>1. PatternOf(text) # "comment"
  BY DEF PatternOf
<1>2. IsFixed(text) /\ FixedRule(text) = "comment"
  BY <1>1 DEF RuleFor
<1>3. text \in Fixed["comment"]
  BY <1>2 DEF IsFixed, FixedRule
<1>4. Fixed["comment"] = {"(*"}
  BY DEF Fixed
<1> QED BY <1>3, <1>4

(***************************************************************************)
(* The inductive invariant: what has been skipped of a comment does not    *)
(* close it.                                                               *)
(***************************************************************************)
Skipped ==
  /\ input \in Inputs
  /\ pos \in Nat \ {0} /\ start \in Nat
  /\ start # 0 => start + 2 <= pos /\ \A i \in start + 2 .. pos - 1 : ~Closes(i)

LEMMA TextOf ==
  ASSUME Skipped
  PROVE  /\ Len(Text) \in Nat
         /\ \A n \in 1 .. Len(Text) - pos + 1 : Len(From(n)) = n
<1>1. Len(Text) \in Nat
  BY TextsAssumption DEF Skipped, Text
<1>2. ASSUME NEW n \in 1 .. Len(Text) - pos + 1 PROVE Len(From(n)) = n
  <2>1. pos \in 1 .. Len(Text)
    BY <1>1, <1>2 DEF Skipped
  <2> QED BY <2>1, TextsAssumption DEF Skipped, Text, From
<1> QED BY <1>1, <1>2

LEMMA MatchStep ==
  ASSUME Skipped, Match
  PROVE  Skipped'
<1>1. PICK n \in Matching :
        /\ pos' = pos + n
        /\ start' = IF RuleFor(From(n)) = "comment" THEN pos ELSE 0
  BY DEF Match
<1>2. input' = input
  BY DEF Match
<1>3. n \in 1 .. Len(Text) - pos + 1 /\ Len(Text) \in Nat
  BY TextOf DEF Matching
<1>4. pos \in Nat \ {0} /\ pos' \in Nat \ {0} /\ start' \in Nat
  BY <1>1, <1>3 DEF Skipped
<1>5. ASSUME start' # 0 PROVE start' + 2 = pos'
  <2>1. start' = pos /\ From(n) = "(*"
    BY <1>1, <1>5, OneOpening
  <2>2. n = 2
    BY <1>3, <2>1, TextOf, TextsAssumption
  <2> QED BY <1>1, <2>1, <2>2
<1>6. start' # 0 => start' + 2 <= pos' /\ \A i \in start' + 2 .. pos' - 1 : FALSE
  <2> HAVE start' # 0
  <2>1. PICK p, s : p = pos' /\ s = start'
    OBVIOUS
  <2>2. p \in Nat /\ s \in Nat /\ s + 2 = p
    BY <1>4, <1>5, <2>1
  <2>3. s + 2 <= p /\ \A i \in s + 2 .. p - 1 : FALSE
    BY <2>2
  <2> QED BY <2>1, <2>3
<1> QED BY <1>2, <1>4, <1>6 DEF Skipped

LEMMA SkipStep ==
  ASSUME Skipped, SkipComment
  PROVE  Skipped'
<1>1. input' = input /\ start # 0 /\ pos <= Len(Text) /\ Len(Text) \in Nat
  BY TextOf DEF SkipComment
<1>2. CASE pos < Len(Text) /\ Ends /\ pos' = pos + 2 /\ start' = 0
  BY <1>1, <1>2 DEF Skipped
<1>3. CASE ~(pos < Len(Text) /\ Ends) /\ pos' = pos + 1 /\ start' = start
  <2>1. ~Closes(pos)
    BY <1>1, <1>3 DEF Closes, Ends, Skipped
  <2>2. \A i \in start + 2 .. pos : ~Closes(i)
    BY <1>1, <2>1 DEF Skipped
  <2>3. ASSUME NEW i PROVE Closes(i)' <=> Closes(i)
    <3>1. Text' = Text
      BY <1>1 DEF Text
    <3> QED BY <3>1 DEF Closes
  <2>4. pos \in Nat \ {0} /\ start \in Nat /\ start + 2 <= pos /\ input \in Inputs
    BY <1>1 DEF Skipped
  <2>5. \A i \in start' + 2 .. pos' - 1 : ~Closes(i)'
    BY <1>3, <2>2, <2>3, <2>4
  <2> QED BY <1>1, <1>3, <2>4, <2>5 DEF Skipped
<1> QED BY <1>2, <1>3 DEF SkipComment, SkipCharacter

LEMMA Preserved ==
  ASSUME Skipped, [Next]_vars
  PROVE  Skipped'
<1>1. CASE UNCHANGED vars
  BY <1>1 DEF vars, Skipped, Closes, Text
<1>2. CASE EndInComment
  BY <1>2 DEF EndInComment, Skipped
<1>3. CASE Echo
  BY <1>3 DEF Echo, Lexing, Skipped
<1> QED BY <1>1, <1>2, <1>3, MatchStep, SkipStep DEF Next, AtEnd

\* The step that ends a comment.
LEMMA CommentStep ==
  ASSUME Skipped, [Next]_vars, start # 0, start' = 0
  PROVE  /\ \A i \in start + 2 .. pos' - 3 : ~Closes(i)
         /\ Closes(pos' - 2) \/ pos' > Len(Text)
<1>1. pos \in Nat \ {0} /\ start \in Nat /\ Len(Text) \in Nat
  BY TextOf DEF Skipped
<1>2. CASE SkipComment
  <2>1. pos < Len(Text) /\ Ends /\ pos' = pos + 2
    BY <1>2 DEF SkipComment
  <2>2. Closes(pos' - 2)
    BY <1>1, <2>1 DEF Closes, Ends
  <2>3. pos' - 3 = pos - 1
    BY <1>1, <2>1
  <2> QED BY <2>2, <2>3 DEF Skipped
<1>3. CASE EndInComment
  <2>1. pos' = pos /\ pos > Len(Text)
    BY <1>3 DEF EndInComment
  <2>2. \A i \in start + 2 .. pos' - 3 : i \in start + 2 .. pos - 1
    BY <1>1, <2>1
  <2> QED BY <2>1, <2>2 DEF Skipped
<1>4. ~(Match \/ Echo \/ AtEnd \/ UNCHANGED vars)
  BY DEF Match, Echo, AtEnd, EndOfFile, Lexing, vars
<1> QED BY <1>2, <1>3, <1>4 DEF Next

(***************************************************************************)
(* A comment ends at the first star and parenthesis after its opening, or  *)
(* else with the file, for all texts.                                      *)
(***************************************************************************)
THEOREM CommentsEnd == Spec => CommentsEndAtFirstClose
<1>1. Init => Skipped
  BY DEF Init, Skipped
<1>2. Skipped /\ [Next]_vars => Skipped'
  BY Preserved
<1>3. Skipped /\ [Next]_vars =>
        [start # 0 /\ start' = 0 =>
           /\ \A i \in start + 2 .. pos' - 3 : ~Closes(i)
           /\ Closes(pos' - 2) \/ pos' > Len(Text)]_vars
  BY CommentStep
<1> QED BY <1>1, <1>2, <1>3, PTL DEF Spec, CommentsEndAtFirstClose
=============================================================================
