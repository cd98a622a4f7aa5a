SPECIFICATION FairSpec
CONSTANTS
  Inputs <- LexemesAndComments
INVARIANTS LexemesAreRead
PROPERTIES CommentsEndAtFirstClose ReachesTheEnd
