SPECIFICATION MCFairSpec
CONSTANTS
  NumRegular = 2
  NumFloat = 2
  Names <- MCNames
  VarType <- MCVarType
  Typedefs <- MCTypedefs
  FunParams <- MCFunParams
  FunReturn <- MCFunReturn
  DeclaredTypes <- MCDeclaredTypes
  Tokens <- AllTokens
  MaxTokens <- Longest
  Profiles <- TextProfiles
INVARIANTS TypeOK IInv StatementsAreBalanced
PROPERTIES Terminates
