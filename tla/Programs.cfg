SPECIFICATION MCSpec
CONSTANTS
  NumRegular = 2
  NumFloat = 2
  Names <- MCNames
  VarType <- MCVarType
  Typedefs <- MCTypedefs
  FunParams <- MCFunParams
  FunReturn <- MCFunReturn
  DeclaredTypes <- MCDeclaredTypes
  Tokens <- AllTokens
  MaxTokens <- Longest
  Profiles <- ProgramProfiles
INVARIANTS OperandsMatchActivations PointerTypesAreUnique CallsAreTyped LoopVariablesAreIntegers JumpsResolve
PROPERTIES ImplementsStackCode LabelsDefinedOnce ArgumentsFollowABI
