SPECIFICATION MCSpec
CONSTANTS
  WordBits = 3
  ImmBits = 2
  CharBits = 2
  NumRegular = 6
  NumFloat = 8
  StackBase = 20
  Names <- MCNames
  VarType <- MCVarType
  PointsTo <- MCPointsTo
  AddressOf <- MCAddressOf
  Signature <- MCSignature
  Returns <- MCReturns
  Junk = {1}
  BitAnd <- MCAnd
  BitOr <- MCOr
  BitXor <- MCXor
  Literals <- AllLiterals
  Allowed <- AllCalls
  Defects = {"remainder", "conjunction"}
  MaxOperations = 7
  Profiles <- OperatorProfiles
INVARIANTS OperatorsAsDocumented
