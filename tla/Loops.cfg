SPECIFICATION FairSpec
CONSTANTS
  WordBits = 3
  ImmBits = 3
  CharBits = 2
  NumRegular = 6
  NumFloat = 8
  StackBase = 20
  Names <- MCNames
  AddressOf <- MCAddressOf
  Signature <- MCSignature
  Returns <- MCReturns
  Junk = {1}
  BitAnd <- MCAnd
  BitOr <- MCOr
  BitXor <- MCXor
  Counter = "i"
  Inner = "j"
  Kinds = {"for", "while", "nested", "if"}
  Bounds <- SameSide
INVARIANTS LoopsVisitTheirRange IterationsKeepTheStack
PROPERTIES ProgramsEnd
