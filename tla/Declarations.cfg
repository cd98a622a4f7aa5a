SPECIFICATION MCFairSpec
CONSTANTS
  Profiles <- DeclarationProfiles
  Tokens <- AllTokens
  MaxTokens <- Longest
  Directories <- MCDirectories
  Exists <- MCExists
  MainFile = "main"
INVARIANTS TypeOK TablesAreWellFormed StateBelongsToLexer PathsAreReadOnce IncludersAreNamed
PROPERTIES DeclarationsAreFinal Terminates
