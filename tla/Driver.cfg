SPECIFICATION Spec
CONSTANTS
  CommandLines <- AllCommandLines
  SourceTexts <- AllTexts
INVARIANTS SuccessMeansResults LinksCompiledAssembly FailuresKeepFiles
