SPECIFICATION Spec
CONSTANTS
  CommandLines <- AllCommandLines
  SourceTexts <- AllTexts
INVARIANTS FailedLinksAreReported
