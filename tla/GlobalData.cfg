SPECIFICATION Spec
CONSTANTS
  VarType <- MixedVariables
  WordBytes = 2
  Bytes = {0, 1}
PROPERTIES ImplementsVariables StoresSpillUpwards
