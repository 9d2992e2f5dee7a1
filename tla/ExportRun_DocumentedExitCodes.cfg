SPECIFICATION Spec
CONSTANTS
  MaxRows = 1
  MaxItems = 1
INVARIANT
  DocumentedExitCodes
