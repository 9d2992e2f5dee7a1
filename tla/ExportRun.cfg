SPECIFICATION FairSpec
CONSTANTS
  MaxRows = 2
  MaxItems = 2
INVARIANTS
  TypeOK
  EveryResourceOwned
  AppenderInsideConnection
  SuccessIsDurable
  ExitCodeTruthful
PROPERTIES
  ImplementsContract
  EveryStepAdvances
  BoundedRunExits
