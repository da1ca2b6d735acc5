\* Images a builder produces: three layers, whiteouts in every position.
SPECIFICATION Spec
CONSTANTS
  Paths <- TreePaths
  Images <- BuiltImages
INVARIANTS OwnerIsEffective DeliveredOnceFromOwner NoFileMissed
CHECK_DEADLOCK FALSE
