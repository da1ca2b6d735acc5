SPECIFICATION Spec
CONSTANTS
  Paths <- TreePaths
  Images <- DirectoryRemoved
INVARIANT DeliveredIsVisible
CHECK_DEADLOCK FALSE
