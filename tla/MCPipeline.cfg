\* Every dependency graph over three names, cyclic ones included, and the
\* command's ten enrichers under every --disable selection.
SPECIFICATION FairSpec
CONSTANTS
  Names <- AllNames
  NoName = NoName
  Registries <- AllRegistries
INVARIANTS CycleIsReal StampMeansAllRan AttributionBeforeBasediff
PROPERTIES Terminates ImplementsEnrichmentRun
CHECK_DEADLOCK FALSE
