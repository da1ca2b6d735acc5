\* Two runs over one output path, each under any of the flags.
SPECIFICATION Spec
CONSTANTS
  Enrichers <- EnricherNames
  OptionSets <- AllOptions
  Findings <- ManyFindings
  MaxRuns = 2
INVARIANTS SuccessIsComplete NoTruncatedSBOMSigned OfflineCallers
CHECK_DEADLOCK FALSE
