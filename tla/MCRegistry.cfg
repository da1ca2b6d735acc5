SPECIFICATION FairSpec
CONSTANTS
  p1 = p1
  p2 = p2
  npm = npm
  cargo = cargo
  Procs <- MCProcs
  Keys <- MCKeys
  SourcesFor <- MCSources
  Configs <- MCConfigs
  Lists <- MCLists
  Unasked = Unasked
  NoMeta = NoMeta
  Torn = Torn
  MaxRuns = 3
INVARIANTS
  HandsOutOnlyWholeAnswers
  NilMeansAsked
  OneWalkPerRun
  MirrorsShieldUpstream
  UndisturbedRunsShareAnswers
PROPERTY
  RunsEnd
CHECK_DEADLOCK FALSE
