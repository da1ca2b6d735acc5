\* Images of up to three files of every kind, one at the limit and one that
\* keeps every worker busy, with and without clusters and a baseline.
SPECIFICATION FairSpec
CONSTANTS
  FileSystems <- SmallImages
  Baselines <- SmallBaselines
  ClusterSets <- SmallClusters
  Workers = {w1, w2}
  MaxComponents = 4
  IncludeRedundant = FALSE
  IncludeNoise = TRUE
  LayerErrors = TRUE
  NoTask = NoTask
INVARIANTS MatchIsForItsOwnContent PoolIsComplete LimitKept
PROPERTY Terminates
CHECK_DEADLOCK FALSE
