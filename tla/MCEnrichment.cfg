SPECIFICATION Spec
CONSTANTS
  Lower <- MCLower
  Embedded <- MCEmbedded
  Target <- MCTarget
  BaseImage <- MCBaseImage
  FileMap <- MCFileMap
  ImageBuild <- MCImageBuild
  DefaultRules <- MCDefaultRules
  CustomRules <- MCCustomRules
  PathOfName <- MCPathOfName
  ManifestRoots <- MCManifestRoots
  Manifests <- MCManifests
  DistInfo <- MCDistInfo
  Signals <- MCSignals
  Versioned <- MCVersioned
  SortedDirs <- MCSortedDirs
  Many = 2
  VeryMany = 5
  UpToAt <- MCUpToAt
  Identities <- MCIdentities
  Matches <- MCMatches
  Answers <- MCAnswers
  Split <- MCSplit
  Unprefixed <- MCUnprefixed
  Distro <- MCDistro
  Published <- MCPublished
  PURLParts <- MCPURLParts
  CPEParts <- MCCPEParts
  BundledIndex <- MCBundledIndex
  LocalFiles <- MCLocalFiles
  NVDIndex <- MCNVDIndex
  Definitions <- MCDefinitions
  Normal <- MCNormal
  Within <- MCWithin
  LastSegment <- MCLastSegment
  IncludeRejected = FALSE
  Ecosystem <- MCEcosystem
  Overrides <- MCOverrides
  LargeSBOM = 3
  Inputs <- MCInputs
  Configs <- MCConfigs
  Environments <- MCEnvironments
  ImageFiles <- MCImageFiles
  Snapshot <- MCSnapshot
  Outages <- MCOutages
  Rounds = 2
INVARIANTS
  NoComponentLost
  UpstreamFieldsStay
  DanglingOnlyByMerge
  NoCPEForgotten
  PrimaryCPEIsVouched
  StampsAreCurrent
  RerunAddsNothing
  FilesAccountedFor
  SnapshotServesLikeTheSource
CHECK_DEADLOCK FALSE
