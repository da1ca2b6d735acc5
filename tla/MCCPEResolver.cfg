SPECIFICATION FairSpec
CONSTANTS
  Lower <- MCLower
  PURLParts <- MCPURLParts
  CPEParts <- MCCPEParts
  BundledIndex <- MCBundledIndex
  LocalFiles <- MCLocalFiles
  NVDIndex <- MCNVDIndex
  Definitions <- MCDefinitions
  Normal <- MCNormal
  Within <- MCWithin
  LastSegment <- MCLastSegment
  IncludeRejected = FALSE
  Sources <- MCSources
  Package <- ParsePURL
  Candidates <- Match
  High <- hasHighConfidence
  Coordinates <- purlToCDCoordinates
  Lookups <- MCLookups
  Modes = {"offline", "hybrid", "online"}
  Threshold = 5
  Loaded = {5, 6}
  Period = 2
  Slow = 6
INVARIANTS
  NVDRateBound
  SamePURLSameAnswer
  NetworkOnlyWhenNeeded
PROPERTY
  AllAnswered
CHECK_DEADLOCK FALSE
