CONSTANTS
  Bundles <- MCBundles
  NotAList = NotAList
  NotADict = NotADict
  Netloc <- MCNetloc
  Reparsed <- MCReparsed
  NoHost = NoHost
  NoUrl = NoUrl
  MaxSources = 2
  MaxLength = 5
SPECIFICATION BridgeSpec
INVARIANT SourcesFaithful
CHECK_DEADLOCK FALSE
