CONSTANTS
  Bundles <- MCBundles
  NotAList = NotAList
  NotADict = NotADict
  Netloc <- MCNetloc
  Reparsed <- MCReparsed
  NoHost = NoHost
  NoUrl = NoUrl
  MaxSources = 2
  MaxLength = 5
SPECIFICATION BridgeSpec
INVARIANT NeverRaises
CHECK_DEADLOCK FALSE
