CONSTANTS
  Texts <- MCTexts
  Strip <- MCStrip
  UsableIds <- MCIds
  UsableKeys <- MCKeys
  Hashes = {h1, h2}
  Malformed = Malformed
  Payloads <- MCEpochs
  InertPayloads <- MCEpochs
  MaxRecordsPerAuthority = 1
  MaxAuthoritiesPerSnapshot = 2
  Scopes <- MCScopes
  Turns = {t1, t2}
  RawAuthorities <- MCRawAuthorities
  RawKeys <- MCRawKeys
  Idle = Idle
  MaxEpoch = 3
  MaxResident = 3
  SlowHash = h2
  SlowMaxEpoch = 2
SPECIFICATION Spec
CONSTRAINT InstanceBound
SYMMETRY TurnSymmetry
INVARIANTS TypeOK VisibleIsFresh NoMemoryAhead PersistBlockedOnlyByStaleMemory
PROPERTIES CurrentMemoryKept
