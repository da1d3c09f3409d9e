CONSTANTS
  Texts <- MCTexts
  Strip <- MCStrip
  UsableIds <- MCIds
  UsableKeys <- MCKeys
  Hashes = {"h1", "h2"}
  Malformed = Malformed
  Payloads = {v1, v2, huge}
  InertPayloads = {v1, v2}
  PlainPayload = v1
  VariedKey = "k"
  LastKey = "n"
  MaxRecordsPerAuthority = 2
  MaxAuthoritiesPerSnapshot = 2
  RawAuthorities <- MCRawAuthorities
  RawKeys <- MCRawKeys
  MissingPayload = MissingPayload
  MaxHeld = 4
  Unscoped = Unscoped
SPECIFICATION BoundedSpec
INVARIANTS StoreTypeOK NoDuplicateKeys BudgetHeld PersistedRestores CallsDoAsPromised PolicyAgrees GuardReadsNoMore
PROPERTIES ContextsStable ImplementsMap
