SPECIFICATION FairSpec
CONSTANTS
  Currency <- MCCurrency
  Feed <- MCFeed
  AssetOf <- MCAssetOf
  Lent <- MCKeys
  FuturesKey <- MCKeys
  useOvm = FALSE
  Name <- MCName
  Existing <- MCExisting
  Ownerships <- MCOwnerships
  resolverAddressesRequired <- MCResolverAddressesRequired
  Settings <- MCSettings
  Releases <- MCReleases
  specifyContracts = {}
  nonUpgradeable <- MCNonUpgradeable
  ignoreSafetyChecks = TRUE
  addressesChunkSize = 2
  MaxReleases = 2
  MaxCrashes = 1
INVARIANTS
  DeploymentSound
  CompleteMeansWired
PROPERTIES
  NeverBack
  EventuallyWired
CHECK_DEADLOCK FALSE
