SPECIFICATION Spec
CONSTANTS
  a1 = a1
  a2 = a2
  Account <- MCAccount
  Nobody = Nobody
  NoFallback = NoFallback
  MaxEntryId = 6
  Uint32 = 16
  OldEscrow <- MCOldEscrow
  Quantity <- MCQuantity
  Duration <- MCDuration
  EntryIds <- MCEntryIds
  Arrival <- MCArrival
  MaxTime = 4
  MaxTokens = 5
  MaxCalls = 3
INVARIANTS
  EscrowConsistent
PROPERTIES
  ListsAreStable
  ImplementsBook
