SPECIFICATION FairSpec
CONSTANTS
  a = a
  e = e
  NoEntry = NoEntry
  Account <- MCAccount
  Entry <- MCEntry
  EntryAmount <- MCEntryAmount
  FirstHZN <- MCFirstHZN
  FirstEntries <- MCFirstEntries
  FirstSynths <- MCFirstSynths
  Amount <- MCAmount
  MAX_ENTRIES_MIGRATED_PER_MESSAGE = 2
  MaxLists = 2
  MaxSent = 2
  MaxReplaced = 1
  MaxCrashes = 1
INVARIANTS
  NothingCreated
PROPERTIES
  EventuallyDelivered
CHECK_DEADLOCK FALSE
