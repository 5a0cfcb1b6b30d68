SPECIFICATION Spec
CONSTANTS
  Places <- MCPlaces
  OnDisk <- MCOnDisk
  Readers <- MCReaders
  Databases <- MCDatabases
  MaxFaults = 2
  MaxWrites = 1
INVARIANTS ShelfKept VersionTells OriginalKept RefusedOnlyUnmappable HalfPairedOnlyIfBroken
PROPERTIES ToolUnblocks RightLibrary ShutdownEnds BackupsGoOn
