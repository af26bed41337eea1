SPECIFICATION Spec
CONSTANTS
  Categories = {c1}
  Keys = {k1}
  SourceIds = {s1}
  NoEntry = NoEntry
  NoSource = NoSource
  MaxDrop = 1
  Boundaries <- MCBoundaries
  Records <- MCRecords
  Declarations <- MCDeclarations
INVARIANTS
  LicenceEarned
PROPERTY RefusalSticks
