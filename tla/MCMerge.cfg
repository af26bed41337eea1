SPECIFICATION Spec
CONSTANTS
  MaxFacts = 3
  TableCategories = {"table"}
  FlatCategories = {"flat"}
  Keys <- MCKeys
  AmbiguousKeys <- MCAmbiguousKeys
  canonical_key <- MCcanonical_key
  SourceIds <- MCSourceIds
  Fields = {"members", "description", "extra"}
  MaterialFields = {"members"}
  BenignFields = {"description"}
  ListFields = {"members"}
  Items = {"x", "y", "z"}
  slot <- MCslot
  Missing = Missing
  Marker = Marker
  NoRecord = NoRecord
  FactSets <- MCFactSets
  SourceLists <- MCSourceLists
  ScopeTables <- MCScopeTables
  Policies <- MCPolicies
INVARIANTS
  Accounted
  DisagreementIsReported
CHECK_DEADLOCK FALSE
