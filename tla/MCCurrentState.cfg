SPECIFICATION LoadSpec
CONSTANTS
  TableCategories = {"table"}
  FlatCategories = {"flat"}
  CARRIED_CATEGORIES = {"permissions"}
  CaptureEmit = {"table"}
  Keys <- MCKeys
  AmbiguousKeys = {"raw"}
  canonical_key <- MCcanonical_key
  SourceIds <- MCSourceIds
  Fields <- MCFields
  MaterialFields = {"ports"}
  BenignFields = {"description"}
  ListFields = {}
  Items = {"x", "y"}
  slot <- MCslot
  Missing = Missing
  Marker = Marker
  NoRecord = NoRecord
  FactSets <- MCFactSets
  SourceLists <- MCSourceLists
  ScopeTables <- MCScopeTables
  Policies <- MCPolicies
  Configurations <- MCConfigurations
INVARIANTS
  RowsSurvive
  AbsenceIsNeverInvented
CHECK_DEADLOCK FALSE
