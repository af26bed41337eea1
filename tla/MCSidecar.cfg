SPECIFICATION StoreSpec
CONSTANTS
  Writers = {w1, w2}
  MaxBegun = 2
  Absent = Absent
  Broken = Broken
INVARIANTS
  SettledPairMatches
  
