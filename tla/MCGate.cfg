SPECIFICATION Spec
CONSTANTS
    Paths <- MCPaths
    Route <- MCRoute
    Dir <- MCDir
    Dirs <- MCDirs
    Above <- MCAbove
    Setups <- MCSetups
    Graded <- MCGraded
    Batches <- MCBatches
    MaxCalls = 2
    MaxChanges = 1
INVARIANTS QuietMeansClean OneEstatePerCall
PROPERTIES ImplementsBatch
CHECK_DEADLOCK FALSE
