SPECIFICATION Spec
CONSTANTS
    Root = "root"
    Folders <- MCFolders
    Projects <- MCProjects
    Trees <- MCTrees
    MaxDepth = 3
    Tags = {"t"}
    Members = {"m"}
    Requests <- MCRequests
    MaxChanges = 2
    MaxCaptures = 1
INVARIANTS HierarchyIsWhole DerivedAgree
CHECK_DEADLOCK FALSE
