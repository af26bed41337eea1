SPECIFICATION Spec
CONSTANTS
    Docs <- MCDocs
    Drafts <- MCDrafts
    Proposals <- MCProposals
    Nature <- MCNature
    Clashes <- MCClashes
    Fits <- MCFits
    Models = {1, 2}
    MaxEdits = 1
    MaxCompiles = 2
    MaxCrashes = 1
INVARIANTS EnforcedIsAdmitted CommittedIsStable
CHECK_DEADLOCK FALSE
