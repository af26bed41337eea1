SPECIFICATION Spec
CONSTANTS
    Addresses <- Both
    Public <- Pub
    Ports <- MCPorts
    Sensitive <- MCSensitive
    Tags <- MCTags
    Accounts <- MCAccounts
    Documents <- MCDocuments
    Estates <- MCEstates
    ProjectOf <- MCProjectOf
    Hierarchies <- MCHierarchies
    Trees <- MCTrees
    Policies <- MCPolicies
    VpcRules <- MCVpc
    Proposals <- MCProposals
    OrgTables <- MCOrgTables
    OrgSettings <- MCOrgSettings
    OrgDocuments <- MCOrgDocuments
    Values <- MCValues
    DenyTables <- MCOrgTables
    DenyRules <- MCDenyRules
    DenyChanges <- MCDenyChanges
    DenyGrants <- MCDenyGrants
    DenyBindings <- MCDenyBindings
    Proposed <- MCProposed
    Previous <- MCPrevious
    AxisValues <- MCAxisValues
    People <- MCPeople
    PermissionsOf <- MCPermissionsOf
    IamDocuments <- MCIamDocuments
    IamDenials <- MCIamDenials
    TfAddresses <- MCAddresses
    Worlds <- MCWorlds
    Spoils <- MCSpoils
INVARIANTS
    PairIsTrue
    ShadowIsTrue
    ClosureIsTheWalk
    HierarchyIsTrue
    OrgRowsAreTrue
    NarrowingIsTrue
    SourceIsTheEstate
    ReviewIsTheChange
    DenyIsTrue
    PerimeterIsTrue
    RuleIsTrue
    ChangeIsTrue
    EscalationIsTrue
    ComparisonIsTrue
CHECK_DEADLOCK FALSE
