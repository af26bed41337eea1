SPECIFICATION RunSpec
CONSTANTS
    Invocations <- MCInvocations
    Commands <- MCCommands
    MaxDisturbances = 1
INVARIANTS TroubleNeverDecides EvidenceIsAsStamped
CHECK_DEADLOCK FALSE
