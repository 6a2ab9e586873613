SPECIFICATION Spec
CONSTANTS
    alice = alice
    bob = bob
    forAlice = forAlice
    Vault = {alice, bob}
    Operator = {bob}
    Depositor = {bob}
    Approval = {forAlice}
    ApprovalTerms <- MCTerms
    NoApproval = NoApproval
    AnyVault = AnyVault
    MAX_PENDING_SETTLEMENT_OPERATIONS = 2
    PRICE_VALID_FOR_SECONDS = 1
    settlementTime = 1
    Validity = {1}
    CapacityAdded = {1}
    DebtAmount = {2}
    InitialUnits = 2
    MinimumUnits = 1
    MaxOps = 3
    MaxTime = 4
    MaxUnits = 3
CHECK_DEADLOCK FALSE
INVARIANTS
    IndexesAreExact
    ReservationsReconcile
PROPERTIES
    SettledOnceOnTerms
