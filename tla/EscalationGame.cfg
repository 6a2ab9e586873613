SPECIFICATION Spec
CONSTANTS
    SCALE = 10
    LN2_SCALED = 7
    MAX_ATANH_ITERATIONS = 16
    MAX_EXP_ITERATIONS = 16
    ESCALATION_TIME_LENGTH = 5
    Vault = {alice, bob}
    StartBond = 2
    NonDecisionThreshold = 5
    ActivationDelay = 1
    ForkThresholds <- MCForkThresholds
    ForkBurnDivisor = 5
    MigrationTime = 1
    VaultRep = 9
    Amount <- MCAmount
    MaxDeposits = 3
    MaxTime = 8
    CurveLength = 40
    StartBonds = {2, 3, 7, 20}
    Thresholds = {5, 8, 16, 50, 61}
INVARIANTS
    CurveServesTheGame
    EscrowReconciles
    ClaimsFunded
    PreviewMatchesRecord
PROPERTIES
    ExportedOnce
    ResultIsTerminal
    EventuallyClosed
CHECK_DEADLOCK FALSE
