SPECIFICATION Spec
CONSTANTS
    Yes = Yes
    No = No
    Q1 = Q1
    Q2 = Q2
    alice = alice
    bob = bob
    burn = burn
    Genesis <- MCGenesis
    UniverseId <- MCUniverseId
    Outcome = {Yes, No}
    Question = {Q1}
    WellFormed <- MCWellFormed
    Account = {alice, bob, burn}
    BurnAddress = burn
    MaxAttoRep = 30
    GenesisSupply = 16
    GenesisBalance <- MCGenesisBalance
    ForkThresholdDivisor = 3
    ForkBurnDivisor = 5
    Amount = {0, 4}
    MaxCopies = 2
INVARIANTS
    ChildMintWithinCredit
    HoldersNeverRefused
    ChildSupplyCoherence
PROPERTIES
    RecordsAreFinal
CHECK_DEADLOCK FALSE
