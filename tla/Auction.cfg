SPECIFICATION Spec
CONSTANTS
    alice = alice
    bob = bob
    carol = carol
    Bidder = {alice, bob, carol}
    Tick <- MCTick
    TickPrice <- MCTickPrice
    PRICE_PRECISION = 2
    MIN_BID_SIZE_DIVISOR = 6
    Terms <- MCTerms
    CapacityForSale = 7
    Offers <- MCOffers
    MaxBids <- MCMaxBids
CHECK_DEADLOCK FALSE
SYMMETRY BidderSymmetry
INVARIANTS
    CapsRespected
    LiabilitiesReconcile
    PriorityRespected
    TreesServeTheBook
