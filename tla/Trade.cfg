SPECIFICATION Spec
CONSTANTS
    g1 = g1
    g2 = g2
    g3 = g3
    g4 = g4
    Guilds = {g1, g2, g3}
    Registered = {g1, g2, g3}
    SeedGold <- Gold50
    DailyCap <- OneCapped
    ItemIDs = {i1, i2}
    AuctionIDs = {x1}
    Listings <- AuctionAndStock
    Quantities = {0, 1, 2}
    Amounts = {0, 39, 40, 41, 43, 44}
    MaxQuantity = 3
    AuctionWindow = 2
    AuctionExtension = 2
    DayLength = 2
    MaxTime = 4
    MaxLag = 1
    GoldModulus = 1024
SYMMETRY Symmetry
INVARIANTS
    TypeOK
    Solvent
    GoldConserved
    LedgerReplaysTotal
    PurchasesWithinCap
    LeaderStands
    AnswerTime
PROPERTIES
    StockPaidFor
    LeadOnlyRises
