SPECIFICATION Spec
CONSTANTS
    g1 = g1
    g2 = g2
    g3 = g3
    g4 = g4
    Guilds = {g1, g2, g3, g4}
    Registered = {g1, g2, g3}
    SeedGold <- Gold2
    DailyCap <- Uncapped
    ItemIDs = {i1, i2}
    AuctionIDs = {x1, x2}
    Listings <- AllKinds
    Quantities = {1, 2}
    Amounts = {1, 2}
    MaxQuantity = 3
    AuctionWindow = 1
    AuctionExtension = 1
    DayLength = 3
    MaxTime = 2
    MaxLag = 1
    GoldModulus = 1024
SYMMETRY Symmetry
INVARIANTS
    ReservedBacksLeads
    ItemAuctionAgree
    WinnerPaysOnce
PROPERTIES
    SettledIsFinal
    EscrowImplemented
