SPECIFICATION Spec
CONSTANTS
    g1 = g1
    g2 = g2
    g3 = g3
    g4 = g4
    Guilds = {g1, g2, g3}
    Registered = {g1, g2, g3}
    SeedGold <- Gold3
    DailyCap <- Uncapped
    ItemIDs = {i1}
    AuctionIDs = {x1}
    Listings <- OnlyRare
    Quantities = {1, 2, 3}
    Amounts = {0, 1, 2, 3}
    MaxQuantity = 3
    AuctionWindow = 1
    AuctionExtension = 1
    DayLength = 2
    MaxTime = 2
    MaxLag = 0
    GoldModulus = 16
PROPERTIES
    StockPaidFor
