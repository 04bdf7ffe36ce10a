SPECIFICATION FairSpec
CONSTANTS
    g1 = g1
    g2 = g2
    g3 = g3
    g4 = g4
    Guilds = {g1, g2, g3, g4}
    Registered = {g1, g2, g3}
    SeedGold <- Gold3
    DailyCap <- Uncapped
    ItemIDs = {i1, i2}
    AuctionIDs = {x1, x2}
    Listings <- StrangerSells
    Quantities = {}
    Amounts = {1}
    MaxQuantity = 3
    AuctionWindow = 1
    AuctionExtension = 1
    DayLength = 3
    MaxTime = 2
    MaxLag = 0
    GoldModulus = 1024
PROPERTIES
    DueSettled
