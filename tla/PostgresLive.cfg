SPECIFICATION PgFairSpec
CONSTANTS
    g1 = g1
    g2 = g2
    g3 = g3
    Guilds = {g1, g2}
    Registered = {g1, g2}
    SeedGold <- Gold3
    DailyCap <- Uncapped
    ItemIDs = {i1, i2}
    AuctionIDs = {x1}
    Listings <- OneOfEach
    Quantities = {1}
    Amounts = {1}
    MaxQuantity = 3
    AuctionWindow = 1
    AuctionExtension <- StoredExtension
    DayLength = 3
    MaxTime = 1
    MaxLag = 1
    GoldModulus = 1024
    Clients = {c1, c2}
    Worker = w
    Requests <- CrossingRequests
    MaxUnits = 2
    ConfiguredExtension = 1
    Second = 1
PROPERTIES
    UnitsEnd
    DueSettled
