SPECIFICATION PgSpec
CONSTANTS
    g1 = g1
    g2 = g2
    g3 = g3
    Guilds = {g1, g2, g3}
    Registered = {g1, g2, g3}
    SeedGold <- Gold3
    DailyCap <- OneCapped
    ItemIDs = {i1, i2}
    AuctionIDs = {x1}
    Listings <- OneOfEach
    Quantities = {1}
    Amounts = {1, 2, 3}
    MaxQuantity = 3
    AuctionWindow = 1
    AuctionExtension <- StoredExtension
    DayLength = 3
    MaxTime = 2
    MaxLag = 2
    GoldModulus = 1024
    Clients = {c1, c2}
    Worker = w
    Requests <- MixedRequests
    MaxUnits = 3
    ConfiguredExtension = 3
    Second = 2
SYMMETRY Symmetry
INVARIANTS
    DeadlocksSpareAuctions
    ConfiguredAnswerTime
PROPERTIES
    MarketImplemented
