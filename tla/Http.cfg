SPECIFICATION ApiSpec
CONSTANTS
    g1 = g1
    g2 = g2
    g3 = g3
    g4 = g4
    i1 = i1
    NoItem = NoItem
    k1 = k1
    k2 = k2
    c1 = c1
    c2 = c2
    c3 = c3
    c4 = c4
    c5 = c5
    c6 = c6
    Calls = {c1, c2, c3, c4, c5, c6}
    call <- MixedCalls
    NoGuild = NoGuild
    NoKey = NoKey
    Parts <- BarredParts
    Guilds = {g1, g2, g3, g4}
    Registered = {g1, g2, g3}
    SeedGold <- Gold3
    DailyCap <- Uncapped
    ItemIDs = {i1}
    AuctionIDs = {x1}
    Listings = {}
    Quantities = {}
    Amounts = {}
    MaxQuantity = 2
    AuctionWindow = 1
    AuctionExtension = 1
    DayLength = 3
    MaxTime = 1
    MaxLag = 0
    GoldModulus = 1024
SYMMETRY Symmetry
INVARIANTS
    NoInternalError
    BidsApplyOnce
    OwnResponses
PROPERTY
    IdempotencyImplemented
