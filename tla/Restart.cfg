SPECIFICATION ServerFairSpec
CONSTANTS
    g1 = g1
    g2 = g2
    g3 = g3
    Guilds = {g1, g2, g3}
    Registered = {g1, g2, g3}
    SeedGold <- Gold2
    DailyCap <- Uncapped
    ItemIDs = {i1, i2}
    AuctionIDs = {x1, x2}
    Listings <- Listed
    Quantities = {1}
    Amounts = {1, 2}
    MaxQuantity = 3
    AuctionWindow = 1
    AuctionExtension = 1
    DayLength = 3
    MaxTime = 1
    MaxLag = 0
    GoldModulus = 1024
    Demo <- DemoGuilds
    Starters <- DemoStarters
    SeedingMayFail = TRUE
    MaxBoots = 2
CHECK_DEADLOCK FALSE
INVARIANTS
    ReservationsSurvive
    StartersOnce
PROPERTIES
    DueSettledAfterRestart
