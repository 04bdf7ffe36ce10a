SPECIFICATION FairSpec
CONSTANTS
    i1 = i1
    i2 = i2
    p1 = p1
    p2 = p2
    p3 = p3
    Items = {i1, i2}
    Pages = {p1, p2, p3}
    Layout <- ListAndItems
    MaxRefresh = 2
    Slow = TRUE
    Faulty = TRUE
PROPERTIES
    KnownPriceShown
    PagesEnd
