\* Two requests, the ticker and main, builds of two queries.
SPECIFICATION FairSpec
CONSTANTS
    Ticker = Ticker
    Main = Main
    Requests = {r1, r2}
    NQueries = 2
    MaxWorld = 1
INVARIANT TypeOK
INVARIANT CatalogWhole
PROPERTY RegressOnlyWhenOvertaken
PROPERTY ImplementsRegister
PROPERTY Converges
