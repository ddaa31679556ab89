SPECIFICATION Spec
CONSTANTS
    Registries <- Known
    Base <- BaseHost
    PageSize = 60
    SearchPaths <- Paths
    Shelters <- KnownShelters
    Spellings <- Listed
    Sites <- Truth
    Tokens <- Parts
    Params <- Names
    Sizes = {20, 60}
    MaxPages = 3
INVARIANTS
    OneEntryPerDog
    ParsesItsOwnSite
    SearchStaysConfigured
    RecheckFindsTheParser
CHECK_DEADLOCK FALSE
