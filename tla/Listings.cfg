SPECIFICATION Spec
CONSTANTS
    Sizes = {"small"}
    Sexes = {"male"}
    SpeciesTail = {"dog", "cat"}
    ListPages <- Lists
    DetailPages <- Details
    TablePages <- Tables
INVARIANTS
    CardFactsStay
    OnlyTheSpeciesIsDropped
    GoodPageTellsAll
PROPERTIES
    FailedPageTellsNothing
