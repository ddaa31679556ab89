SPECIFICATION Spec
CONSTANTS
    Importers = {i1, i2}
    MaxPair = 5
    Archives <- Samples
    MaxImports = 3
SYMMETRY Interchangeable
INVARIANTS
    InsertsNeverCross
PROPERTIES
    ImportsReplaceTable
    FormsFollowOneArchive
