SPECIFICATION Spec
CONSTANTS
    VarintLimit = 3
    Word = 65536
    MaxChunkSize = 10
    SingleLength = 5
    PairLength = 4
    Archives <- MCArchives
    OptionSets <- MCOptionSets
    Extractable <- MCExtractable
    Inspectable <- MCExtractable
INVARIANTS
    TypeInvariant
    ExtractableIsInspected
    StreamEndAgrees
    FailureLocated
