SPECIFICATION ReaderSpec
CONSTANTS
    Base = 4
    VarintLimit = 3
    Word = 32
    Magic <- MCMagic
    Version = 1
    Coded <- MCCoded
    MaxEntries = 4
    MaxNameLength = 6
    MaxChunkSize = 4
    Unnamed <- MCUnnamed
    Separator = 4
    Dot = 5
    DirExtension <- MCDirExtension
    MaxInputs = 4
    ForeignLength = 8
    InputLists <- MCDamagedLists
    Foreign <- MCForeign
    MaxSize = 63
    CheckedLength = 4
    Counts <- MCCounts
INVARIANT
    PackedIsExtracted
