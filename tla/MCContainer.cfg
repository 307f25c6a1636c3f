SPECIFICATION ReaderSpec
CONSTANTS
    Base = 4
    VarintLimit = 3
    Word = 32
    Magic <- MCMagic
    Version = 1
    Coded <- MCCoded
    MaxEntries = 3
    MaxNameLength = 5
    MaxChunkSize = 3
    Unnamed <- MCUnnamed
    Separator = 4
    Dot = 5
    DirExtension <- MCDirExtension
    MaxInputs = 4
    ForeignLength = 8
    InputLists <- MCInputLists
    Foreign <- MCForeign
    MaxSize = 63
    CheckedLength = 4
    Counts <- MCCounts
INVARIANTS
    PackedComesBack
    AcceptedIsEncoding
    ReadersAgree
