CONSTANTS
    Lexicon <- MCLexicon
    NoWord = ""
    UnnamedWord = "unnamed"
    NoneWord = "(none)"
    PathLimits <- MCPathLimits
    PermissiveLimits <- MCPermissiveLimits
    Inputs <- MCInputs
    OptionSets <- MCOptionSets
    MaxChunkSize = 4
    FormatDepth = 1
    MaxEntrySize = 5
    MaxArchiveSize = 6
    FormatSizes <- MCFormatSizes
    HighRatio = 2
    Growth = 2
    Word = 8
    BucketBounds <- MCBucketBounds
    ClassBounds <- MCClassBounds
    Formats <- MCFormats
    RowLimits = {0, 1, 2}

SPECIFICATION Spec

INVARIANTS
    TypeInvariant
    NamesJudgedAlike
    VerdictExact
    PackedIsQuiet
    SummariesAgree
    ListingsAgree
    ReportAccounts
    DiffExact
