SPECIFICATION CodecSpec
CONSTANTS
    MaxByte = 3
    Alphabet = {0, 3}
    InputLength = 9
    DataLength = 5
    Inputs <- MCInputs
    Foreign <- MCForeign
INVARIANTS
    CodecTypes
    WithinBlock
    RoundTrip
    DecodeExact
