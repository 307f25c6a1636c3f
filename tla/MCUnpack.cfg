SPECIFICATION Spec
CONSTANTS
    SlotCount = 4
    MaxAcquires = 100
    MaxNestedDepth = 2
    Payloads <- MCPayloads
    Bytes <- MCBytes
    Residue <- MCResidue
    Roots <- MCRoots
    Stale = Stale
    Torn = Torn
    Lost = Lost
    MaxLost = 2
    ReplaceExtension <- MCReplaceExtension
INVARIANTS
    TypeInvariant
    OuterFilesExact
    FaithfulPrefix
    SuccessExact
PROPERTIES
    PoolSpec
    Termination
