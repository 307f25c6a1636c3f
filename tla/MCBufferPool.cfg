SPECIFICATION Spec
CONSTANTS
    SlotCount = 4
    MaxAcquires = 5
    Sizes = {0, 40, 50}
    Pressures = {64, 71, 88}
    Depths = {1, 2}
INVARIANTS
    TypeInvariant
    WindowExact
    GenerationDetectsFree
    HandleFits
PROPERTY
    LeaseSpec
