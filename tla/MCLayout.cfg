SPECIFICATION LayoutSpec
CONSTANTS
    HeaderSize = 1
    FileSize = 7
    MaxEntries = 3
    Manifests <- MCManifests
INVARIANTS
    LayoutTypes
    AccountsForFile
    OverlapExact
    GapsAgree
    PartitionedUnlessOverlapping
