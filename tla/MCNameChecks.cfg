SPECIFICATION FairSpec
CONSTANTS
    Bases <- MCBases
    Fold <- MCFold
    FoldMarked <- MCFoldMarked
    Requests <- MCRequests
    Normalized <- MCNormalized
    Digest <- MCDigest
    Word = 8
    Resolvers <- MCResolvers
    MaxNames = 3
    Archives <- MCArchives
    Policies <- MCPolicies
INVARIANTS
    TypeInvariant
    NamesDistinct
    FirstFree
    ChecksAgree
PROPERTY
    NamingEnds
