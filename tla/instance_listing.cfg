SPECIFICATION FairSpec
CONSTANTS
    Ids = {1, 2, 3, 4, 5}
    PageSize = 2
INVARIANTS
    TypeOK
    NoDuplicates
PROPERTIES
    ListsAccount
    ListingEnds
