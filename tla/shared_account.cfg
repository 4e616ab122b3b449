SPECIFICATION Spec
CONSTANTS
    k1 = k1
    k2 = k2
    n1 = n1
    i1 = i1
    i2 = i2
    f1 = f1
    spaced = spaced
    Spaced = {k2, spaced}
    Empty = "empty"
    NoValue = NoValue
    Names = {n1}
    Pool = "pool"
    Class = "class"
    ForeignTags <- MCForeignTags
    NoInstance = NoInstance
    Grace = 2
    MaxLag = 1
    MaxSkew = 1
    Clusters = {k1, k2}
    Instances = {i1, f1}
    Foreign = {f1}
    Position <- AnyOrder
    Undated = {}
    Stuck = {}
    GoneAnswers = {"accepted", "notFound"}
    MaxCrashes = 1
INVARIANTS
    CondemnedOnlyOrphans
    ListsPartitionAccount
PROPERTIES
    KeepsCustody
