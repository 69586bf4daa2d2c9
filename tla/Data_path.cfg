SPECIFICATION Spec
CONSTANTS
    a = a
    b = b
    z = z
    Zero = z
    Ocb = {o1, o2}
    DirOcb = {o2}
    Data <- MCData
    Sizes = {1, 3}
    DirSizes = {28, 32, 64}
    MaxLen = 3
    Opens <- MCOpens
    FallbackChunk = 2
    NameLen <- MCNameLen
INVARIANTS TypeOK ListsOnceInOrder EndOfListingIsTheEnd VerifyAgrees
PROPERTIES ImplementsByteFile WriteReturns
