CONSTANTS
    n1 = n1  n2 = n2  n3 = n3  rising = rising  even = even  up = up  apart = apart
    Nodes = {n1, n2, n3}
    FIRST = FIRST
    STORAGE = STORAGE
    NULL = NULL
    Searchers = {rising, even}
    Swappers = {up, apart}
    Order <- SortAndShuffle
    Length <- ThreeLengths
    Sizes = {0, 1, 2, 3}
    Builds = {TRUE, FALSE}
SPECIFICATION Spec
INVARIANTS TypeOK StorageWhole NoNodeLost TraversalComplete PairsOfOneOrder SwapsAtItsIndex
PROPERTIES ImplementsExchanges Terminates
