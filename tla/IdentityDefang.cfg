SPECIFICATION Spec
CONSTANTS
    Types <- UrlsOnly
    Seeds <- SeedsOf
    Alphabet <- AlphabetOf
    MaxLength <- LengthOf
    MaxRespell = 2
    HashLength = 3
INVARIANTS
    EveryIdNamesItsValue
CHECK_DEADLOCK FALSE
