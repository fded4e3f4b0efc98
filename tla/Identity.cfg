SPECIFICATION Spec
CONSTANTS
    Types <- AllTypes
    Seeds <- SeedsOf
    Alphabet <- AlphabetOf
    MaxLength <- LengthOf
    MaxRespell = 2
    HashLength = 3
INVARIANTS
    SpellingsAgree
    IdNamesValue
CHECK_DEADLOCK FALSE
