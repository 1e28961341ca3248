SPECIFICATION Spec
CONSTANTS
    MaxLine = 4
    MaxData = 6
    MaxAddress = 6
    MaxLocal = 4
    MaxLiterals = 3
    MaxExpansion = 6
    Alphabet <- Alphabets
    MaxLength <- Lengths
CHECK_DEADLOCK FALSE
INVARIANTS
    TextsAreRead
    AddressesAreKept
    CommandsAreAnswered
    ItemsAreAnswered
