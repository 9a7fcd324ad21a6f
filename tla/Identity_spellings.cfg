SPECIFICATION Spec
CONSTANTS
    Tours <- ATP
    SourceIDs <- MCSourceIDs
    Numeric <- MCNumeric
    Profile <- Spellings
    KeyOf <- MCKeyOf
    Upstream <- NoRows
    Bios <- MenBios
    StubSources <- MCStubSources
    HandMerges = {}
    HandSeparations = {}
    MaxPlayer = 5
    MaxKills = 0
PROPERTIES SlugsMoveOnlyToFreed
