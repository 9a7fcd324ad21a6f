SPECIFICATION Spec
CONSTANTS
    Tours <- BothTours
    SourceIDs <- MCSourceIDs
    Numeric <- MCNumeric
    Profile <- MCProfile
    KeyOf <- MCKeyOf
    Upstream <- NoRows
    Bios <- FourBios
    StubSources <- MCStubSources
    HandMerges = {}
    HandSeparations = {}
    MaxPlayer = 5
    MaxKills = 0
PROPERTIES IdsStayKnown
