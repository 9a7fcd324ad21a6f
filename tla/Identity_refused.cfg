SPECIFICATION FairSpec
CONSTANTS
    Tours <- ATP
    SourceIDs <- MCSourceIDs
    Numeric <- MCNumeric
    Profile <- MCProfile
    KeyOf <- MCKeyOf
    Upstream <- MenOnly
    Bios <- MenBios
    StubSources <- MCStubSources
    HandMerges = {}
    HandSeparations <- StubApart
    MaxPlayer = 5
    MaxKills = 0
PROPERTIES Settles
