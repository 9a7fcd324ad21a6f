SPECIFICATION FairSpec
CONSTANTS
    Tours <- BothTours
    SourceIDs <- MCSourceIDs
    Numeric <- MCNumeric
    Profile <- MCProfile
    KeyOf <- MCKeyOf
    Upstream <- EveryRow
    Bios <- EveryBio
    StubSources <- MCStubSources
    HandMerges <- StubJoined
    HandSeparations = {}
    MaxPlayer = 7
    MaxKills = 1
INVARIANTS CareersFollowIds PlainSlugsAreLive
PROPERTIES ImplementsPeople IdsFollowTheirRow OnlyMergedSlugsMove OnlyFoldsHideARival SettlesUnlessBothHold
