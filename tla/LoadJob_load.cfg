SPECIFICATION Spec
CONSTANTS
    p1 = p1  p2 = p2  p3 = p3  p4 = p4
    Null = Null
    Players <- MCPlayers
    Draws <- MCDraws
    SeasonOf <- MCSeasonOf
    Keys <- MCKeys
    DrawOf <- MCDrawOf
    PairOf <- MCPairOf
    IdOf <- MCIdOf
    Sources = {"tml", "sack"}
    FallbackTier <- MCFallbackTier
    UnitOf <- MCUnitOf
    ClutchBatch = 1
    ThirdMan = p3
    Inherited <- Straight
    LegacyName <- MCLegacyName
    Versions = {1, 2}
    BioRows <- MCBioRows
    RankPaths <- MCRankPaths
    RankRows <- MCRankRows
    RankBatch = 1
    TourOf <- MCTourOf
    IdShape <- MCIdShape
    StartOf <- MCStartOf
    IdRank <- MCIdRank
    OverrideTo <- MCOverrideTo
    PinnedName <- MCPinnedName
    CompetitionAliases <- MCCompetitionAliases
    Names <- MCNames
    SamePerson <- MCSamePerson
    ChartRows <- MCChartRows
    FigureNames <- MCFigureNames
    RoundOf <- MCRoundOf
    PlayedOn <- MCPlayedOn
    YearOf <- MCYearOf
    Deployments <- MCDeployments
    FeedRows <- MCFeedRows
    MergePairs <- MCMergePairs
    ManualStages = {"all", "matches", "reference", "reconcile", "events", "charting", "refresh", "prune"}
INVARIANTS
    DerivedDescribeScore SidesAgreeWithTheMatch FreshAfterSuccess TotalsBalance
    PrunedMatchesComeBack RunRecordsFollowTheJob RecordedRankingsAreHeld OneEditionASeason EventsAreSettled
    ChartedAreAccountedFor SkippedChartingIsCurrent
PROPERTIES
    SlugsAreKept LoadsSucceed RankingsArrive
