SPECIFICATION Spec
CHECK_DEADLOCK FALSE
CONSTANTS
    Null = Null
    Players <- MCPlayers
    TourOf <- MCTourOf
    NameOf <- MCNameOf
    Official <- MCOfficial
    YearOf <- MCYearOf
    Statistics = 1991
    ChallengerStatistics = 2010
    RoundOrder <- MCRoundOrder
    EliteElo = 15300
    RowLimit = 2
    Expected <- MCExpected
    CoinOf <- MCCoinOf
    Workers = 2
    Base = 15000
    KOf <- MCKOf
    Batch = 3
    TeamEvents = FALSE
    Files <- MCFiles
    Published <- MCPublished
    Jobs = {1, 2}
    Loads <- MCLoads
    Similar <- MCSimilar
    Today = 31
    Latest4 = 4
    Plans <- MCPlans
INVARIANTS
    WalksKeepTheirPlace
    PagesOfOneMomentAgree
    BracketsReplayTheDraw
    OngoingIsOfItsValidator
PROPERTY RatingsFollowReplay
