\* The recipe, read, resolved and made a snapshot; and one pack from arbitrary batches, and from seeded sources.
SPECIFICATION SetSpec
CONSTANTS
    SampleEnd = 16
    RotationBits = 2
    Layouts <- MCLayouts
    PoolEntries <- MCPoolEntries
    MaximumTicketAttempts = 3
    Batches <- MCBatches
    Calls <- MCCalls
    Sources <- SeededSources
    FreshSources <- FreshlySeeded
    SampleFrom <- SeededSample
    After <- SeededAfter
    Seeds = {0, 1, 2, 3, 5, 7, 11, 13}
    Domains = {0, 3, 9, 14}
    MaxSamples = 9
    Refused = Refused
    VisibleCardTotal = 14
    CardTotals <- MCCardTotals
    PoolAggregates <- MCPoolAggregates
    LayoutCount = 12
    LayoutTotal = 7200
    DerivedTotals <- MCDerivedTotals
    OfficialTotals <- MCOfficialTotals
    RarityCodeTotals <- MCRarityCodeTotals
    AnomalousPrints = {3, 7}
    RainbowIdentities = 4
    Texts <- MCTexts
    Recipes <- MCRecipes
    Officials <- MCOfficials
INVARIANTS
    TypeOK
    UnbiasedDraws
    CopiesAgree
    WithoutReplacement
    PlannedPacksNeverFail
    SingleSamplesAgree
    RecipeReadsBack
    RatiosFixTheOdds
    AcceptedRecipesResolve
    DraftablesAreDealt
    SnapshotDealsTheRecipe
PROPERTIES
    SeededPacksFinish
CHECK_DEADLOCK FALSE
