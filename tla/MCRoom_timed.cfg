\* A timed draft of two people: picks, reviews and deletion by the clock alone.
SPECIFICATION FairSpec
CONSTANTS
    Person = {ana, ben}
    Nobody = nobody
    LobbySeatCount = 2
    MaxParticipants = 2
    PackSize = 3
    Configs <- TimedConfigs
    PickTime <- MCPickTime
    ConfirmationTime = 1
    ReviewTime = 1
    CompletedTTL = 1
    AbandonTime = 1
    MaxSockets = 2
    MaxGeneration = 2
    MaxRooms = 1
    MaxRedeliveries = 1
    MaxDeploys = 0
INVARIANTS
    ClockedPhasesHaveDeadline
PROPERTIES
    DeadlineNeverExtended
    PicksCloseWhenDue
    TimedDraftEnds
