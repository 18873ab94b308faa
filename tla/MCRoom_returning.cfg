\* A drafter who has queued drops out and comes back to an untimed table.
SPECIFICATION Spec
CONSTANTS
    Person = {ana, ben}
    Nobody = nobody
    LobbySeatCount = 2
    MaxParticipants = 2
    PackSize = 3
    Configs <- UntimedConfigs
    PickTime <- MCPickTime
    ConfirmationTime = 1
    ReviewTime = 1
    CompletedTTL = 1
    AbandonTime = 1
    MaxSockets = 2
    MaxGeneration = 2
    MaxRooms = 1
    MaxRedeliveries = 0
    MaxDeploys = 0
INVARIANTS
    ReadyTableConfirms
