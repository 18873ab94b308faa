\* The lobby: three identities, two positions, superseded and silent sockets.
SPECIFICATION Spec
CONSTANTS
    Person = {ana, ben, cy}
    Nobody = nobody
    LobbySeatCount = 2
    MaxParticipants = 2
    PackSize = 2
    Configs <- LobbyConfigs
    PickTime <- MCPickTime
    ConfirmationTime = 1
    ReviewTime = 1
    CompletedTTL = 1
    AbandonTime = 1
    MaxSockets = 2
    MaxGeneration = 2
    MaxRooms = 1
    MaxRedeliveries = 1
    MaxDeploys = 1
SYMMETRY PersonSymmetry
INVARIANTS
    TypeOK
    LedgerSound
    RingMirrorsLedger
    AppointmentsBooked
    AbandonmentMeansDeserted
PROPERTIES
    AbsenceHasCause
    ImplementsLifecycle
