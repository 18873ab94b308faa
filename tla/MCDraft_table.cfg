\* Two seats, three identities: presence, departures and replacements.
SPECIFICATION Spec
CONSTANTS
    N = 2
    PackSize <- MCPackSizeTable
    Occupant = {ana, ben, cy}
    Nobody = nobody
SYMMETRY OccupantSymmetry
INVARIANTS
    TypeOK
    CardsConserved
    QueueCommittable
    FairShares
PROPERTIES
    CommitHonoursQueue
    QueueDurable
    ImplementsProgress
