\* Three seats in a ring, everybody stays: how packs travel, and what the
\* draft implements under the pick clock.
SPECIFICATION RingSpec
CONSTANTS
    N = 3
    PackSize <- MCPackSizeRing
    Occupant = {ana, ben, cy}
    Nobody = nobody
INVARIANTS
    PacksInStep
PROPERTIES
    ImplementsFairDeal
