\* The host starts, and its drafter queues the only choice: the room confirms.
SPECIFICATION Spec
CONSTANTS
    A = A
    B = B
    b1 = b1
    b2 = b2
    Tab = {A, B}
    Browser = {b1, b2}
    Homes <- MCHomes
    Code = {"c1"}
    Options <- MCTimed
    CreateAttempts = 2
    MaxRequests = 2
    MaxEntries = 1
    MaxLinks = 2
    Budgets <- MCDrafting
    MaxInFlight = 1
    MaxParticipants = 2
    LastTurn = 2
    Nobody = Nobody
INVARIANTS
    DeadlineShown
CHECK_DEADLOCK FALSE
