\* Two tabs, two codes: a join while a create is on its way.
SPECIFICATION Spec
CONSTANTS
    A = A
    B = B
    b1 = b1
    b2 = b2
    Tab = {A, B}
    Browser = {b1, b2}
    Homes <- MCHomes
    Code = {"c1", "c2"}
    Options <- MCOptions
    CreateAttempts = 2
    MaxRequests = 2
    MaxEntries = 2
    MaxLinks = 2
    Budgets <- MCOverlapping
    MaxInFlight = 1
    MaxParticipants = 2
    LastTurn = 2
    Nobody = Nobody
INVARIANTS
    OneConnection
CHECK_DEADLOCK FALSE
