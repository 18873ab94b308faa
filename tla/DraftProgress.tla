--------------------------- MODULE DraftProgress ----------------------------
(***************************************************************************)
(* The draft without its cards: the part of packages/draft/src/index.ts    *)
(* that decides when the table moves.  What a pick contains is abstracted  *)
(* to the fact that a seat has queued one; how many cards are left follows *)
(* from the round and the pick.  Draft implements this module (the run     *)
(* draft_table), and Room uses its operators for the draft a room hosts.   *)
(***************************************************************************)
EXTENDS Integers, FiniteSets

CONSTANTS N, PackSize, Occupant, Nobody      \* as DraftRules assumes them

VARIABLE progress

Seat == 0 .. N-1
Controller == {"human", "bot"}
SeatState == [controller : Controller, occupantId : Occupant \cup {Nobody}, connected : BOOLEAN]

Start(seatSetup) ==
    [status |-> "picking", round |-> 1, pick |-> 1, seats |-> seatSetup, queued |-> {}]

Picking(g) == g.status = "picking"
Owns(g, i, o) == Picking(g) /\ g.seats[i].occupantId = o
MayQueue(g, i, o) == Owns(g, i, o) /\ g.seats[i].connected

WithQueued(g, i) == [g EXCEPT !.queued = @ \cup {i}]
WithPresence(g, i, connected) == [g EXCEPT !.seats[i].connected = connected]
WithSeatVacated(g, i) ==
    [g EXCEPT !.seats[i] = [@ EXCEPT !.occupantId = Nobody, !.connected = FALSE],
              !.queued = @ \ {i}]
WithSeatFilled(g, i, seat) == [g EXCEPT !.seats[i] = seat]

WaitingBots(g) ==
    {i \in DOMAIN g.seats \ g.queued :
        g.seats[i].controller = "bot" /\ g.seats[i].occupantId # Nobody /\ g.seats[i].connected}
WithBotsQueued(g) == [g EXCEPT !.queued = @ \cup WaitingBots(g)]

\* A pick takes one card of every pack, and the last card goes with it when
\* one is left: a round of k cards has max(1, k-1) picks.
CardsLeft(g) == PackSize[g.round] - g.pick
Committed(g) ==
    LET emptied == [g EXCEPT !.queued = {}]
    IN  IF CardsLeft(g) > 1 THEN [emptied EXCEPT !.pick = @ + 1]
        ELSE IF g.round < 3 THEN [emptied EXCEPT !.round = @ + 1, !.pick = 1]
        ELSE [emptied EXCEPT !.status = "complete"]

-----------------------------------------------------------------------------

Init ==
    \E seatSetup \in [Seat -> [controller : Controller, occupantId : Occupant, connected : BOOLEAN]] :
        /\ \A i, j \in Seat : seatSetup[i].occupantId = seatSetup[j].occupantId => i = j
        /\ \E i \in Seat : seatSetup[i].controller = "human"
        /\ progress = Start(seatSetup)

Queue(i, o) == MayQueue(progress, i, o) /\ progress' = WithQueued(progress, i)

Presence(i, o) ==
    /\ Owns(progress, i, o)
    /\ \E connected \in BOOLEAN : progress' = WithPresence(progress, i, connected)

Vacate(i, o) == Owns(progress, i, o) /\ progress' = WithSeatVacated(progress, i)

Fill(i, o) ==
    /\ Picking(progress) /\ progress.seats[i].occupantId = Nobody
    /\ \A j \in Seat : progress.seats[j].occupantId # o
    /\ \E controller \in Controller, connected \in BOOLEAN :
           progress' = WithSeatFilled(progress, i,
               [controller |-> controller, occupantId |-> o, connected |-> connected])

RunBots == Picking(progress) /\ progress' = WithBotsQueued(progress)

\* A commit needs a full barrier or a timeout; a timeout needs nothing.
Commit == Picking(progress) /\ progress' = Committed(progress)

Next ==
    \/ \E i \in Seat, o \in Occupant :
           Queue(i, o) \/ Presence(i, o) \/ Vacate(i, o) \/ Fill(i, o)
    \/ RunBots
    \/ Commit

Spec == Init /\ [][Next]_progress

=============================================================================
