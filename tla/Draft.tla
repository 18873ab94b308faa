------------------------------- MODULE Draft --------------------------------
(***************************************************************************)
(* One draft as its callers drive it (apps/server/src/room.ts and          *)
(* apps/web/src/table.ts): each step replaces the draft by the result of   *)
(* one exported function of packages/draft/src/index.ts.  A call that      *)
(* throws leaves the caller with the draft it had, so it is no step.       *)
(*                                                                         *)
(* The environment is unrestricted: people queue, change their minds,      *)
(* disconnect, leave, are replaced, and send intents composed from any     *)
(* earlier view; the timeout may strike at any moment.                     *)
(***************************************************************************)
EXTENDS DraftRules

VARIABLE draft

Init ==
    \E seatSetup \in [Seat -> [controller : Controller, occupantId : Occupant, connected : BOOLEAN]] :
        /\ LegalSetup(seatSetup)
        /\ draft = CreateDraft(seatSetup)

-----------------------------------------------------------------------------
(* What a participant, or a message that arrives late, may ask for.  An    *)
(* intent names a card the sender has seen, hence the round and the pack   *)
(* the card belongs to; the pick and the seat's holder may have moved on.  *)

Intent(i, o, p, c) ==
    [round |-> c.round, pick |-> p, seat |-> i, occupant |-> o, packOrigin |-> c.origin, card |-> c]

Queue(i, o, p, c) ==
    /\ CanPickCard(draft, Intent(i, o, p, c))
    /\ draft' = PickCard(draft, Intent(i, o, p, c))

Disconnect(i, o) ==
    /\ OwnsSeat(draft, i, o)
    /\ draft' = UpdatePresence(draft, i, FALSE)

Reconnect(i, o) ==
    /\ OwnsSeat(draft, i, o)
    /\ draft' = UpdatePresence(draft, i, TRUE)

Vacate(i, o) ==
    /\ OwnsSeat(draft, i, o)
    /\ draft' = VacateSeat(draft, i)

Fill(i, o) ==
    /\ CanFillSeat(draft, i, o)
    /\ \E controller \in Controller, connected \in BOOLEAN :
           draft' = FillSeat(draft, i, o, controller, connected)

Reveal ==
    /\ BarrierReady(draft)
    /\ CanCommit(draft, draft.provisionalPicks)
    /\ draft' = RevealBarrier(draft)

Timeout ==
    /\ Picking(draft)
    /\ \E f \in Fallbacks(draft) :
           /\ CanCommit(draft, WithFallbacks(draft, f))
           /\ draft' = ResolveTimeout(draft, f)

RunBots ==
    /\ Picking(draft)
    /\ \E policy \in BotPolicies(draft) : draft' = RunPendingBots(draft, policy)

\* A complete draft accepts nothing more: every function throws DRAFT_COMPLETE.
Over == draft.status = "complete" /\ UNCHANGED draft

Next ==
    \/ \E i \in Seat, o \in Occupant :
           \/ \E c \in AllCards : \E p \in 1..PackSize[c.round] : Queue(i, o, p, c)
           \/ Disconnect(i, o)
           \/ Reconnect(i, o)
           \/ Vacate(i, o)
           \/ Fill(i, o)
    \/ Reveal
    \/ Timeout
    \/ RunBots
    \/ Over

Spec == Init /\ [][Next]_draft

\* The pick clock is the only scheduler: a deadline fires whatever people do.
FairSpec == Spec /\ WF_draft(Timeout)

-----------------------------------------------------------------------------
(* Type invariant: every field of the draft keeps its declared shape, and  *)
(* a queued pick always names an occupant, never a vacated seat.           *)
TypeOK ==
    /\ draft \in DraftState
    /\ Picking(draft) <=> draft.packsInFlight # <<>>

\* Where card c is: in a seat's pool, in the pack at a seat, or unopened.
Places(c) ==
    {<<"pool", i>> : i \in {j \in Seat : c \in draft.pickedPools[j]}}
    \cup {<<"pack", i>> : i \in {j \in DOMAIN draft.packsInFlight : c \in draft.packsInFlight[j].cards}}
    \cup {<<"unopened", k>> : k \in {m \in DOMAIN draft.unopenedRounds : draft.unopenedRounds[m] = c.round}}

(* Every card of the draft is in exactly one place at all times: no pick,  *)
(* timeout, last-card award or change of round loses a card, deals it      *)
(* twice or leaves it in a pack after somebody took it (commitPicks).      *)
CardsConserved == \A c \in AllCards : \E place \in Places(c) : Places(c) = {place}

(* A queued pick stays committable for as long as it is queued: it targets *)
(* the current round and pick, the seat's present occupant, the pack now   *)
(* in front of that seat and a card still in it, and a seat queues one.    *)
(* So the exceptions of commitPicks, which would abort the whole table's   *)
(* barrier, are unreachable, whatever stale intents or departures preceded *)
(* (pickCard, vacateSeat, fillSeat).                                       *)
QueueCommittable ==
    /\ \A p \in draft.provisionalPicks :
           /\ Picking(draft)
           /\ p.round = draft.round /\ p.pick = draft.pick
           /\ p.occupant = draft.seats[p.seat].occupantId
           /\ p.packOrigin = draft.packsInFlight[p.seat].origin
           /\ p.card \in draft.packsInFlight[p.seat].cards
    /\ \A p, q \in draft.provisionalPicks : p.seat = q.seat => p = q

(* All packs of the table shrink and travel in step, though the code looks *)
(* at the first pack only: at pick k of a round every pack has k-1 cards   *)
(* fewer than it opened with, always at least one, and the pack in front   *)
(* of a seat is the one opened k-1 seats up the passing direction          *)
(* (passPacks, openPacks, commitPicks).                                    *)
PacksInStep ==
    Picking(draft) =>
        /\ draft.passDirection = DirectionForRound(draft.round)
        /\ \A i \in Seat :
            LET pack == draft.packsInFlight[i]
                passes == draft.pick - 1
            IN  /\ pack.cards # {}
                /\ pack.round = draft.round
                /\ pack.cards \subseteq CardsOf(draft.round, pack.origin)
                /\ Cardinality(pack.cards) = PackSize[draft.round] - passes
                /\ pack.origin = (IF draft.passDirection = "left" THEN i - passes ELSE i + passes) % N

(* Nobody falls behind: all pools have the same size at every moment, the  *)
(* counter totalPicks is their sum, and a complete draft has dealt every   *)
(* seat one full pack of each round.                                       *)
FairShares ==
    /\ \A i \in Seat : Cardinality(draft.pickedPools[i]) * N = draft.totalPicks
    /\ draft.status = "complete" =>
           draft.totalPicks = N * (PackSize[1] + PackSize[2] + PackSize[3])

\* What a commit gives each seat: took[i] from the pack in front of it, and the
\* last card of the pack that its neighbour hands on.
QueueHonoured ==
    LET Front(i) == draft.packsInFlight[i].cards
        Gained(i) == draft'.pickedPools[i] \ draft.pickedPools[i]
        Neighbour(i) == PassesFrom(i, draft.passDirection)
    IN  \E took \in [Seat -> UNION {Gained(i) : i \in Seat}] : \A i \in Seat :
            /\ took[i] \in Front(i)
            /\ \A p \in PicksAt(draft, i) : took[i] = p.card
            /\ Gained(i) = {took[i]} \cup
                   IF Cardinality(Front(Neighbour(i))) = 2
                   THEN Front(Neighbour(i)) \ {took[Neighbour(i)]} ELSE {}

(* A barrier honours the queue: in the step that commits, every seat takes *)
(* one card of the pack in front of it, the card it had queued if it had   *)
(* queued one, and receives no other card but the last one of the pack its *)
(* neighbour would have handed on, once the neighbour has taken its own.   *)
(* At a table of one seat the neighbour is the seat itself (commitPicks,   *)
(* for both revealBarrier and resolveTimeout).                             *)
CommitHonoursQueue == [][draft'.totalPicks # draft.totalPicks => QueueHonoured]_draft

(* A queued pick outlives everything but its purpose: it disappears only   *)
(* when a barrier commits, when the same occupant replaces it, or when the *)
(* occupant leaves the seat.  In particular a disconnection and a return   *)
(* preserve it, and another seat's action never touches it.                *)
QueueDurable ==
    [][\A p \in draft.provisionalPicks :
            \/ p \in draft'.provisionalPicks
            \/ draft'.totalPicks > draft.totalPicks
            \/ \E q \in PicksAt(draft', p.seat) : q.occupant = p.occupant
            \/ draft'.seats[p.seat].occupantId = Nobody]_draft

-----------------------------------------------------------------------------
(* Refinement.                                                             *)

\* N, which is no seat, stands for the holder of an undealt card.
HolderOf(c) ==
    IF \E i \in Seat : c \in draft.pickedPools[i]
    THEN CHOOSE i \in Seat : c \in draft.pickedPools[i]
    ELSE N

Deal == INSTANCE FairDeal WITH
            Players <- Seat, Deck <- AllCards, Undealt <- N,
            holder <- [c \in AllCards |-> HolderOf(c)]

(* The draft implements the abstract deal: however people queue, leave and *)
(* time out, cards are dealt in equal shares, a dealt card never changes   *)
(* hands, and with a pick clock every card is dealt in the end.            *)
ImplementsFairDeal == Deal!Promise

Progress == INSTANCE DraftProgress WITH
                progress <- [status |-> draft.status, round |-> draft.round,
                             pick |-> draft.pick, seats |-> draft.seats,
                             queued |-> Queued(draft)]

(* Forgetting the cards gives DraftProgress: the table moves on, changes   *)
(* round and ends at the pick numbers that the pack sizes alone determine, *)
(* and only its own picks, presence and departures touch a seat's queue.   *)
ImplementsProgress == Progress!Spec

=============================================================================
