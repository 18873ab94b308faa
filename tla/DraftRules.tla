----------------------------- MODULE DraftRules -----------------------------
(***************************************************************************)
(* The rules of a booster draft, packages/draft/src/index.ts.  The package *)
(* is a set of pure functions from one immutable draft state to the next;  *)
(* every operator below that takes a draft d is one of those functions,    *)
(* and its guard, the operator of the same name prefixed with Can, is the  *)
(* conjunction of the conditions under which the function does not throw.  *)
(*                                                                         *)
(* Abstractions.  A card is the slot of the pack it was opened in: its     *)
(* instance id is unique across the draft (copyPack refuses a duplicate),  *)
(* so <round, origin, slot> names it.  A pack's cards and a pool are sets; *)
(* the order of a pack is the order of its slots, which removal preserves. *)
(* pendingSeatIds and legalChoices are derived from the other fields and   *)
(* appear as operators.                                                    *)
(***************************************************************************)
EXTENDS Integers, Sequences, FiniteSets

CONSTANTS
    N,          \* number of seats
    PackSize,   \* PackSize[r]: cards in every pack of round r
    Occupant,   \* identities that may hold a seat
    Nobody      \* the occupantId of a vacated seat (null in the code)

ASSUME NAssumption == N \in Nat \ {0}
ASSUME PackSizeAssumption == PackSize \in [1..3 -> Nat \ {0}]
ASSUME NobodyAssumption == Nobody \notin Occupant

Seat == 0 .. N-1
Round == 1..3
Direction == {"left", "right"}
Controller == {"human", "bot"}

CardsOf(r, o) == {[round |-> r, origin |-> o, slot |-> k] : k \in 1..PackSize[r]}
AllCards == UNION {CardsOf(r, o) : r \in Round, o \in Seat}

SeatState == [controller : Controller, occupantId : Occupant \cup {Nobody}, connected : BOOLEAN]
PackInFlight == [round : Round, origin : Seat, cards : SUBSET AllCards]
ProvisionalPick ==
    [round : Round, pick : Nat \ {0}, seat : Seat, occupant : Occupant,
     packOrigin : Seat, card : AllCards]

\* Rounds still to be opened.
Unopened == {<<2, 3>>, <<3>>, <<>>}

\* No pack is in flight once the draft is complete.
DraftState ==
    [status : {"picking", "complete"},
     seats : [Seat -> SeatState],
     round : Round,
     pick : Nat \ {0},
     passDirection : Direction,
     packsInFlight : [Seat -> PackInFlight] \cup {<<>>},
     unopenedRounds : Unopened,
     provisionalPicks : SUBSET ProvisionalPick,
     pickedPools : [Seat -> SUBSET AllCards],
     totalPicks : Nat]

-----------------------------------------------------------------------------
(* The ring of seats.  Left hands a pack to the next index, right to the   *)
(* previous one, both modulo the number of seats.                          *)

Successor(i) == IF i = N-1 THEN 0 ELSE i+1
Predecessor(i) == IF i = 0 THEN N-1 ELSE i-1

DirectionForRound(r) == IF r = 2 THEN "right" ELSE "left"

\* Mutant: packs go left in every round.
PassesFrom_alwaysLeft(i, dir) == Predecessor(i)

\* The seat whose pack arrives at seat i when packs pass in direction dir.
PassesFrom(i, dir) == IF dir = "left" THEN Predecessor(i) ELSE Successor(i)

PassPacks(packs, dir) == [i \in Seat |-> packs[PassesFrom(i, dir)]]

OpenPacks(r) == [i \in Seat |-> [round |-> r, origin |-> i, cards |-> CardsOf(r, i)]]

-----------------------------------------------------------------------------
(* Selectors over a draft.                                                 *)

Picking(d) == d.status = "picking"
PicksAt(d, i) == {p \in d.provisionalPicks : p.seat = i}
Queued(d) == {p.seat : p \in d.provisionalPicks}
PendingSeats(d) == IF Picking(d) THEN Seat \ Queued(d) ELSE {}

\* legalChoices lists only seats that are occupied and connected.
MayChoose(d, i) == Picking(d) /\ d.seats[i].occupantId # Nobody /\ d.seats[i].connected

FirstCard(cards) == CHOOSE c \in cards : \A e \in cards : c.slot <= e.slot

-----------------------------------------------------------------------------
(* createDraft.  seatSetup gives every seat its controller, its occupant   *)
(* and whether it is connected.                                            *)

LegalSetup(seatSetup) ==
    /\ seatSetup \in [Seat -> [controller : Controller, occupantId : Occupant, connected : BOOLEAN]]
    /\ \A i, j \in Seat : seatSetup[i].occupantId = seatSetup[j].occupantId => i = j
    /\ \E i \in Seat : seatSetup[i].controller = "human"

CreateDraft(seatSetup) ==
    [status |-> "picking",
     seats |-> seatSetup,
     round |-> 1,
     pick |-> 1,
     passDirection |-> "left",
     packsInFlight |-> OpenPacks(1),
     unopenedRounds |-> <<2, 3>>,
     provisionalPicks |-> {},
     pickedPools |-> [i \in Seat |-> {}],
     totalPicks |-> 0]

-----------------------------------------------------------------------------
(* pickCard: queue a choice, or replace the one already queued.            *)

IntentFor(d, i, c) ==
    [round |-> d.round, pick |-> d.pick, seat |-> i, occupant |-> d.seats[i].occupantId,
     packOrigin |-> d.packsInFlight[i].origin, card |-> c]

CanPickCard(d, intent) ==
    /\ Picking(d)
    /\ intent.round = d.round /\ intent.pick = d.pick
    /\ intent.seat \in Seat
    /\ d.seats[intent.seat].occupantId = intent.occupant
    /\ d.seats[intent.seat].connected
    /\ d.packsInFlight[intent.seat].origin = intent.packOrigin
    /\ intent.card \in d.packsInFlight[intent.seat].cards

PickCard(d, intent) ==
    IF \E p \in PicksAt(d, intent.seat) : p.card = intent.card
    THEN d
    ELSE [d EXCEPT !.provisionalPicks = (@ \ PicksAt(d, intent.seat)) \cup {intent}]

-----------------------------------------------------------------------------
(* disconnectSeat, reconnectSeat, vacateSeat, fillSeat.                    *)

OwnsSeat(d, i, o) == Picking(d) /\ i \in Seat /\ d.seats[i].occupantId = o

\* Mutant: a disconnection throws the queued pick away.
UpdatePresence_dropsQueue(d, i, connected) ==
    [d EXCEPT !.seats[i].connected = connected,
              !.provisionalPicks = IF connected THEN @ ELSE @ \ PicksAt(d, i)]

UpdatePresence(d, i, connected) == [d EXCEPT !.seats[i].connected = connected]

\* Mutant: the departing occupant's queued pick stays behind.
VacateSeat_keepsQueue(d, i) ==
    [d EXCEPT !.seats[i] = [@ EXCEPT !.occupantId = Nobody, !.connected = FALSE]]

VacateSeat(d, i) ==
    [d EXCEPT !.seats[i] = [@ EXCEPT !.occupantId = Nobody, !.connected = FALSE],
              !.provisionalPicks = @ \ PicksAt(d, i)]

CanFillSeat(d, i, o) ==
    /\ Picking(d) /\ i \in Seat
    /\ d.seats[i].occupantId = Nobody
    /\ \A j \in Seat : d.seats[j].occupantId # o

FillSeat(d, i, o, controller, connected) ==
    [d EXCEPT !.seats[i] = [controller |-> controller, occupantId |-> o, connected |-> connected]]

-----------------------------------------------------------------------------
(* commitPicks.  picks is the barrier's complete set of selections.        *)

\* The two exceptions commitPicks raises: a pack without its exact selection,
\* and a selected card that is no longer in the pack.
CanCommit(d, picks) ==
    \A i \in Seat : \E p \in picks :
        /\ p.seat = i
        /\ p.packOrigin = d.packsInFlight[i].origin
        /\ p.card \in d.packsInFlight[i].cards

SelectedCard(picks, i) == (CHOOSE p \in picks : p.seat = i).card

\* Mutant: the selected card is copied to the pool and left in its pack.
ReducedPacks_keepsCard(d, picks) == d.packsInFlight

ReducedPacks(d, picks) ==
    [i \in Seat |-> [d.packsInFlight[i] EXCEPT !.cards = @ \ {SelectedCard(picks, i)}]]

\* Mutant: the last card of a pack is not awarded with the pick before it.
LastCardsLeft_never(reduced) == FALSE

\* The test reads the pack of the first seat only and decides for all of them.
LastCardsLeft(reduced) == Cardinality(reduced[0].cards) = 1

\* Mutant: the last cards are handed out before the packs pass.
AwardedCards_unpassed(reduced, dir, i) ==
    IF LastCardsLeft(reduced) THEN {FirstCard(reduced[i].cards)} ELSE {}

\* Mutant: every seat is awarded the last card of the first pack.
AwardedCards_firstPack(reduced, dir, i) ==
    IF LastCardsLeft(reduced) THEN {FirstCard(reduced[0].cards)} ELSE {}

\* The card a seat takes beside its selection: the last card of the pack that
\* reaches it, when exactly one card is left.
AwardedCards(reduced, dir, i) ==
    IF LastCardsLeft(reduced)
    THEN {FirstCard(PassPacks(reduced, dir)[i].cards)}
    ELSE {}

CommittedCards(d, picks, i) ==
    {SelectedCard(picks, i)} \cup AwardedCards(ReducedPacks(d, picks), d.passDirection, i)

PoolsAfter(d, picks) == [i \in Seat |-> d.pickedPools[i] \cup CommittedCards(d, picks, i)]

\* Mutant: awarded last cards are not counted.
PicksTaken_uncounted(d, picks) == N

PicksTaken(d, picks) == IF LastCardsLeft(ReducedPacks(d, picks)) THEN 2*N ELSE N

\* What is left in the packs decides between the next pick, the next round and
\* the end; an awarded last card empties the packs.
PacksLive(reduced) == ~LastCardsLeft(reduced) /\ reduced[0].cards # {}

CommitPicks(d, picks) ==
    LET reduced == ReducedPacks(d, picks)
        counted == [d EXCEPT !.provisionalPicks = {},
                             !.pickedPools = PoolsAfter(d, picks),
                             !.totalPicks = @ + PicksTaken(d, picks)]
    IN  IF PacksLive(reduced)
        THEN [counted EXCEPT !.pick = @ + 1,
                             !.packsInFlight = PassPacks(reduced, d.passDirection)]
        ELSE IF d.unopenedRounds # <<>>
        THEN [counted EXCEPT !.round = @ + 1,
                             !.pick = 1,
                             !.passDirection = DirectionForRound(d.round + 1),
                             !.packsInFlight = OpenPacks(Head(d.unopenedRounds)),
                             !.unopenedRounds = Tail(@)]
        ELSE [counted EXCEPT !.status = "complete",
                             !.packsInFlight = <<>>]

-----------------------------------------------------------------------------
(* revealBarrier and resolveTimeout.                                       *)

\* revealBarrier only counts the queued picks.
BarrierReady(d) == Picking(d) /\ Cardinality(d.provisionalPicks) = N

RevealBarrier(d) == CommitPicks(d, d.provisionalPicks)

\* The choices a timeout may make for the seats that queued nothing: any card
\* of the pack in front of each, since the random source is the caller's.
Fallbacks(d) ==
    {f \in [PendingSeats(d) -> UNION {d.packsInFlight[i].cards : i \in Seat}] :
        \A i \in PendingSeats(d) : f[i] \in d.packsInFlight[i].cards}

\* A fallback carries the occupant, or a placeholder for a vacated seat, and
\* the pack the intent named.
FallbackPick(d, i, c) ==
    [round |-> d.round, pick |-> d.pick, seat |-> i, occupant |-> d.seats[i].occupantId,
     packOrigin |-> d.packsInFlight[i].origin, card |-> c]

WithFallbacks(d, f) ==
    d.provisionalPicks \cup {FallbackPick(d, i, f[i]) : i \in PendingSeats(d)}

ResolveTimeout(d, f) == CommitPicks(d, WithFallbacks(d, f))

-----------------------------------------------------------------------------
(* runPendingBots: every connected bot without a queued pick takes a card  *)
(* through pickCard, one after the other; policy[i] is the card bot i      *)
(* takes.  The calls touch different seats, so their order is immaterial.  *)

\* Mutant: a bot picks although its seat is vacated or disconnected.
PendingBots_anyBot(d) == {i \in PendingSeats(d) : d.seats[i].controller = "bot"}

PendingBots(d) ==
    {i \in PendingSeats(d) : d.seats[i].controller = "bot" /\ MayChoose(d, i)}

BotPolicies(d) ==
    {f \in [PendingBots(d) -> UNION {d.packsInFlight[i].cards : i \in PendingBots(d)}] :
        \A i \in PendingBots(d) : f[i] \in d.packsInFlight[i].cards}

RunPendingBots(d, policy) ==
    [d EXCEPT !.provisionalPicks = @ \cup {IntentFor(d, i, policy[i]) : i \in PendingBots(d)}]

=============================================================================
