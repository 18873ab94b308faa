---------------------------- MODULE DraftProofs -----------------------------
(***************************************************************************)
(* What holds of Draft for any number of seats, any pack sizes and any set *)
(* of identities.  First come facts about the functions of                 *)
(* packages/draft/src/index.ts, one per function; then the invariants of   *)
(* the draft that they give, and the arithmetic of its shares.             *)
(***************************************************************************)
EXTENDS Draft, FunctionTheorems, FiniteSetTheorems, TLAPS

-----------------------------------------------------------------------------
(* What every function keeps.                                              *)

\* Packs left to open when round r has been opened.
RoundsAfter(r) == IF r = 1 THEN <<2, 3>> ELSE IF r = 2 THEN <<3>> ELSE <<>>

\* All packs of the table hold the same number of cards, never none: what
\* commitPicks relies on when it looks at the first pack only.
PacksAlike(packs) ==
    \E n \in Nat \ {0} : \A i \in Seat :
        IsFiniteSet(packs[i].cards) /\ Cardinality(packs[i].cards) = n

PacksReady(d) ==
    IF Picking(d)
    THEN /\ d.packsInFlight \in [Seat -> PackInFlight]
         /\ d.unopenedRounds = RoundsAfter(d.round)
         /\ PacksAlike(d.packsInFlight)
    ELSE d.packsInFlight = <<>> /\ d.unopenedRounds = <<>> /\ d.provisionalPicks = {}

\* A pick that the barrier can commit as the draft stands.
Committable(d, p) ==
    /\ p.round = d.round /\ p.pick = d.pick
    /\ p.occupant = d.seats[p.seat].occupantId
    /\ p.packOrigin = d.packsInFlight[p.seat].origin
    /\ p.card \in d.packsInFlight[p.seat].cards

QueueReady(d) ==
    /\ \A p \in d.provisionalPicks : Committable(d, p)
    /\ \A p, q \in d.provisionalPicks : p.seat = q.seat => p = q

Sound(d) == d \in DraftState /\ PacksReady(d) /\ QueueReady(d)

-----------------------------------------------------------------------------
(* The ring and the packs.                                                 *)

\* There is a first seat, and packs in flight are never the empty tuple that
\* stands for a finished draft.
LEMMA SeatFacts == 0 \in Seat /\ <<>> \notin [Seat -> PackInFlight]
<1>1. 0 \in Seat
  BY NAssumption DEF Seat
<1>2. QED
  BY <1>1

\* A pack arrives from a seat of the ring.
LEMMA PassesFromType ==
    ASSUME NEW i \in Seat, NEW dir
    PROVE  PassesFrom(i, dir) \in Seat
BY NAssumption DEF Seat, PassesFrom, Predecessor, Successor

\* The cards of a fresh pack are as many as its size says.
LEMMA FreshPack ==
    ASSUME NEW r \in Round, NEW o \in Seat
    PROVE  /\ CardsOf(r, o) \subseteq AllCards
           /\ IsFiniteSet(CardsOf(r, o))
           /\ Cardinality(CardsOf(r, o)) = PackSize[r]
           /\ PackSize[r] \in Nat \ {0}
<1> DEFINE card(k) == [round |-> r, origin |-> o, slot |-> k]
           f == [k \in 1..PackSize[r] |-> card(k)]
<1>1. PackSize[r] \in Nat \ {0}
  BY PackSizeAssumption DEF Round
<1>2. CardsOf(r, o) \subseteq AllCards
  BY DEF AllCards
<1>3. f \in Bijection(1..PackSize[r], CardsOf(r, o))
  <2>1. f \in [1..PackSize[r] -> CardsOf(r, o)]
    BY DEF CardsOf
  <2>2. \A j, k \in 1..PackSize[r] : f[j] = f[k] => j = k
    <3>1. \A k \in 1..PackSize[r] : f[k].slot = k
      OBVIOUS
    <3>2. QED
      BY <3>1
  <2>3. \A c \in CardsOf(r, o) : \E k \in 1..PackSize[r] : f[k] = c
    BY DEF CardsOf
  <2>4. QED
    BY <2>1, <2>2, <2>3, Fun_IsBij
<1>4. IsFiniteSet(1..PackSize[r]) /\ Cardinality(1..PackSize[r]) = PackSize[r]
  BY <1>1, FS_Interval, SMTT(20)
<1>5. QED
  BY <1>1, <1>2, <1>3, <1>4, FS_Bijection DEF ExistsBijection

\* A freshly opened round gives every seat a pack of the same size.
LEMMA OpenPacksFacts ==
    ASSUME NEW r \in Round
    PROVE  OpenPacks(r) \in [Seat -> PackInFlight] /\ PacksAlike(OpenPacks(r))
<1>1. \A i \in Seat : OpenPacks(r)[i].cards = CardsOf(r, i)
  BY DEF OpenPacks
<1>2. OpenPacks(r) \in [Seat -> PackInFlight]
  BY FreshPack DEF OpenPacks, PackInFlight
<1>3. PacksAlike(OpenPacks(r))
  <2>1. PackSize[r] \in Nat \ {0}
    BY FreshPack, SeatFacts
  <2>2. \A i \in Seat : IsFiniteSet(CardsOf(r, i)) /\ Cardinality(CardsOf(r, i)) = PackSize[r]
    BY FreshPack
  <2>3. QED
    BY <1>1, <2>1, <2>2 DEF PacksAlike
<1>4. QED
  BY <1>2, <1>3

\* Passing the packs along the ring keeps them packs, and alike.
LEMMA PassPacksFacts ==
    ASSUME NEW packs \in [Seat -> PackInFlight], NEW dir
    PROVE  /\ PassPacks(packs, dir) \in [Seat -> PackInFlight]
           /\ PacksAlike(packs) => PacksAlike(PassPacks(packs, dir))
<1>1. \A i \in Seat : PassPacks(packs, dir)[i] = packs[PassesFrom(i, dir)]
  BY DEF PassPacks
<1>2. PassPacks(packs, dir) \in [Seat -> PackInFlight]
  BY PassesFromType DEF PassPacks
<1>3. ASSUME PacksAlike(packs) PROVE PacksAlike(PassPacks(packs, dir))
  BY <1>1, <1>3, PassesFromType DEF PacksAlike
<1>4. QED
  BY <1>2, <1>3

-----------------------------------------------------------------------------
(* commitPicks.                                                            *)

\* Every seat has a selection, and every selection lies in its seat's pack.
CompletePicks(d, picks) ==
    /\ \A i \in Seat : \E p \in picks : p.seat = i
    /\ \A p \in picks : p.seat \in Seat /\ p.card \in d.packsInFlight[p.seat].cards

\* The selections include the queue, one for each seat.
HonoursQueue(d, picks) ==
    /\ d.provisionalPicks \subseteq picks
    /\ \A p, q \in picks : p.seat = q.seat => p = q

\* What commitPicks takes for a seat that queued a pick is the card it queued.
LEMMA SelectedWasQueued ==
    ASSUME NEW d, NEW picks, HonoursQueue(d, picks), NEW i \in Seat, NEW p \in PicksAt(d, i)
    PROVE  SelectedCard(picks, i) = p.card
<1>1. p \in picks /\ p.seat = i
  BY DEF HonoursQueue, PicksAt
<1>2. (CHOOSE q \in picks : q.seat = i) = p
  BY <1>1 DEF HonoursQueue
<1>3. QED
  BY <1>2 DEF SelectedCard

\* What commitPicks takes for a seat is in the pack in front of it.
LEMMA SelectedInPack ==
    ASSUME NEW d, NEW picks, CompletePicks(d, picks), NEW i \in Seat
    PROVE  SelectedCard(picks, i) \in d.packsInFlight[i].cards
<1>1. \E p \in picks : p.seat = i
  BY DEF CompletePicks
<1>2. PICK p \in picks : p = (CHOOSE q \in picks : q.seat = i) /\ p.seat = i
  BY <1>1
<1>3. QED
  BY <1>2 DEF CompletePicks, SelectedCard

\* A pack without one of its cards is a pack.
LEMMA PackWithout ==
    ASSUME NEW pack \in PackInFlight, NEW c
    PROVE  /\ [pack EXCEPT !.cards = @ \ {c}] \in PackInFlight
           /\ [pack EXCEPT !.cards = @ \ {c}].cards = pack.cards \ {c}
BY DEF PackInFlight

\* Every pack loses exactly its seat's selection, so packs that were alike
\* still are.
LEMMA ReducedPacksFacts ==
    ASSUME NEW d, NEW picks, CompletePicks(d, picks),
           d.packsInFlight \in [Seat -> PackInFlight], PacksAlike(d.packsInFlight)
    PROVE  /\ ReducedPacks(d, picks) \in [Seat -> PackInFlight]
           /\ \A i \in Seat : ReducedPacks(d, picks)[i].cards =
                                  d.packsInFlight[i].cards \ {SelectedCard(picks, i)}
           /\ \E n \in Nat : \A i \in Seat :
                  /\ IsFiniteSet(ReducedPacks(d, picks)[i].cards)
                  /\ Cardinality(ReducedPacks(d, picks)[i].cards) = n
<1> DEFINE reduced == ReducedPacks(d, picks)
<1>1. \A i \in Seat : reduced[i] = [d.packsInFlight[i] EXCEPT !.cards = @ \ {SelectedCard(picks, i)}]
  BY DEF ReducedPacks
<1>2. \A i \in Seat : d.packsInFlight[i] \in PackInFlight
  OBVIOUS
<1>3. \A i \in Seat : reduced[i].cards = d.packsInFlight[i].cards \ {SelectedCard(picks, i)}
  BY <1>1, <1>2, PackWithout
<1>4. reduced \in [Seat -> PackInFlight]
  <2>1. ASSUME NEW i \in Seat PROVE reduced[i] \in PackInFlight
    <3>1. [d.packsInFlight[i] EXCEPT !.cards = @ \ {SelectedCard(picks, i)}] \in PackInFlight
      BY <1>2, PackWithout
    <3>2. QED
      BY <1>1, <3>1, Zenon
  <2>2. QED
    BY <2>1 DEF ReducedPacks
<1>5. PICK m \in Nat \ {0} : \A i \in Seat :
          IsFiniteSet(d.packsInFlight[i].cards) /\ Cardinality(d.packsInFlight[i].cards) = m
  BY DEF PacksAlike
<1>6. ASSUME NEW i \in Seat
      PROVE  IsFiniteSet(reduced[i].cards) /\ Cardinality(reduced[i].cards) = m-1
  <2>1. SelectedCard(picks, i) \in d.packsInFlight[i].cards
    BY SelectedInPack
  <2>2. QED
    BY <1>3, <1>5, <2>1, FS_RemoveElement
<1>7. m-1 \in Nat
  BY <1>5
<1>8. QED
  BY <1>3, <1>4, <1>6, <1>7

\* When the first pack is down to its last card so is every other, and each
\* seat is awarded the only card of the pack that reaches it.
LEMMA AwardedFacts ==
    ASSUME NEW d, NEW picks, CompletePicks(d, picks),
           d.packsInFlight \in [Seat -> PackInFlight], PacksAlike(d.packsInFlight),
           NEW dir, NEW i \in Seat,
           LastCardsLeft(ReducedPacks(d, picks))
    PROVE  AwardedCards(ReducedPacks(d, picks), dir, i) =
               ReducedPacks(d, picks)[PassesFrom(i, dir)].cards
<1> DEFINE reduced == ReducedPacks(d, picks)
           j == PassesFrom(i, dir)
<1>1. j \in Seat /\ 0 \in Seat
  BY PassesFromType, SeatFacts
<1>2. IsFiniteSet(reduced[j].cards) /\ Cardinality(reduced[j].cards) = 1
  BY <1>1, ReducedPacksFacts DEF LastCardsLeft
<1>3. PICK c : reduced[j].cards = {c}
  BY <1>2, FS_Singleton
<1>4. c \in AllCards
  <2>1. reduced[j] \in PackInFlight
    BY <1>1, ReducedPacksFacts
  <2>2. QED
    BY <1>3, <2>1 DEF PackInFlight
<1>5. c.slot <= c.slot
  BY <1>4 DEF AllCards, CardsOf
<1>6. FirstCard(reduced[j].cards) = c
  BY <1>3, <1>5 DEF FirstCard
<1>7. PassPacks(reduced, dir)[i] = reduced[j]
  BY DEF PassPacks
<1>8. AwardedCards(reduced, dir, i) = {c}
  BY <1>6, <1>7 DEF AwardedCards
<1>9. QED
  BY <1>3, <1>8

\* Pools receive cards of the table only.
LEMMA PoolsAfterFacts ==
    ASSUME NEW d \in DraftState, NEW picks, CompletePicks(d, picks),
           d.packsInFlight \in [Seat -> PackInFlight], PacksAlike(d.packsInFlight)
    PROVE  PoolsAfter(d, picks) \in [Seat -> SUBSET AllCards]
<1> DEFINE reduced == ReducedPacks(d, picks)
<1>1. ASSUME NEW i \in Seat PROVE SelectedCard(picks, i) \in AllCards
  <2>1. d.packsInFlight[i] \in PackInFlight
    OBVIOUS
  <2>2. QED
    BY <2>1, SelectedInPack DEF PackInFlight
<1>2. ASSUME NEW i \in Seat PROVE AwardedCards(reduced, d.passDirection, i) \subseteq AllCards
  <2>1. CASE LastCardsLeft(reduced)
    <3>1. reduced[PassesFrom(i, d.passDirection)] \in PackInFlight
      BY ReducedPacksFacts, PassesFromType
    <3>2. reduced[PassesFrom(i, d.passDirection)].cards \subseteq AllCards
      BY <3>1 DEF PackInFlight
    <3>3. AwardedCards(reduced, d.passDirection, i) = reduced[PassesFrom(i, d.passDirection)].cards
      BY <2>1, AwardedFacts
    <3>4. QED
      BY <3>2, <3>3
  <2>2. CASE ~LastCardsLeft(reduced)
    BY <2>2 DEF AwardedCards
  <2>3. QED
    BY <2>1, <2>2
<1>3. d.pickedPools \in [Seat -> SUBSET AllCards]
  BY DEF DraftState
<1>4. QED
  BY <1>1, <1>2, <1>3 DEF PoolsAfter, CommittedCards

\* The record updates that commitPicks makes, apart from what they contain.
LEMMA CountedType ==
    ASSUME NEW d \in DraftState, NEW pools \in [Seat -> SUBSET AllCards], NEW total \in Nat
    PROVE  [d EXCEPT !.provisionalPicks = {}, !.pickedPools = pools, !.totalPicks = total] \in DraftState
BY DEF DraftState

\* Moving on to the next pick keeps the draft's type.
LEMMA NextPickType ==
    ASSUME NEW d \in DraftState, NEW packs \in [Seat -> PackInFlight], NEW pick \in Nat \ {0}
    PROVE  [d EXCEPT !.pick = pick, !.packsInFlight = packs] \in DraftState
BY DEF DraftState

\* Opening the next round keeps the draft's type.
LEMMA NextRoundType ==
    ASSUME NEW d \in DraftState, NEW packs \in [Seat -> PackInFlight], NEW r \in Round,
           NEW dir \in Direction, NEW rest \in Unopened, NEW pick \in Nat \ {0}
    PROVE  [d EXCEPT !.round = r, !.pick = pick, !.passDirection = dir,
                     !.packsInFlight = packs, !.unopenedRounds = rest] \in DraftState
BY DEF DraftState

\* A barrier committed over complete selections leaves a sound draft with an
\* empty queue.
LEMMA CommitPicksSound ==
    ASSUME NEW d, Sound(d), Picking(d), NEW picks, CompletePicks(d, picks)
    PROVE  /\ Sound(CommitPicks(d, picks))
           /\ CommitPicks(d, picks).provisionalPicks = {}
<1> DEFINE reduced == ReducedPacks(d, picks)
           next == CommitPicks(d, picks)
           counted == [d EXCEPT !.provisionalPicks = {},
                                !.pickedPools = PoolsAfter(d, picks),
                                !.totalPicks = @ + PicksTaken(d, picks)]
<1>1. d \in DraftState /\ d.packsInFlight \in [Seat -> PackInFlight] /\ PacksAlike(d.packsInFlight)
      /\ d.unopenedRounds = RoundsAfter(d.round) /\ d.round \in Round
  BY DEF Sound, PacksReady, DraftState
<1>2. /\ reduced \in [Seat -> PackInFlight]
      /\ \E n \in Nat : \A i \in Seat : IsFiniteSet(reduced[i].cards) /\ Cardinality(reduced[i].cards) = n
  BY <1>1, ReducedPacksFacts
<1>3. PicksTaken(d, picks) \in Nat
  BY NAssumption DEF PicksTaken
<1>4. counted \in DraftState
  <2>1. d.totalPicks + PicksTaken(d, picks) \in Nat
    BY <1>1, <1>3 DEF DraftState
  <2>2. QED
    BY <1>1, <2>1, PoolsAfterFacts, CountedType
<1>5. /\ counted.provisionalPicks = {} /\ counted.status = "picking"
      /\ counted.round = d.round /\ counted.unopenedRounds = d.unopenedRounds
      /\ counted.pick = d.pick
  BY <1>1 DEF DraftState, Picking
<1> HIDE DEF counted
<1>6. CASE PacksLive(reduced)
  <2>1. PacksAlike(reduced)
    <3>1. reduced[0].cards # {} /\ 0 \in Seat
      BY <1>6, SeatFacts DEF PacksLive
    <3>2. Cardinality(reduced[0].cards) # 0
      BY <1>2, <3>1, FS_EmptySet
    <3>3. QED
      BY <1>2, <3>1, <3>2 DEF PacksAlike
  <2>2. PassPacks(reduced, d.passDirection) \in [Seat -> PackInFlight]
        /\ PacksAlike(PassPacks(reduced, d.passDirection))
    BY <1>2, <2>1, PassPacksFacts
  <2>3. next = [counted EXCEPT !.pick = @ + 1, !.packsInFlight = PassPacks(reduced, d.passDirection)]
    BY <1>6 DEF CommitPicks, counted
  <2>4. next \in DraftState
    <3>1. counted.pick \in Nat \ {0}
      BY <1>4 DEF DraftState
    <3>2. counted.pick + 1 \in Nat \ {0}
      BY <3>1
    <3>3. [counted EXCEPT !.pick = counted.pick + 1,
                          !.packsInFlight = PassPacks(reduced, d.passDirection)] \in DraftState
      BY <1>4, <2>2, <3>2, NextPickType
    <3>4. QED
      BY <2>3, <3>3
  <2>5. /\ next.status = "picking" /\ next.provisionalPicks = {}
        /\ next.packsInFlight = PassPacks(reduced, d.passDirection)
        /\ next.unopenedRounds = RoundsAfter(next.round)
    BY <1>1, <1>4, <1>5, <2>3 DEF DraftState
  <2>6. QED
    BY <2>2, <2>4, <2>5 DEF Sound, PacksReady, QueueReady, Picking
<1>7. CASE ~PacksLive(reduced) /\ d.unopenedRounds # <<>>
  <2>1. d.round \in {1, 2}
    BY <1>1, <1>7 DEF RoundsAfter, Round
  <2>2. /\ d.round + 1 \in Round /\ Head(d.unopenedRounds) = d.round + 1
        /\ Tail(d.unopenedRounds) = RoundsAfter(d.round + 1)
    BY <1>1, <2>1 DEF RoundsAfter, Round
  <2>3. OpenPacks(d.round + 1) \in [Seat -> PackInFlight] /\ PacksAlike(OpenPacks(d.round + 1))
    BY <2>2, OpenPacksFacts
  <2>4. next = [counted EXCEPT !.round = @ + 1,
                               !.pick = 1,
                               !.passDirection = DirectionForRound(d.round + 1),
                               !.packsInFlight = OpenPacks(Head(d.unopenedRounds)),
                               !.unopenedRounds = Tail(@)]
    BY <1>7 DEF CommitPicks, counted
  <2>5. /\ RoundsAfter(d.round + 1) \in Unopened /\ DirectionForRound(d.round + 1) \in Direction
        /\ 1 \in Nat \ {0}
    BY DEF RoundsAfter, Unopened, DirectionForRound, Direction
  <2>6. next \in DraftState
    <3>1. counted.round + 1 \in Round /\ Tail(counted.unopenedRounds) \in Unopened
      BY <1>5, <2>2, <2>5
    <3>2. [counted EXCEPT !.round = counted.round + 1,
                          !.pick = 1,
                          !.passDirection = DirectionForRound(d.round + 1),
                          !.packsInFlight = OpenPacks(d.round + 1),
                          !.unopenedRounds = Tail(counted.unopenedRounds)] \in DraftState
      BY <1>4, <2>3, <2>5, <3>1, NextRoundType
    <3>3. QED
      BY <2>2, <2>4, <3>2
  <2>7. /\ next.status = "picking" /\ next.provisionalPicks = {}
        /\ next.packsInFlight = OpenPacks(d.round + 1)
        /\ next.unopenedRounds = RoundsAfter(next.round)
    BY <1>4, <1>5, <2>2, <2>4 DEF DraftState
  <2>8. QED
    BY <2>3, <2>6, <2>7 DEF Sound, PacksReady, QueueReady, Picking
<1>8. CASE ~PacksLive(reduced) /\ d.unopenedRounds = <<>>
  <2>1. next = [counted EXCEPT !.status = "complete", !.packsInFlight = <<>>]
    BY <1>8 DEF CommitPicks, counted
  <2>2. next \in DraftState
    BY <1>4, <2>1 DEF DraftState
  <2>3. /\ next.status = "complete" /\ next.provisionalPicks = {}
        /\ next.packsInFlight = <<>> /\ next.unopenedRounds = <<>>
    BY <1>4, <1>5, <1>8, <2>1 DEF DraftState
  <2>4. QED
    BY <2>2, <2>3 DEF Sound, PacksReady, QueueReady, Picking
<1>9. QED
  BY <1>6, <1>7, <1>8

\* A full barrier leaves a sound draft (revealBarrier).
LEMMA RevealBarrierSound ==
    ASSUME NEW d, Sound(d), Picking(d), CanCommit(d, d.provisionalPicks)
    PROVE  Sound(RevealBarrier(d))
<1>1. CompletePicks(d, d.provisionalPicks)
  BY DEF Sound, DraftState, ProvisionalPick, QueueReady, Committable, CanCommit, CompletePicks
<1>2. QED
  BY <1>1, CommitPicksSound DEF RevealBarrier

\* The fallbacks fill exactly the seats that queued nothing.
LEMMA FallbacksComplete ==
    ASSUME NEW d, Sound(d), Picking(d), NEW f \in Fallbacks(d)
    PROVE  /\ CompletePicks(d, WithFallbacks(d, f)) /\ CanCommit(d, WithFallbacks(d, f))
           /\ HonoursQueue(d, WithFallbacks(d, f))
<1> DEFINE picks == WithFallbacks(d, f)
<1>1. \A p \in d.provisionalPicks :
          /\ p.seat \in Seat
          /\ p.packOrigin = d.packsInFlight[p.seat].origin
          /\ p.card \in d.packsInFlight[p.seat].cards
  BY DEF Sound, DraftState, ProvisionalPick, QueueReady, Committable
<1>2. \A i \in PendingSeats(d) :
          /\ i \in Seat
          /\ FallbackPick(d, i, f[i]).seat = i
          /\ FallbackPick(d, i, f[i]).packOrigin = d.packsInFlight[i].origin
          /\ FallbackPick(d, i, f[i]).card \in d.packsInFlight[i].cards
  BY DEF PendingSeats, Fallbacks, FallbackPick
<1>3. \A p \in picks :
          /\ p.seat \in Seat
          /\ p.packOrigin = d.packsInFlight[p.seat].origin
          /\ p.card \in d.packsInFlight[p.seat].cards
  BY <1>1, <1>2 DEF WithFallbacks
<1>4. ASSUME NEW i \in Seat PROVE \E p \in picks : p.seat = i
  <2>1. CASE i \in Queued(d)
    BY <2>1 DEF Queued, WithFallbacks
  <2>2. CASE i \in PendingSeats(d)
    BY <1>2, <2>2 DEF WithFallbacks
  <2>3. QED
    BY <2>1, <2>2 DEF PendingSeats
<1>5. HonoursQueue(d, picks)
  <2>1. \A p, q \in d.provisionalPicks : p.seat = q.seat => p = q
    BY DEF Sound, QueueReady
  <2>2. \A i \in PendingSeats(d) : \A p \in d.provisionalPicks : p.seat # i
    BY DEF PendingSeats, Queued
  <2>3. \A i, j \in PendingSeats(d) :
            FallbackPick(d, i, f[i]).seat = FallbackPick(d, j, f[j]).seat => i = j
    BY <1>2
  <2>4. QED
    BY <1>2, <2>1, <2>2, <2>3 DEF HonoursQueue, WithFallbacks
<1>6. QED
  BY <1>3, <1>4, <1>5 DEF CompletePicks, CanCommit

\* A timeout leaves a sound draft, whatever cards it falls back on
\* (resolveTimeout).
LEMMA ResolveTimeoutSound ==
    ASSUME NEW d, Sound(d), Picking(d), NEW f \in Fallbacks(d)
    PROVE  Sound(ResolveTimeout(d, f))
BY FallbacksComplete, CommitPicksSound DEF ResolveTimeout

-----------------------------------------------------------------------------
(* Queueing, presence and departures.                                      *)

\* What replaces the queue of a sound draft by a committable one keeps it sound.
LEMMA QueueReplaced ==
    ASSUME NEW d, Sound(d), Picking(d),
           NEW queue \in SUBSET ProvisionalPick,
           \A p \in queue : Committable(d, p),
           \A p, q \in queue : p.seat = q.seat => p = q
    PROVE  Sound([d EXCEPT !.provisionalPicks = queue])
<1> DEFINE next == [d EXCEPT !.provisionalPicks = queue]
<1>1. next \in DraftState
  BY DEF Sound, DraftState
<1>2. /\ next.provisionalPicks = queue /\ next.status = d.status /\ next.round = d.round
      /\ next.pick = d.pick /\ next.seats = d.seats /\ next.packsInFlight = d.packsInFlight
      /\ next.unopenedRounds = d.unopenedRounds
  BY DEF Sound, DraftState
<1> HIDE DEF next
<1>3. PacksReady(next)
  BY <1>2 DEF Sound, PacksReady, Picking
<1>4. QueueReady(next)
  BY <1>2 DEF QueueReady, Committable
<1>5. QED
  BY <1>1, <1>3, <1>4 DEF Sound, next

\* Queueing or replacing a pick keeps the queue committable (pickCard).
LEMMA PickCardSound ==
    ASSUME NEW d, Sound(d), NEW intent \in ProvisionalPick, CanPickCard(d, intent)
    PROVE  Sound(PickCard(d, intent))
<1> DEFINE queue == (d.provisionalPicks \ PicksAt(d, intent.seat)) \cup {intent}
<1>1. Committable(d, intent)
  BY DEF CanPickCard, Committable
<1>2. queue \in SUBSET ProvisionalPick
  BY DEF Sound, DraftState
<1>3. \A p \in queue : Committable(d, p)
  BY <1>1 DEF Sound, QueueReady
<1>4. \A p, q \in queue : p.seat = q.seat => p = q
  BY DEF Sound, QueueReady, PicksAt
<1>5. Picking(d)
  BY DEF CanPickCard
<1>6. Sound([d EXCEPT !.provisionalPicks = queue])
  BY <1>2, <1>3, <1>4, <1>5, QueueReplaced
<1>7. QED
  BY <1>6 DEF PickCard

\* The bots' picks keep the queue committable (runPendingBots).
LEMMA RunPendingBotsSound ==
    ASSUME NEW d, Sound(d), Picking(d), NEW policy \in BotPolicies(d)
    PROVE  Sound(RunPendingBots(d, policy))
<1> DEFINE choice(i) == IntentFor(d, i, policy[i])
           queue == d.provisionalPicks \cup {choice(i) : i \in PendingBots(d)}
<1>1. ASSUME NEW i \in PendingBots(d)
      PROVE  /\ choice(i) \in ProvisionalPick /\ choice(i).seat = i
             /\ Committable(d, choice(i))
             /\ \A p \in d.provisionalPicks : p.seat # i
  <2>1. i \in Seat /\ d.seats[i].occupantId # Nobody /\ \A p \in d.provisionalPicks : p.seat # i
    BY DEF PendingBots, PendingSeats, Queued, MayChoose
  <2>2. d.packsInFlight[i] \in PackInFlight /\ d.seats[i] \in SeatState
    BY <2>1 DEF Sound, PacksReady, DraftState
  <2>3. policy[i] \in d.packsInFlight[i].cards
    BY DEF BotPolicies
  <2>4. policy[i] \in AllCards /\ d.packsInFlight[i].origin \in Seat /\ d.seats[i].occupantId \in Occupant
    BY <2>1, <2>2, <2>3 DEF PackInFlight, SeatState
  <2>5. choice(i) \in ProvisionalPick
    BY <2>1, <2>4 DEF Sound, DraftState, IntentFor, ProvisionalPick
  <2>6. choice(i).seat = i /\ Committable(d, choice(i))
    BY <2>3 DEF IntentFor, Committable
  <2>7. QED
    BY <2>1, <2>5, <2>6
<1> HIDE DEF choice
<1>2. queue \in SUBSET ProvisionalPick
  BY <1>1 DEF Sound, DraftState
<1>3. \A p \in queue : Committable(d, p)
  BY <1>1 DEF Sound, QueueReady
<1>4. \A p, q \in queue : p.seat = q.seat => p = q
  BY <1>1 DEF Sound, QueueReady
<1>5. Sound([d EXCEPT !.provisionalPicks = queue])
  BY <1>2, <1>3, <1>4, QueueReplaced
<1>6. QED
  BY <1>5 DEF RunPendingBots, choice

\* A new seating keeps the draft sound when every pick left in the queue is
\* its seat's holder's.
LEMMA SeatsReplaced ==
    ASSUME NEW d, Sound(d), Picking(d),
           NEW seats \in [Seat -> SeatState],
           NEW queue \in SUBSET d.provisionalPicks,
           \A p \in queue : p.occupant = seats[p.seat].occupantId
    PROVE  Sound([d EXCEPT !.seats = seats, !.provisionalPicks = queue])
<1> DEFINE next == [d EXCEPT !.seats = seats, !.provisionalPicks = queue]
<1>1. next \in DraftState
  BY DEF Sound, DraftState
<1>2. /\ next.provisionalPicks = queue /\ next.status = d.status /\ next.round = d.round
      /\ next.pick = d.pick /\ next.seats = seats /\ next.packsInFlight = d.packsInFlight
      /\ next.unopenedRounds = d.unopenedRounds
  BY DEF Sound, DraftState
<1> HIDE DEF next
<1>3. PacksReady(next)
  BY <1>2 DEF Sound, PacksReady, Picking
<1>4. QueueReady(next)
  BY <1>2 DEF Sound, QueueReady, Committable
<1>5. QED
  BY <1>1, <1>3, <1>4 DEF Sound, next

\* Disconnecting and reconnecting keep a draft sound (updatePresence).
LEMMA UpdatePresenceSound ==
    ASSUME NEW d, Sound(d), Picking(d), NEW i \in Seat, NEW connected \in BOOLEAN
    PROVE  Sound(UpdatePresence(d, i, connected))
<1> DEFINE seats == [d.seats EXCEPT ![i].connected = connected]
<1>1. d \in DraftState /\ d.seats \in [Seat -> SeatState]
  BY DEF Sound, DraftState
<1>2. seats \in [Seat -> SeatState] /\ \A j \in Seat : seats[j].occupantId = d.seats[j].occupantId
  BY <1>1 DEF SeatState
<1>3. \A p \in d.provisionalPicks : p.occupant = seats[p.seat].occupantId
  BY <1>1, <1>2 DEF Sound, QueueReady, Committable, DraftState, ProvisionalPick
<1>4. Sound([d EXCEPT !.seats = seats, !.provisionalPicks = d.provisionalPicks])
  BY <1>2, <1>3, SeatsReplaced
<1>5. UpdatePresence(d, i, connected) = [d EXCEPT !.seats = seats, !.provisionalPicks = d.provisionalPicks]
  BY <1>1 DEF UpdatePresence, DraftState
<1>6. QED
  BY <1>4, <1>5

\* A departure takes its queued pick along, so what stays queued names
\* present occupants (vacateSeat).
LEMMA VacateSeatSound ==
    ASSUME NEW d, Sound(d), Picking(d), NEW i \in Seat
    PROVE  Sound(VacateSeat(d, i))
<1> DEFINE seats == [d.seats EXCEPT ![i] = [@ EXCEPT !.occupantId = Nobody, !.connected = FALSE]]
           queue == d.provisionalPicks \ PicksAt(d, i)
<1>1. d \in DraftState /\ d.seats \in [Seat -> SeatState]
  BY DEF Sound, DraftState
<1>2. seats \in [Seat -> SeatState] /\ \A j \in Seat \ {i} : seats[j] = d.seats[j]
  BY <1>1 DEF SeatState
<1>3. \A p \in queue : p.seat \in Seat \ {i} /\ p.occupant = d.seats[p.seat].occupantId
  BY <1>1 DEF Sound, QueueReady, Committable, DraftState, ProvisionalPick, PicksAt
<1>4. Sound([d EXCEPT !.seats = seats, !.provisionalPicks = queue])
  BY <1>2, <1>3, SeatsReplaced
<1>5. QED
  BY <1>4 DEF VacateSeat

\* The seat that is filled is vacant, hence without a queue: a replacement
\* inherits the pack and the pool, and no queued pick.
LEMMA FillSeatSound ==
    ASSUME NEW d, Sound(d), NEW i, NEW o \in Occupant, CanFillSeat(d, i, o),
           NEW controller \in Controller, NEW connected \in BOOLEAN
    PROVE  Sound(FillSeat(d, i, o, controller, connected))
<1> DEFINE seat == [controller |-> controller, occupantId |-> o, connected |-> connected]
           seats == [d.seats EXCEPT ![i] = seat]
<1>1. d \in DraftState /\ d.seats \in [Seat -> SeatState] /\ i \in Seat /\ Picking(d)
      /\ d.seats[i].occupantId = Nobody
  BY DEF Sound, DraftState, CanFillSeat
<1>2. seats \in [Seat -> SeatState] /\ \A j \in Seat \ {i} : seats[j] = d.seats[j]
  BY <1>1 DEF SeatState
<1>3. \A p \in d.provisionalPicks : p.seat \in Seat \ {i} /\ p.occupant = d.seats[p.seat].occupantId
  BY <1>1, NobodyAssumption DEF Sound, QueueReady, Committable, DraftState, ProvisionalPick
<1>4. Sound([d EXCEPT !.seats = seats, !.provisionalPicks = d.provisionalPicks])
  BY <1>1, <1>2, <1>3, SeatsReplaced
<1>5. FillSeat(d, i, o, controller, connected) =
          [d EXCEPT !.seats = seats, !.provisionalPicks = d.provisionalPicks]
  BY <1>1 DEF FillSeat, DraftState
<1>6. QED
  BY <1>4, <1>5

\* A legal setup starts a sound draft (createDraft).
LEMMA CreateDraftSound ==
    ASSUME NEW seatSetup, LegalSetup(seatSetup)
    PROVE  Sound(CreateDraft(seatSetup)) /\ Picking(CreateDraft(seatSetup))
<1> DEFINE d == CreateDraft(seatSetup)
<1>1. seatSetup \in [Seat -> SeatState]
  BY DEF LegalSetup, SeatState
<1>2. OpenPacks(1) \in [Seat -> PackInFlight] /\ PacksAlike(OpenPacks(1)) /\ 1 \in Round
  BY OpenPacksFacts DEF Round
<1>3. <<2, 3>> \in Unopened /\ <<2, 3>> = RoundsAfter(1)
  BY DEF Unopened, RoundsAfter
<1>4. d \in DraftState
  BY <1>1, <1>2, <1>3 DEF CreateDraft, DraftState, Direction
<1>5. PacksReady(d) /\ QueueReady(d) /\ Picking(d)
  BY <1>2, <1>3 DEF CreateDraft, PacksReady, QueueReady, Picking
<1>6. QED
  BY <1>4, <1>5 DEF Sound

-----------------------------------------------------------------------------
(* Where the cards are.                                                    *)

\* Every card of an opened round is in exactly one pool or pack.
Whole(d) ==
    /\ \A i, j \in Seat : i # j => d.pickedPools[i] \cap d.pickedPools[j] = {}
    /\ \A i \in Seat : \A c \in d.pickedPools[i] : c.round <= d.round
    /\ IF Picking(d)
       THEN /\ \A i \in Seat : \A c \in d.packsInFlight[i].cards : c.round = d.round
            /\ \A i, j \in Seat : i # j => d.packsInFlight[i].cards \cap d.packsInFlight[j].cards = {}
            /\ \A i, j \in Seat : d.pickedPools[i] \cap d.packsInFlight[j].cards = {}
            /\ \A c \in AllCards : c.round <= d.round =>
                   \E i \in Seat : c \in d.pickedPools[i] \cup d.packsInFlight[i].cards
       ELSE \A c \in AllCards : \E i \in Seat : c \in d.pickedPools[i]

\* Passing is a permutation of the seats.
LEMMA PassesFromPermutes ==
    ASSUME NEW dir
    PROVE  /\ \A i, j \in Seat : PassesFrom(i, dir) = PassesFrom(j, dir) => i = j
           /\ \A j \in Seat : \E i \in Seat : PassesFrom(i, dir) = j
<1>1. \A i, j \in Seat : PassesFrom(i, dir) = PassesFrom(j, dir) => i = j
  BY NAssumption DEF Seat, PassesFrom, Predecessor, Successor
<1>2. ASSUME NEW j \in Seat PROVE \E i \in Seat : PassesFrom(i, dir) = j
  <2>1. Successor(j) \in Seat /\ Predecessor(j) \in Seat
    BY NAssumption DEF Seat, Predecessor, Successor
  <2>2. Predecessor(Successor(j)) = j /\ Successor(Predecessor(j)) = j
    BY NAssumption DEF Seat, Predecessor, Successor
  <2>3. QED
    BY <2>1, <2>2 DEF PassesFrom
<1>3. QED
  BY <1>1, <1>2

\* Who holds a card after a commit: its holder before, whoever selected it, or
\* whoever its pack would have reached when it is the last one there.
LEMMA PoolGains ==
    ASSUME NEW d, NEW picks, CompletePicks(d, picks),
           d.packsInFlight \in [Seat -> PackInFlight], PacksAlike(d.packsInFlight),
           NEW i \in Seat, NEW c
    PROVE  c \in PoolsAfter(d, picks)[i] <=>
               \/ c \in d.pickedPools[i]
               \/ c = SelectedCard(picks, i)
               \/ /\ LastCardsLeft(ReducedPacks(d, picks))
                  /\ c \in ReducedPacks(d, picks)[PassesFrom(i, d.passDirection)].cards
<1> DEFINE awarded == AwardedCards(ReducedPacks(d, picks), d.passDirection, i)
<1>1. PoolsAfter(d, picks)[i] = d.pickedPools[i] \cup ({SelectedCard(picks, i)} \cup awarded)
  BY DEF PoolsAfter, CommittedCards
<1>2. LastCardsLeft(ReducedPacks(d, picks)) =>
          awarded = ReducedPacks(d, picks)[PassesFrom(i, d.passDirection)].cards
  BY AwardedFacts
<1>3. ~LastCardsLeft(ReducedPacks(d, picks)) => awarded = {}
  BY DEF AwardedCards
<1> HIDE DEF awarded
<1>4. QED
  BY <1>1, <1>2, <1>3

\* What commitPicks leaves, field by field.
LEMMA CommitOutcome ==
    ASSUME NEW d, Sound(d), Picking(d), NEW picks, CompletePicks(d, picks)
    PROVE  LET reduced == ReducedPacks(d, picks)
               next == CommitPicks(d, picks)
           IN  /\ next.pickedPools = PoolsAfter(d, picks)
               /\ next.totalPicks > d.totalPicks
               /\ PacksLive(reduced) =>
                      /\ Picking(next) /\ next.round = d.round
                      /\ next.packsInFlight = PassPacks(reduced, d.passDirection)
               /\ ~PacksLive(reduced) /\ d.round < 3 =>
                      /\ Picking(next) /\ next.round = d.round + 1
                      /\ next.packsInFlight = OpenPacks(d.round + 1)
               /\ ~PacksLive(reduced) /\ d.round = 3 =>
                      ~Picking(next) /\ next.round = d.round
<1> DEFINE reduced == ReducedPacks(d, picks)
           next == CommitPicks(d, picks)
           counted == [d EXCEPT !.provisionalPicks = {},
                                !.pickedPools = PoolsAfter(d, picks),
                                !.totalPicks = @ + PicksTaken(d, picks)]
<1>1. d \in DraftState /\ d.unopenedRounds = RoundsAfter(d.round) /\ d.round \in Round
  BY DEF Sound, PacksReady, DraftState
<1>2. /\ counted.pickedPools = PoolsAfter(d, picks) /\ counted.status = "picking"
      /\ counted.round = d.round /\ counted.unopenedRounds = d.unopenedRounds
      /\ {"status", "round", "pick", "passDirection", "packsInFlight", "unopenedRounds"} \subseteq DOMAIN counted
      /\ counted.totalPicks = d.totalPicks + PicksTaken(d, picks)
  BY <1>1 DEF DraftState, Picking
<1>3. next = IF PacksLive(reduced)
             THEN [counted EXCEPT !.pick = @ + 1,
                                  !.packsInFlight = PassPacks(reduced, d.passDirection)]
             ELSE IF d.unopenedRounds # <<>>
             THEN [counted EXCEPT !.round = @ + 1,
                                  !.pick = 1,
                                  !.passDirection = DirectionForRound(d.round + 1),
                                  !.packsInFlight = OpenPacks(Head(d.unopenedRounds)),
                                  !.unopenedRounds = Tail(@)]
             ELSE [counted EXCEPT !.status = "complete", !.packsInFlight = <<>>]
  BY DEF CommitPicks
<1>4. /\ d.round < 3 => d.unopenedRounds # <<>> /\ Head(d.unopenedRounds) = d.round + 1
      /\ d.round = 3 => d.unopenedRounds = <<>>
  BY <1>1 DEF RoundsAfter, Round
<1>5. counted.totalPicks > d.totalPicks
  <2>1. d.totalPicks \in Nat /\ PicksTaken(d, picks) \in Nat \ {0}
    BY <1>1, NAssumption DEF DraftState, PicksTaken
  <2>2. QED
    BY <1>2, <2>1
<1> HIDE DEF counted, reduced, next
<1>6. /\ next.totalPicks > d.totalPicks
      /\ next.pickedPools = PoolsAfter(d, picks)
      /\ PacksLive(reduced) =>
             /\ Picking(next) /\ next.round = d.round
             /\ next.packsInFlight = PassPacks(reduced, d.passDirection)
      /\ ~PacksLive(reduced) /\ d.round < 3 =>
             /\ Picking(next) /\ next.round = d.round + 1
             /\ next.packsInFlight = OpenPacks(d.round + 1)
      /\ ~PacksLive(reduced) /\ d.round = 3 => ~Picking(next) /\ next.round = d.round
  BY <1>2, <1>3, <1>4, <1>5 DEF Picking
<1>7. QED
  BY <1>6 DEF reduced, next

\* A commit moves cards and neither loses nor doubles one.
LEMMA CommitPicksWhole ==
    ASSUME NEW d, Sound(d), Whole(d), Picking(d), NEW picks, CompletePicks(d, picks)
    PROVE  Whole(CommitPicks(d, picks))
<1> DEFINE reduced == ReducedPacks(d, picks)
           next == CommitPicks(d, picks)
           pools == PoolsAfter(d, picks)
           Pack(j) == d.packsInFlight[j].cards
           Left(j) == reduced[j].cards
           Chosen(j) == SelectedCard(picks, j)
           From(i) == PassesFrom(i, d.passDirection)
           last == LastCardsLeft(reduced)
           live == PacksLive(reduced)
<1>1. /\ d \in DraftState /\ d.packsInFlight \in [Seat -> PackInFlight] /\ PacksAlike(d.packsInFlight)
      /\ d.round \in Round
  BY DEF Sound, PacksReady, DraftState
<1>2. \A j \in Seat : Chosen(j) \in Pack(j) /\ Left(j) = Pack(j) \ {Chosen(j)}
  BY <1>1, SelectedInPack, ReducedPacksFacts
<1>3. \A i \in Seat : From(i) \in Seat
  BY PassesFromType
<1>4. /\ \A i, j \in Seat : From(i) = From(j) => i = j
      /\ \A j \in Seat : \E i \in Seat : From(i) = j
  BY PassesFromPermutes
<1>5. \A i \in Seat : \A c : c \in pools[i] <=>
          c \in d.pickedPools[i] \/ c = Chosen(i) \/ (last /\ c \in Left(From(i)))
  BY <1>1, PoolGains
<1>6. /\ \A i \in Seat : \A c \in d.pickedPools[i] : c.round <= d.round
      /\ \A i, j \in Seat : i # j => \A c : ~(c \in d.pickedPools[i] /\ c \in d.pickedPools[j])
      /\ \A i \in Seat : \A c \in Pack(i) : c.round = d.round
      /\ \A i, j \in Seat : i # j => \A c : ~(c \in Pack(i) /\ c \in Pack(j))
      /\ \A i, j \in Seat : \A c : ~(c \in d.pickedPools[i] /\ c \in Pack(j))
      /\ \A c \in AllCards : c.round <= d.round => \E i \in Seat : c \in d.pickedPools[i] \/ c \in Pack(i)
  BY DEF Whole
<1>7. /\ next.pickedPools = pools
      /\ live => Picking(next) /\ next.round = d.round /\ next.packsInFlight = PassPacks(reduced, d.passDirection)
      /\ ~live /\ d.round < 3 => Picking(next) /\ next.round = d.round + 1
                                 /\ next.packsInFlight = OpenPacks(d.round + 1)
      /\ ~live /\ d.round = 3 => ~Picking(next) /\ next.round = d.round
  BY CommitOutcome
<1>8. live => ~last
  BY DEF PacksLive
<1>9. \* Without live packs the last cards are awarded or there are none.
      ASSUME ~live, ~last, NEW j \in Seat PROVE Left(j) = {}
  <2>1. reduced[0].cards = {} /\ 0 \in Seat
    BY <1>9, SeatFacts DEF PacksLive
  <2>2. PICK n \in Nat : \A k \in Seat : IsFiniteSet(reduced[k].cards) /\ Cardinality(reduced[k].cards) = n
    BY <1>1, ReducedPacksFacts
  <2>3. n = 0
    BY <2>1, <2>2, FS_EmptySet
  <2>4. QED
    BY <2>2, <2>3, FS_EmptySet
<1> HIDE DEF reduced, next, pools, Pack, Left, Chosen, From, last, live
<1>10. \A i, j \in Seat : i # j => pools[i] \cap pools[j] = {}
  <2>1. SUFFICES ASSUME NEW i \in Seat, NEW j \in Seat, i # j, NEW c, c \in pools[i], c \in pools[j]
                 PROVE  FALSE
    OBVIOUS
  <2>2. CASE c \in d.pickedPools[i] \/ c \in d.pickedPools[j]
    BY <1>2, <1>3, <1>5, <1>6, <2>1, <2>2
  <2>3. CASE c \notin d.pickedPools[i] /\ c \notin d.pickedPools[j]
    BY <1>2, <1>3, <1>4, <1>5, <1>6, <2>1, <2>3
  <2>4. QED
    BY <2>2, <2>3
<1>11. \A i \in Seat : \A c \in pools[i] : c.round <= d.round
  <2>1. ASSUME NEW i \in Seat, NEW c \in pools[i] PROVE c.round <= d.round
    <3>1. c \in d.pickedPools[i] \/ c \in Pack(i) \/ c \in Pack(From(i))
      BY <1>2, <1>3, <1>5
    <3>2. c.round = d.round => c.round <= d.round
      BY <1>1 DEF Round
    <3>3. QED
      BY <1>3, <1>6, <3>1, <3>2
  <2>2. QED
    BY <2>1
<1>12. \* Every card of an opened round is dealt now or still in its pack.
       \A c \in AllCards : c.round <= d.round =>
           \/ \E i \in Seat : c \in pools[i]
           \/ ~last /\ \E j \in Seat : c \in Left(j)
  <2>1. ASSUME NEW c \in AllCards, c.round <= d.round
        PROVE  \/ \E i \in Seat : c \in pools[i]
               \/ ~last /\ \E j \in Seat : c \in Left(j)
    <3>1. PICK j \in Seat : c \in d.pickedPools[j] \/ c \in Pack(j)
      BY <1>6, <2>1
    <3>2. CASE c \in d.pickedPools[j] \/ c = Chosen(j)
      BY <1>5, <3>2
    <3>3. CASE c \in Pack(j) /\ c # Chosen(j)
      BY <1>2, <1>4, <1>5, <3>3
    <3>4. QED
      BY <3>1, <3>2, <3>3
  <2>2. QED
    BY <2>1
<1>13. CASE live
  <2>1. \A i \in Seat : next.packsInFlight[i].cards = Left(From(i))
    BY <1>7, <1>13 DEF PassPacks, Left, From
  <2>2. /\ \A i \in Seat : \A c \in Left(From(i)) : c.round = d.round
        /\ \A i, j \in Seat : i # j => Left(From(i)) \cap Left(From(j)) = {}
    BY <1>2, <1>3, <1>4, <1>6
  <2>3. \A i, j \in Seat : pools[i] \cap Left(From(j)) = {}
    BY <1>2, <1>3, <1>5, <1>6, <1>8, <1>13
  <2>4. \A c \in AllCards : c.round <= d.round => \E i \in Seat : c \in pools[i] \cup Left(From(i))
    BY <1>4, <1>12
  <2>5. Whole(next)
    BY <1>7, <1>10, <1>11, <1>13, <2>1, <2>2, <2>3, <2>4 DEF Whole
  <2>6. QED
    BY <2>5 DEF next
<1>14. CASE ~live
  <2>1. \A c \in AllCards : c.round <= d.round => \E i \in Seat : c \in pools[i]
    BY <1>9, <1>12, <1>14 DEF Left
  <2>2. CASE d.round < 3
    <3>1. d.round + 1 \in Round /\ \A r \in Round : r <= d.round + 1 => r <= d.round \/ r = d.round + 1
      BY <1>1, <2>2 DEF Round
    <3>2. \A i \in Seat : next.packsInFlight[i].cards = CardsOf(d.round + 1, i)
      BY <1>7, <1>14, <2>2 DEF OpenPacks
    <3>3. \A i \in Seat : \A c \in CardsOf(d.round + 1, i) : c.round = d.round + 1 /\ c.origin = i
      BY DEF CardsOf
    <3>4. \A c \in AllCards : c.round \in Round /\ c.origin \in Seat /\ c \in CardsOf(c.round, c.origin)
      BY DEF AllCards, CardsOf
    <3>5. \A i \in Seat : \A c \in pools[i] : c.round <= d.round + 1 /\ c.round # d.round + 1
      <4>1. pools \in [Seat -> SUBSET AllCards]
        BY <1>1, PoolsAfterFacts DEF pools
      <4>2. \A i \in Seat : \A c \in pools[i] : c.round \in Round /\ c.round <= d.round
        BY <1>11, <3>4, <4>1
      <4>3. QED
        BY <1>1, <4>2 DEF Round
    <3>6. \A i, j \in Seat : i # j => CardsOf(d.round + 1, i) \cap CardsOf(d.round + 1, j) = {}
      BY <3>3
    <3>7. \A i, j \in Seat : pools[i] \cap CardsOf(d.round + 1, j) = {}
      BY <3>3, <3>5
    <3>8. \A c \in AllCards : c.round <= d.round + 1 =>
              \E i \in Seat : c \in pools[i] \cup CardsOf(d.round + 1, i)
      BY <2>1, <3>1, <3>4
    <3>9. Whole(next)
      BY <1>7, <1>10, <1>14, <2>2, <3>2, <3>3, <3>5, <3>6, <3>7, <3>8 DEF Whole
    <3>10. QED
      BY <3>9 DEF next
  <2>3. CASE d.round = 3
    <3>1. \A c \in AllCards : c.round <= 3
      BY DEF AllCards, CardsOf, Round
    <3>2. Whole(next)
      BY <1>7, <1>10, <1>11, <1>14, <2>1, <2>3, <3>1 DEF Whole
    <3>3. QED
      BY <3>2 DEF next
  <2>4. QED
    BY <1>1, <2>2, <2>3 DEF Round
<1>15. QED
  BY <1>13, <1>14

\* A new draft has every card in exactly one place (createDraft).
LEMMA CreateDraftWhole ==
    ASSUME NEW seatSetup
    PROVE  Whole(CreateDraft(seatSetup))
<1> DEFINE d == CreateDraft(seatSetup)
<1>1. /\ d.status = "picking" /\ d.round = 1 /\ d.pickedPools = [i \in Seat |-> {}]
      /\ d.packsInFlight = OpenPacks(1)
  BY DEF CreateDraft
<1>2. \A i \in Seat : d.packsInFlight[i].cards = CardsOf(1, i)
  BY <1>1 DEF OpenPacks
<1>3. \A i \in Seat : \A c \in CardsOf(1, i) : c.round = 1 /\ c.origin = i
  BY DEF CardsOf
<1>4. \A c \in AllCards : c.round <= 1 => \E i \in Seat : c \in CardsOf(1, i)
  <2>1. \A r \in Round : r <= 1 => r = 1
    BY DEF Round
  <2>2. \A c \in AllCards : c.round \in Round /\ \E i \in Seat : c \in CardsOf(c.round, i)
    BY DEF AllCards, CardsOf
  <2>3. QED
    BY <2>1, <2>2
<1>5. \A i, j \in Seat : i # j => CardsOf(1, i) \cap CardsOf(1, j) = {}
  BY <1>3
<1> HIDE DEF d
<1>6. Whole(d)
  BY <1>1, <1>2, <1>3, <1>4, <1>5 DEF Whole, Picking
<1>7. QED
  BY <1>6 DEF d

-----------------------------------------------------------------------------
(* The draft.  The inductive invariant is Sound: the type of the draft,    *)
(* packs that hold equally many cards, rounds that are opened in order,    *)
(* and a queue whose every pick can be committed.  TypeOK alone is not     *)
(* inductive: that an awarded last card exists needs the packs to be       *)
(* alike, and that they stay alike needs every committed card to be in the *)
(* pack it is taken from.                                                  *)

\* A draft is sound when it is created (createDraft).
LEMMA SoundAtStart == Init => Sound(draft)
BY CreateDraftSound DEF Init

\* The draft after a step is sound, action by action.
LEMMA SoundForever == Sound(draft) /\ [Next]_draft => Sound(draft')
<1> SUFFICES ASSUME Sound(draft), [Next]_draft PROVE Sound(draft')
  OBVIOUS
<1>1. ASSUME NEW i \in Seat, NEW o \in Occupant, NEW c \in AllCards,
             NEW p \in 1..PackSize[c.round], Queue(i, o, p, c)
      PROVE  Sound(draft')
  <2>1. c.round \in Round /\ c.origin \in Seat /\ p \in Nat \ {0}
    BY PackSizeAssumption DEF AllCards, CardsOf, Round
  <2>2. Intent(i, o, p, c) \in ProvisionalPick
    BY <2>1 DEF Intent, ProvisionalPick
  <2>3. QED
    BY <1>1, <2>2, PickCardSound DEF Queue
<1>2. ASSUME NEW i \in Seat, NEW o \in Occupant, Disconnect(i, o) PROVE Sound(draft')
  BY <1>2, UpdatePresenceSound DEF Disconnect, OwnsSeat
<1>3. ASSUME NEW i \in Seat, NEW o \in Occupant, Reconnect(i, o) PROVE Sound(draft')
  BY <1>3, UpdatePresenceSound DEF Reconnect, OwnsSeat
<1>4. ASSUME NEW i \in Seat, NEW o \in Occupant, Vacate(i, o) PROVE Sound(draft')
  BY <1>4, VacateSeatSound DEF Vacate, OwnsSeat
<1>5. ASSUME NEW i \in Seat, NEW o \in Occupant, Fill(i, o) PROVE Sound(draft')
  BY <1>5, FillSeatSound DEF Fill
<1>6. CASE Reveal
  BY <1>6, RevealBarrierSound DEF Reveal, BarrierReady
<1>7. CASE Timeout
  BY <1>7, ResolveTimeoutSound DEF Timeout
<1>8. CASE RunBots
  BY <1>8, RunPendingBotsSound DEF RunBots
<1>9. CASE Over \/ UNCHANGED draft
  BY <1>9 DEF Over
<1>10. QED
  BY <1>1, <1>2, <1>3, <1>4, <1>5, <1>6, <1>7, <1>8, <1>9 DEF Next

(* The inductive invariant holds of every draft: packs of equal size,      *)
(* rounds opened in order and a queue that can be committed, through every *)
(* pick, timeout, departure and replacement (createDraft to fillSeat).     *)
THEOREM AlwaysSound == Spec => []Sound(draft)
<1>1. Init => Sound(draft)
  BY SoundAtStart
<1>2. Sound(draft) /\ [Next]_draft => Sound(draft)'
  BY SoundForever
<1>3. QED
  BY <1>1, <1>2, PTL DEF Spec

(* The draft keeps its type: in particular a seat that a timeout deals for *)
(* receives an existing card of the table (createDraft, commitPicks).      *)
THEOREM TypeCorrect == Spec => []TypeOK
<1>1. Sound(draft) => TypeOK
  BY SeatFacts DEF Sound, PacksReady, TypeOK
<1>2. QED
  BY <1>1, AlwaysSound, PTL

(* No pick that a barrier could not commit is ever queued, at any number   *)
(* of seats: the two exceptions of commitPicks, after which the table      *)
(* could not go on, are out of reach.                                      *)
THEOREM QueueAlwaysCommittable == Spec => []QueueCommittable
<1>1. Sound(draft) => QueueCommittable
  BY DEF Sound, PacksReady, QueueReady, Committable, QueueCommittable
<1>2. QED
  BY <1>1, AlwaysSound, PTL

-----------------------------------------------------------------------------
(* Conservation of cards.                                                  *)

\* What neither commits nor ends the draft leaves the cards where they are,
\* and their counts.
CardsUntouched ==
    /\ draft'.status = draft.status /\ draft'.round = draft.round /\ draft'.pick = draft.pick
    /\ draft'.passDirection = draft.passDirection /\ draft'.totalPicks = draft.totalPicks
    /\ draft'.packsInFlight = draft.packsInFlight
    /\ draft'.pickedPools = draft.pickedPools

\* Reveal and Timeout both commit a complete set of picks (revealBarrier,
\* resolveTimeout).
LEMMA BarrierCommits ==
    ASSUME Sound(draft), Reveal \/ Timeout
    PROVE  \E picks : /\ Picking(draft) /\ CompletePicks(draft, picks)
                      /\ HonoursQueue(draft, picks)
                      /\ draft' = CommitPicks(draft, picks)
<1>1. CASE Reveal
  <2>1. CompletePicks(draft, draft.provisionalPicks) /\ Picking(draft)
    BY <1>1 DEF Sound, DraftState, ProvisionalPick, QueueReady, Committable, CompletePicks,
                Reveal, CanCommit, BarrierReady
  <2>2. HonoursQueue(draft, draft.provisionalPicks)
    BY DEF Sound, QueueReady, HonoursQueue
  <2>3. QED
    BY <1>1, <2>1, <2>2 DEF Reveal, RevealBarrier
<1>2. CASE Timeout
  <2>1. PICK f \in Fallbacks(draft) : draft' = ResolveTimeout(draft, f) /\ Picking(draft)
    BY <1>2 DEF Timeout
  <2>2. CompletePicks(draft, WithFallbacks(draft, f)) /\ HonoursQueue(draft, WithFallbacks(draft, f))
    BY <2>1, FallbacksComplete
  <2>3. QED
    BY <2>1, <2>2 DEF ResolveTimeout
<1>3. QED
  BY <1>1, <1>2

\* A step leaves all cards where they are or commits a complete barrier.
LEMMA StepKinds ==
    ASSUME Sound(draft), [Next]_draft
    PROVE  \/ CardsUntouched
           \/ \E picks : /\ Picking(draft) /\ CompletePicks(draft, picks)
                         /\ HonoursQueue(draft, picks)
                         /\ draft' = CommitPicks(draft, picks)
<1>1. /\ draft \in DraftState
      /\ {"status", "round", "pick", "passDirection", "packsInFlight", "pickedPools", "totalPicks",
          "seats", "provisionalPicks"} \subseteq DOMAIN draft
  BY DEF Sound, DraftState
<1>2. ASSUME NEW i \in Seat, NEW o \in Occupant, NEW c \in AllCards,
             NEW p \in 1..PackSize[c.round], Queue(i, o, p, c)
      PROVE  CardsUntouched
  BY <1>1, <1>2 DEF Queue, PickCard, CardsUntouched
<1>3. ASSUME NEW i \in Seat, NEW o \in Occupant,
             Disconnect(i, o) \/ Reconnect(i, o) \/ Vacate(i, o) \/ Fill(i, o)
      PROVE  CardsUntouched
  BY <1>1, <1>3
     DEF Disconnect, Reconnect, Vacate, Fill, UpdatePresence, VacateSeat, FillSeat, CardsUntouched
<1>4. CASE RunBots \/ Over \/ UNCHANGED draft
  BY <1>1, <1>4 DEF RunBots, RunPendingBots, Over, CardsUntouched
<1>5. CASE Reveal \/ Timeout
  BY <1>5, BarrierCommits
<1>6. QED
  BY <1>2, <1>3, <1>4, <1>5 DEF Next

\* A barrier that commits over the queue gives every seat what it queued, or a
\* card of its pack, and the last card its neighbour leaves (commitPicks).
LEMMA CommitHonours ==
    ASSUME Sound(draft), Whole(draft), Picking(draft),
           NEW picks, CompletePicks(draft, picks), HonoursQueue(draft, picks),
           draft' = CommitPicks(draft, picks)
    PROVE  QueueHonoured
<1> DEFINE Front(i) == draft.packsInFlight[i].cards
           Gained(i) == draft'.pickedPools[i] \ draft.pickedPools[i]
           Neighbour(i) == PassesFrom(i, draft.passDirection)
           reduced == ReducedPacks(draft, picks)
           took == [i \in Seat |-> SelectedCard(picks, i)]
<1>1. draft.packsInFlight \in [Seat -> PackInFlight] /\ PacksAlike(draft.packsInFlight)
  BY DEF Sound, PacksReady
<1>2. \A i \in Seat : took[i] \in Front(i) /\ Neighbour(i) \in Seat
  BY SelectedInPack, PassesFromType
<1>3. \A i \in Seat : reduced[i].cards = Front(i) \ {took[i]}
  BY <1>1, ReducedPacksFacts
<1>4. \A i \in Seat : \A c : c \in draft'.pickedPools[i] <=>
          \/ c \in draft.pickedPools[i]
          \/ c = took[i]
          \/ LastCardsLeft(reduced) /\ c \in reduced[Neighbour(i)].cards
  BY <1>1, PoolGains, CommitOutcome
<1>5. \A i, j \in Seat : draft.pickedPools[i] \cap Front(j) = {}
  BY DEF Whole
<1>6. LastCardsLeft(reduced) <=> \A i \in Seat : Cardinality(Front(i)) = 2
  <2>1. PICK n \in Nat \ {0} : \A i \in Seat : IsFiniteSet(Front(i)) /\ Cardinality(Front(i)) = n
    BY <1>1 DEF PacksAlike
  <2>2. Cardinality(reduced[0].cards) = n - 1
    BY <1>2, <1>3, <2>1, SeatFacts, FS_RemoveElement
  <2>3. n - 1 = 1 <=> n = 2
    OBVIOUS
  <2>4. QED
    BY <2>1, <2>2, <2>3, SeatFacts DEF LastCardsLeft
<1>7. \A i, j \in Seat : Cardinality(Front(i)) = Cardinality(Front(j))
  BY <1>1 DEF PacksAlike
<1>8. \A i \in Seat : \A p \in PicksAt(draft, i) : took[i] = p.card
  BY SelectedWasQueued
<1> HIDE DEF reduced, took, Front, Neighbour
<1>9. ASSUME NEW i \in Seat
      PROVE  Gained(i) = {took[i]} \cup IF Cardinality(Front(Neighbour(i))) = 2
                                        THEN Front(Neighbour(i)) \ {took[Neighbour(i)]} ELSE {}
  <2>1. LastCardsLeft(reduced) <=> Cardinality(Front(Neighbour(i))) = 2
    BY <1>2, <1>6, <1>7
  <2>2. took[i] \notin draft.pickedPools[i]
    BY <1>2, <1>5
  <2>3. \A c \in Front(Neighbour(i)) : c \notin draft.pickedPools[i]
    BY <1>2, <1>5
  <2>4. \A c : c \in Gained(i) <=>
            c = took[i] \/ (LastCardsLeft(reduced) /\ c \in Front(Neighbour(i)) \ {took[Neighbour(i)]})
    BY <1>2, <1>3, <1>4, <2>2, <2>3
  <2>5. CASE LastCardsLeft(reduced)
    BY <2>1, <2>4, <2>5
  <2>6. CASE ~LastCardsLeft(reduced)
    BY <2>1, <2>4, <2>6
  <2>7. QED
    BY <2>5, <2>6
<1>10. took \in [Seat -> UNION {Gained(i) : i \in Seat}]
  <2>1. \A i \in Seat : took[i] \in Gained(i)
    BY <1>9
  <2>2. QED
    BY <2>1 DEF took
<1>11. QED
  BY <1>2, <1>8, <1>9, <1>10 DEF QueueHonoured, Front, Neighbour

\* No step of the draft loses or copies a card (commitPicks).
LEMMA WholeForever == Sound(draft) /\ Whole(draft) /\ [Next]_draft => Whole(draft')
<1> SUFFICES ASSUME Sound(draft), Whole(draft), [Next]_draft PROVE Whole(draft')
  OBVIOUS
<1>1. CASE CardsUntouched
  BY <1>1 DEF Whole, CardsUntouched, Picking
<1>2. ASSUME NEW picks, Picking(draft), CompletePicks(draft, picks), draft' = CommitPicks(draft, picks)
      PROVE  Whole(draft')
  BY <1>2, CommitPicksWhole
<1>3. QED
  BY <1>1, <1>2, StepKinds

\* The places of a card, in a draft that is sound and whole.
LEMMA OnePlace == Sound(draft) /\ Whole(draft) => CardsConserved
<1> SUFFICES ASSUME Sound(draft), Whole(draft), NEW c \in AllCards
             PROVE  \E place \in Places(c) : Places(c) = {place}
  BY DEF CardsConserved
<1> DEFINE inPool == {<<"pool", i>> : i \in {j \in Seat : c \in draft.pickedPools[j]}}
           inPack == {<<"pack", i>> : i \in {j \in DOMAIN draft.packsInFlight :
                                                c \in draft.packsInFlight[j].cards}}
           later == {<<"unopened", k>> : k \in {m \in DOMAIN draft.unopenedRounds :
                                                draft.unopenedRounds[m] = c.round}}
<1>1. Places(c) = (inPool \cup inPack) \cup later
  BY DEF Places
<1>2. draft.round \in Round /\ c.round \in Round
  BY DEF Sound, DraftState, AllCards, CardsOf
<1>3. CASE Picking(draft)
  <2>1. DOMAIN draft.packsInFlight = Seat /\ draft.unopenedRounds = RoundsAfter(draft.round)
    BY <1>3 DEF Sound, PacksReady
  <2>2. CASE c.round <= draft.round
    <3>1. later = {}
      BY <1>2, <2>1, <2>2 DEF RoundsAfter, Round
    <3>2. PICK i \in Seat : c \in draft.pickedPools[i] \cup draft.packsInFlight[i].cards
      BY <1>3, <2>2 DEF Whole
    <3>3. CASE c \in draft.pickedPools[i]
      <4>1. inPool = {<<"pool", i>>}
        BY <3>3 DEF Whole
      <4>2. inPack = {}
        BY <1>3, <2>1, <3>3 DEF Whole
      <4>3. QED
        BY <1>1, <3>1, <4>1, <4>2
    <3>4. CASE c \in draft.packsInFlight[i].cards
      <4>1. inPack = {<<"pack", i>>}
        BY <1>3, <2>1, <3>4 DEF Whole
      <4>2. inPool = {}
        BY <1>3, <3>4 DEF Whole
      <4>3. QED
        BY <1>1, <3>1, <4>1, <4>2
    <3>5. QED
      BY <3>2, <3>3, <3>4
  <2>3. CASE c.round > draft.round
    <3>1. inPool = {} /\ inPack = {}
      BY <1>2, <1>3, <2>1, <2>3 DEF Whole, Round
    <3>2. /\ DOMAIN draft.unopenedRounds = 1 .. 3 - draft.round
          /\ \A m \in DOMAIN draft.unopenedRounds : draft.unopenedRounds[m] = draft.round + m
      <4>1. CASE draft.round = 1
        BY <2>1, <4>1 DEF RoundsAfter
      <4>2. CASE draft.round = 2
        BY <2>1, <4>2 DEF RoundsAfter
      <4>3. CASE draft.round = 3
        BY <2>1, <4>3 DEF RoundsAfter
      <4>4. QED
        BY <1>2, <4>1, <4>2, <4>3 DEF Round
    <3>3. {m \in DOMAIN draft.unopenedRounds : draft.unopenedRounds[m] = c.round} =
              {c.round - draft.round}
      <4>1. /\ c.round - draft.round \in 1 .. 3 - draft.round
            /\ \A m \in 1 .. 3 - draft.round : draft.round + m = c.round <=> m = c.round - draft.round
        BY <1>2, <2>3 DEF Round
      <4>2. QED
        BY <3>2, <4>1
    <3>4. later = {<<"unopened", c.round - draft.round>>}
      BY <3>3
    <3>5. QED
      BY <1>1, <3>1, <3>4
  <2>4. QED
    BY <1>2, <2>2, <2>3 DEF Round
<1>4. CASE ~Picking(draft)
  <2>1. inPack = {}
    BY <1>4 DEF Sound, PacksReady
  <2>2. later = {}
    BY <1>4 DEF Sound, PacksReady
  <2>3. PICK i \in Seat : c \in draft.pickedPools[i]
    BY <1>4 DEF Whole
  <2>4. inPool = {<<"pool", i>>}
    BY <2>3 DEF Whole
  <2>5. QED
    BY <1>1, <2>1, <2>2, <2>4
<1>5. QED
  BY <1>3, <1>4

\* Cards are in one place each in every reachable draft.
THEOREM AlwaysWhole == Spec => [](Sound(draft) /\ Whole(draft))
<1>1. Init => Whole(draft)
  BY CreateDraftWhole DEF Init
<1>2. Sound(draft) /\ Whole(draft) /\ [Next]_draft => Whole(draft)'
  BY WholeForever
<1>3. QED
  BY <1>1, <1>2, AlwaysSound, PTL DEF Spec

(* Every card is in exactly one pool, pack or unopened round at every      *)
(* moment of every draft (commitPicks, with its award of the last card).   *)
THEOREM CardsAlwaysConserved == Spec => []CardsConserved
<1>1. Sound(draft) /\ Whole(draft) => CardsConserved
  BY OnePlace
<1>2. QED
  BY <1>1, AlwaysWhole, PTL

(* Whoever queued a card receives it and nobody receives anything else     *)
(* than one card of the pack before them and the last card their neighbour *)
(* leaves, at any table, whether a full barrier or the timeout commits     *)
(* (commitPicks, revealBarrier, resolveTimeout).                           *)
THEOREM QueueAlwaysHonoured == Spec => CommitHonoursQueue
<1>1. ASSUME Sound(draft), Whole(draft), [Next]_draft, draft'.totalPicks # draft.totalPicks
      PROVE  QueueHonoured
  <2>1. ~CardsUntouched
    BY <1>1 DEF CardsUntouched
  <2>2. QED
    BY <1>1, <2>1, StepKinds, CommitHonours
<1>2. Sound(draft) /\ Whole(draft) /\ [Next]_draft =>
          [draft'.totalPicks # draft.totalPicks => QueueHonoured]_draft
  BY <1>1
<1>3. QED
  BY <1>2, AlwaysWhole, PTL DEF Spec, CommitHonoursQueue

-----------------------------------------------------------------------------
(* What a queued pick can count on.                                        *)

\* One step's worth of QueueDurable (pickCard, vacateSeat, fillSeat).
LEMMA QueueDurableStep ==
    ASSUME Sound(draft), [Next]_draft, NEW p \in draft.provisionalPicks
    PROVE  \/ p \in draft'.provisionalPicks
           \/ draft'.totalPicks > draft.totalPicks
           \/ \E q \in PicksAt(draft', p.seat) : q.occupant = p.occupant
           \/ draft'.seats[p.seat].occupantId = Nobody
<1>1. /\ draft \in DraftState /\ p.seat \in Seat
      /\ {"seats", "provisionalPicks"} \subseteq DOMAIN draft
      /\ draft.seats \in [Seat -> SeatState]
      /\ p.occupant = draft.seats[p.seat].occupantId
  BY DEF Sound, DraftState, ProvisionalPick, QueueReady, Committable
<1>2. ASSUME NEW i \in Seat, NEW o \in Occupant, NEW c \in AllCards,
             NEW k \in 1..PackSize[c.round], Queue(i, o, k, c)
      PROVE  p \in draft'.provisionalPicks \/ \E q \in PicksAt(draft', p.seat) : q.occupant = p.occupant
  <2> DEFINE intent == Intent(i, o, k, c)
  <2>1. intent.seat = i /\ intent.occupant = o /\ draft.seats[i].occupantId = o
    BY <1>2 DEF Intent, Queue, CanPickCard
  <2>2. draft' = PickCard(draft, intent)
    BY <1>2 DEF Queue
  <2> HIDE DEF intent
  <2>3. \/ draft' = draft
        \/ draft'.provisionalPicks = (draft.provisionalPicks \ PicksAt(draft, i)) \cup {intent}
    BY <1>1, <2>1, <2>2 DEF PickCard
  <2>4. CASE p.seat = i
    BY <1>1, <2>1, <2>3, <2>4 DEF PicksAt
  <2>5. CASE p.seat # i
    BY <2>3, <2>5 DEF PicksAt
  <2>6. QED
    BY <2>4, <2>5
<1>3. ASSUME NEW i \in Seat, NEW o \in Occupant, Disconnect(i, o) \/ Reconnect(i, o) \/ Fill(i, o)
      PROVE  p \in draft'.provisionalPicks
  BY <1>1, <1>3 DEF Disconnect, Reconnect, Fill, UpdatePresence, FillSeat
<1>4. ASSUME NEW i \in Seat, NEW o \in Occupant, Vacate(i, o)
      PROVE  p \in draft'.provisionalPicks \/ draft'.seats[p.seat].occupantId = Nobody
  <2>1. draft'.provisionalPicks = draft.provisionalPicks \ PicksAt(draft, i)
    BY <1>1, <1>4 DEF Vacate, VacateSeat
  <2>2. draft'.seats[i].occupantId = Nobody
    BY <1>1, <1>4 DEF Vacate, VacateSeat, SeatState
  <2>3. QED
    BY <2>1, <2>2 DEF PicksAt
<1>5. CASE RunBots \/ Over \/ UNCHANGED draft
  BY <1>1, <1>5 DEF RunBots, RunPendingBots, Over
<1>6. ASSUME NEW picks, Picking(draft), CompletePicks(draft, picks), draft' = CommitPicks(draft, picks)
      PROVE  draft'.totalPicks > draft.totalPicks
  BY <1>6, CommitOutcome
<1>7. CASE Reveal \/ Timeout
  BY <1>6, <1>7, BarrierCommits
<1>8. QED
  BY <1>2, <1>3, <1>4, <1>5, <1>7 DEF Next

(* Once queued, a pick is there until a barrier commits, its own seat's    *)
(* occupant replaces it or that occupant leaves: no disconnection, return, *)
(* bot or other seat takes it away (updatePresence, pickCard, fillSeat).   *)
THEOREM QueueAlwaysDurable == Spec => QueueDurable
<1>1. Sound(draft) /\ [Next]_draft =>
          [\A p \in draft.provisionalPicks :
                \/ p \in draft'.provisionalPicks
                \/ draft'.totalPicks > draft.totalPicks
                \/ \E q \in PicksAt(draft', p.seat) : q.occupant = p.occupant
                \/ draft'.seats[p.seat].occupantId = Nobody]_draft
  BY QueueDurableStep
<1>2. QED
  BY <1>1, AlwaysSound, PTL DEF Spec, QueueDurable

\* Seats are N, and picks of distinct seats are no more than seats.
LEMMA FullQueueCoversSeats ==
    ASSUME NEW d, Sound(d), Picking(d), BarrierReady(d)
    PROVE  CanCommit(d, d.provisionalPicks)
<1> DEFINE queue == d.provisionalPicks
           seatOf == [p \in queue |-> p.seat]
<1>1. \A p \in queue : p.seat \in Seat /\ Committable(d, p)
  BY DEF Sound, QueueReady, DraftState, ProvisionalPick
<1>2. seatOf \in Injection(queue, Seat)
  <2>1. seatOf \in [queue -> Seat]
    BY <1>1
  <2>2. \A p, q \in queue : seatOf[p] = seatOf[q] => p = q
    BY DEF Sound, QueueReady
  <2>3. QED
    BY <2>1, <2>2, Fun_IsInj
<1>3. IsFiniteSet(Seat) /\ Cardinality(Seat) = N
  BY NAssumption, FS_Interval DEF Seat
<1>4. Cardinality(queue) = N
  BY DEF BarrierReady
<1>5. seatOf \in Surjection(queue, Seat)
  BY <1>2, <1>3, <1>4, FS_Injection
<1>6. \A i \in Seat : \E p \in queue : p.seat = i
  BY <1>5, Fun_SurjectionProperties
<1>7. QED
  BY <1>1, <1>6 DEF CanCommit, Committable

(* A barrier that is due never fails: the count that revealBarrier checks  *)
(* is enough for every pack to have its selection, and a timeout may fall  *)
(* back on any card of the packs in hand (commitPicks' two exceptions).    *)
THEOREM BarriersNeverFail ==
    Spec => [](Picking(draft) =>
                   /\ BarrierReady(draft) => CanCommit(draft, draft.provisionalPicks)
                   /\ \A f \in Fallbacks(draft) : CanCommit(draft, WithFallbacks(draft, f)))
<1>1. Sound(draft) => (Picking(draft) =>
          /\ BarrierReady(draft) => CanCommit(draft, draft.provisionalPicks)
          /\ \A f \in Fallbacks(draft) : CanCommit(draft, WithFallbacks(draft, f)))
  BY FullQueueCoversSeats, FallbacksComplete
<1>2. QED
  BY <1>1, AlwaysSound, PTL

-----------------------------------------------------------------------------
(* The arithmetic of a draft, for any number of seats and any pack sizes:  *)
(* how many cards every pack and every pool holds, and which pack is in    *)
(* front of which seat.  The code keeps three counters, round, pick and    *)
(* totalPicks, and decides everything from the first pack; that the        *)
(* counters tell the truth about all packs and pools needs that cards are  *)
(* in one place only (Whole) and Sound.                                    *)
(* From it follow the two refinements: the draft makes progress as         *)
(* DraftProgress says and deals as FairDeal says.                          *)

\* Cards a seat received in the rounds before round r.
DealtBefore(r) ==
    IF r = 1 THEN 0 ELSE IF r = 2 THEN PackSize[1] ELSE PackSize[1] + PackSize[2]

\* Cards a seat has received when the draft is d, from its counters.
Dealt(d) ==
    IF Picking(d) THEN DealtBefore(d.round) + (d.pick - 1)
    ELSE PackSize[1] + PackSize[2] + PackSize[3]

\* The pack of seat i holds what size cards are left of a pack of round r.
Leftover(packs, r, size, i) ==
    /\ packs[i].round = r
    /\ packs[i].cards \subseteq CardsOf(r, packs[i].origin)
    /\ IsFiniteSet(packs[i].cards) /\ Cardinality(packs[i].cards) = size

\* The pack of seat i was opened as many seats up the direction as it passed.
Travelled(packs, dir, passes, i) ==
    packs[i].origin = (IF dir = "left" THEN i - passes ELSE i + passes) % N

InStep(d) ==
    Picking(d) =>
        /\ d.passDirection = DirectionForRound(d.round)
        /\ d.pick <= PackSize[d.round]
        /\ \A i \in Seat :
               /\ Leftover(d.packsInFlight, d.round, PackSize[d.round] - (d.pick - 1), i)
               /\ Travelled(d.packsInFlight, d.passDirection, d.pick - 1, i)

Shared(d) ==
    /\ d.totalPicks = N * Dealt(d)
    /\ \A i \in Seat : IsFiniteSet(d.pickedPools[i]) /\ Cardinality(d.pickedPools[i]) = Dealt(d)

Counted(d) == Sound(d) /\ Whole(d) /\ InStep(d) /\ Shared(d)

-----------------------------------------------------------------------------
(* The ring in numbers.                                                    *)

\* The remainder is what is left of any multiple of the divisor.
LEMMA Remainder ==
    ASSUME NEW b \in Nat \ {0}, NEW q \in Int, NEW r \in 0 .. b-1
    PROVE  (q*b + r) % b = r
OBVIOUS

\* Once more around the ring is the same seat.
LEMMA RoundTheRing ==
    ASSUME NEW a \in Int
    PROVE  (a + N) % N = a % N
<1> DEFINE q == a \div N
           r == a % N
<1>1. N \in Nat \ {0}
  BY NAssumption
<1>2. a = q*N + r /\ q \in Int /\ r \in 0 .. N-1
  BY <1>1
<1> HIDE DEF q, r
<1>3. a + N = (q+1)*N + r /\ q+1 \in Int
  BY <1>1, <1>2
<1>4. ((q+1)*N + r) % N = r
  BY <1>1, <1>2, <1>3, Remainder
<1>5. QED
  BY <1>3, <1>4 DEF r

\* A seat is its own number modulo the ring.
LEMMA SeatModulo ==
    ASSUME NEW i \in Seat
    PROVE  i % N = i
BY NAssumption DEF Seat

\* One more pass adds one to the distance a pack has come.
LEMMA OnePassFurther ==
    ASSUME NEW packs \in [Seat -> PackInFlight], NEW dir \in Direction, NEW passes \in Nat,
           \A i \in Seat : Travelled(packs, dir, passes, i),
           NEW i \in Seat
    PROVE  Travelled(PassPacks(packs, dir), dir, passes + 1, i)
<1> DEFINE from == PassesFrom(i, dir)
<1>1. N \in Nat \ {0} /\ i \in Int /\ 0 <= i /\ i <= N-1
  BY NAssumption DEF Seat
<1>2. from \in Seat
  BY PassesFromType
<1>3. PassPacks(packs, dir)[i].origin = (IF dir = "left" THEN from - passes ELSE from + passes) % N
  BY <1>2 DEF PassPacks, Travelled
<1>4. CASE dir = "left"
  <2>1. from = (IF i = 0 THEN N-1 ELSE i-1)
    BY <1>4 DEF PassesFrom, Predecessor
  <2>2. CASE i = 0
    <3>1. from - passes = (i - (passes + 1)) + N /\ i - (passes + 1) \in Int
      BY <1>1, <2>1, <2>2
    <3>2. QED
      BY <1>3, <1>4, <3>1, RoundTheRing DEF Travelled
  <2>3. CASE i # 0
    <3>1. from - passes = i - (passes + 1)
      BY <1>1, <2>1, <2>3
    <3>2. QED
      BY <1>3, <1>4, <3>1 DEF Travelled
  <2>4. QED
    BY <2>2, <2>3
<1>5. CASE dir # "left"
  <2>1. from = (IF i = N-1 THEN 0 ELSE i+1)
    BY <1>5 DEF PassesFrom, Successor
  <2>2. CASE i = N-1
    <3>1. i + (passes + 1) = (from + passes) + N /\ from + passes \in Int
      BY <1>1, <2>1, <2>2
    <3>2. QED
      BY <1>3, <1>5, <3>1, RoundTheRing DEF Travelled
  <2>3. CASE i # N-1
    <3>1. from + passes = i + (passes + 1)
      BY <1>1, <2>1, <2>3
    <3>2. QED
      BY <1>3, <1>5, <3>1 DEF Travelled
  <2>4. QED
    BY <2>2, <2>3
<1>6. QED
  BY <1>4, <1>5

\* A fresh round: whole packs, each in front of the seat that opens it.
LEMMA FreshRound ==
    ASSUME NEW r \in Round, NEW dir, NEW i \in Seat
    PROVE  /\ Leftover(OpenPacks(r), r, PackSize[r], i)
           /\ Travelled(OpenPacks(r), dir, 0, i)
<1>1. /\ OpenPacks(r)[i].round = r /\ OpenPacks(r)[i].origin = i
      /\ OpenPacks(r)[i].cards = CardsOf(r, i)
  BY DEF OpenPacks
<1>2. i - 0 = i /\ i + 0 = i
  BY DEF Seat
<1>3. QED
  BY <1>1, <1>2, FreshPack, SeatModulo DEF Leftover, Travelled

-----------------------------------------------------------------------------
(* commitPicks.                                                            *)

\* What a seat received before the next round, or in all.
LEMMA DealtBeforeNext ==
    ASSUME NEW r \in Round
    PROVE  /\ PackSize[r] \in Nat \ {0} /\ DealtBefore(r) \in Nat
           /\ r < 3 => DealtBefore(r + 1) = DealtBefore(r) + PackSize[r]
           /\ r = 3 => PackSize[1] + PackSize[2] + PackSize[3] = DealtBefore(r) + PackSize[r]
<1>1. /\ PackSize[1] \in Nat \ {0} /\ PackSize[2] \in Nat \ {0} /\ PackSize[3] \in Nat \ {0}
  BY PackSizeAssumption
<1>2. r = 1 \/ r = 2 \/ r = 3
  BY DEF Round
<1>3. QED
  BY <1>1, <1>2 DEF DealtBefore

\* The counters after a commit.
LEMMA CommitCounters ==
    ASSUME NEW d, Sound(d), Picking(d), NEW picks, CompletePicks(d, picks)
    PROVE  LET reduced == ReducedPacks(d, picks)
               next == CommitPicks(d, picks)
           IN  /\ next.totalPicks = d.totalPicks + PicksTaken(d, picks)
               /\ next.seats = d.seats /\ next.provisionalPicks = {}
               /\ PacksLive(reduced) =>
                      next.pick = d.pick + 1 /\ next.passDirection = d.passDirection
               /\ ~PacksLive(reduced) /\ d.round < 3 =>
                      next.pick = 1 /\ next.passDirection = DirectionForRound(d.round + 1)
               /\ ~PacksLive(reduced) /\ d.round = 3 =>
                      next.pick = d.pick /\ next.status = "complete"
<1> DEFINE reduced == ReducedPacks(d, picks)
           next == CommitPicks(d, picks)
           counted == [d EXCEPT !.provisionalPicks = {},
                                !.pickedPools = PoolsAfter(d, picks),
                                !.totalPicks = @ + PicksTaken(d, picks)]
<1>1. d \in DraftState /\ d.unopenedRounds = RoundsAfter(d.round) /\ d.round \in Round
  BY DEF Sound, PacksReady, DraftState
<1>2. /\ counted.totalPicks = d.totalPicks + PicksTaken(d, picks)
      /\ counted.pick = d.pick /\ counted.passDirection = d.passDirection
      /\ counted.seats = d.seats /\ counted.provisionalPicks = {}
      /\ {"status", "round", "pick", "passDirection", "packsInFlight", "unopenedRounds"} \subseteq DOMAIN counted
  BY <1>1 DEF DraftState
<1>3. next = IF PacksLive(reduced)
             THEN [counted EXCEPT !.pick = @ + 1,
                                  !.packsInFlight = PassPacks(reduced, d.passDirection)]
             ELSE IF d.unopenedRounds # <<>>
             THEN [counted EXCEPT !.round = @ + 1,
                                  !.pick = 1,
                                  !.passDirection = DirectionForRound(d.round + 1),
                                  !.packsInFlight = OpenPacks(Head(d.unopenedRounds)),
                                  !.unopenedRounds = Tail(@)]
             ELSE [counted EXCEPT !.status = "complete", !.packsInFlight = <<>>]
  BY DEF CommitPicks
<1>4. d.round < 3 <=> d.unopenedRounds # <<>>
  BY <1>1 DEF RoundsAfter, Round
<1> HIDE DEF counted, reduced, next
<1>5. /\ next.totalPicks = d.totalPicks + PicksTaken(d, picks)
      /\ next.seats = d.seats /\ next.provisionalPicks = {}
      /\ PacksLive(reduced) => next.pick = d.pick + 1 /\ next.passDirection = d.passDirection
      /\ ~PacksLive(reduced) /\ d.round < 3 =>
             next.pick = 1 /\ next.passDirection = DirectionForRound(d.round + 1)
      /\ ~PacksLive(reduced) /\ d.round = 3 => next.pick = d.pick /\ next.status = "complete"
  BY <1>2, <1>3, <1>4
<1>6. QED
  BY <1>5 DEF next, reduced

\* What is left of the packs when each seat has taken its selection: one card
\* less of the same pack.
LEMMA ReducedInStep ==
    ASSUME NEW d, Sound(d), Picking(d), InStep(d), NEW picks, CompletePicks(d, picks)
    PROVE  LET reduced == ReducedPacks(d, picks)
               left == PackSize[d.round] - d.pick
           IN  /\ left \in Nat
               /\ \A i \in Seat : /\ Leftover(reduced, d.round, left, i)
                                  /\ Travelled(reduced, d.passDirection, d.pick - 1, i)
               /\ LastCardsLeft(reduced) <=> left = 1
               /\ PacksLive(reduced) <=> left > 1
<1> DEFINE reduced == ReducedPacks(d, picks)
           left == PackSize[d.round] - d.pick
<1>1. /\ d \in DraftState /\ d.packsInFlight \in [Seat -> PackInFlight]
      /\ PacksAlike(d.packsInFlight) /\ d.round \in Round /\ d.pick \in Nat \ {0}
      /\ PackSize[d.round] \in Nat \ {0} /\ d.pick <= PackSize[d.round]
  BY DealtBeforeNext DEF Sound, PacksReady, DraftState, InStep
<1>2. left \in Nat
  BY <1>1
<1>3. ASSUME NEW i \in Seat
      PROVE  /\ reduced[i].cards = d.packsInFlight[i].cards \ {SelectedCard(picks, i)}
             /\ reduced[i].round = d.packsInFlight[i].round
             /\ reduced[i].origin = d.packsInFlight[i].origin
  <2>1. d.packsInFlight[i] \in PackInFlight
    BY <1>1
  <2>2. reduced[i] = [d.packsInFlight[i] EXCEPT !.cards = @ \ {SelectedCard(picks, i)}]
    BY DEF ReducedPacks
  <2> HIDE DEF reduced
  <2>3. QED
    BY <2>1, <2>2 DEF PackInFlight
<1> HIDE DEF reduced
<1>4. ASSUME NEW i \in Seat
      PROVE  Leftover(reduced, d.round, left, i) /\ Travelled(reduced, d.passDirection, d.pick - 1, i)
  <2>1. /\ Leftover(d.packsInFlight, d.round, PackSize[d.round] - (d.pick - 1), i)
        /\ Travelled(d.packsInFlight, d.passDirection, d.pick - 1, i)
    BY DEF InStep
  <2>2. SelectedCard(picks, i) \in d.packsInFlight[i].cards
    BY SelectedInPack
  <2>3. /\ IsFiniteSet(reduced[i].cards)
        /\ Cardinality(reduced[i].cards) = Cardinality(d.packsInFlight[i].cards) - 1
    BY <1>3, <2>1, <2>2, FS_RemoveElement DEF Leftover
  <2>4. (PackSize[d.round] - (d.pick - 1)) - 1 = left
    BY <1>1
  <2>5. QED
    BY <1>3, <2>1, <2>3, <2>4 DEF Leftover, Travelled
<1>5. Cardinality(reduced[0].cards) = left /\ IsFiniteSet(reduced[0].cards)
  BY <1>4, SeatFacts DEF Leftover
<1>6. LastCardsLeft(reduced) <=> left = 1
  BY <1>5 DEF LastCardsLeft
<1>7. reduced[0].cards = {} <=> left = 0
  BY <1>5, FS_EmptySet
<1>8. PacksLive(reduced) <=> left > 1
  BY <1>2, <1>6, <1>7 DEF PacksLive
<1>9. QED
  BY <1>2, <1>4, <1>6, <1>8 DEF reduced

\* After a commit the packs are in step again.
LEMMA CommitInStep ==
    ASSUME NEW d, Sound(d), Picking(d), InStep(d), NEW picks, CompletePicks(d, picks)
    PROVE  InStep(CommitPicks(d, picks))
<1> DEFINE reduced == ReducedPacks(d, picks)
           next == CommitPicks(d, picks)
           left == PackSize[d.round] - d.pick
<1>1. /\ d \in DraftState /\ d.packsInFlight \in [Seat -> PackInFlight]
      /\ PacksAlike(d.packsInFlight) /\ d.round \in Round /\ d.pick \in Nat \ {0}
      /\ d.passDirection \in Direction /\ d.passDirection = DirectionForRound(d.round)
      /\ PackSize[d.round] \in Nat \ {0}
  BY DealtBeforeNext DEF Sound, PacksReady, DraftState, InStep
<1>2. reduced \in [Seat -> PackInFlight]
  BY <1>1, ReducedPacksFacts
<1>3. /\ left \in Nat
      /\ \A i \in Seat : /\ Leftover(reduced, d.round, left, i)
                         /\ Travelled(reduced, d.passDirection, d.pick - 1, i)
      /\ PacksLive(reduced) <=> left > 1
  BY ReducedInStep
<1>4. /\ PacksLive(reduced) =>
             /\ next.round = d.round /\ next.packsInFlight = PassPacks(reduced, d.passDirection)
             /\ next.pick = d.pick + 1 /\ next.passDirection = d.passDirection
      /\ ~PacksLive(reduced) /\ d.round < 3 =>
             /\ next.round = d.round + 1 /\ next.packsInFlight = OpenPacks(d.round + 1)
             /\ next.pick = 1 /\ next.passDirection = DirectionForRound(d.round + 1)
      /\ ~PacksLive(reduced) /\ d.round = 3 => ~Picking(next)
  BY CommitOutcome, CommitCounters
<1> HIDE DEF reduced, next
<1>5. CASE PacksLive(reduced)
  <2>1. d.pick + 1 <= PackSize[d.round] /\ PackSize[d.round] - ((d.pick + 1) - 1) = left
        /\ (d.pick + 1) - 1 = (d.pick - 1) + 1 /\ d.pick - 1 \in Nat
    BY <1>1, <1>3, <1>5
  <2>2. ASSUME NEW i \in Seat
        PROVE  /\ Leftover(PassPacks(reduced, d.passDirection), d.round, left, i)
               /\ Travelled(PassPacks(reduced, d.passDirection), d.passDirection, (d.pick - 1) + 1, i)
    <3>1. PassPacks(reduced, d.passDirection)[i] = reduced[PassesFrom(i, d.passDirection)]
      BY DEF PassPacks
    <3>2. Leftover(PassPacks(reduced, d.passDirection), d.round, left, i)
      BY <1>3, <3>1, PassesFromType DEF Leftover
    <3>3. QED
      BY <1>1, <1>2, <1>3, <2>1, <3>2, OnePassFurther
  <2>3. QED
    BY <1>1, <1>4, <1>5, <2>1, <2>2 DEF InStep, next
<1>6. CASE ~PacksLive(reduced) /\ d.round < 3
  <2>1. d.round + 1 \in Round
    BY <1>1, <1>6 DEF Round
  <2>2. PackSize[d.round + 1] \in Nat \ {0}
    BY <2>1, DealtBeforeNext
  <2>3. 1 <= PackSize[d.round + 1] /\ PackSize[d.round + 1] - (1 - 1) = PackSize[d.round + 1] /\ 1 - 1 = 0
    BY <2>2
  <2>4. \A i \in Seat : /\ Leftover(OpenPacks(d.round + 1), d.round + 1, PackSize[d.round + 1], i)
                        /\ Travelled(OpenPacks(d.round + 1), DirectionForRound(d.round + 1), 0, i)
    BY <2>1, FreshRound
  <2>5. QED
    BY <1>4, <1>6, <2>3, <2>4 DEF InStep, next
<1>7. CASE ~PacksLive(reduced) /\ d.round = 3
  BY <1>4, <1>7 DEF InStep, next
<1>8. QED
  BY <1>1, <1>5, <1>6, <1>7 DEF Round

\* What a seat takes in a commit: one card, or two when its pack's neighbour is
\* down to the last one, and none it had.
LEMMA SeatGains ==
    ASSUME NEW d, Counted(d), Picking(d), NEW picks, CompletePicks(d, picks), NEW i \in Seat
    PROVE  LET gain == IF LastCardsLeft(ReducedPacks(d, picks)) THEN 2 ELSE 1
           IN  /\ IsFiniteSet(PoolsAfter(d, picks)[i])
               /\ Cardinality(PoolsAfter(d, picks)[i]) = Dealt(d) + gain
<1> DEFINE reduced == ReducedPacks(d, picks)
           from == PassesFrom(i, d.passDirection)
           chosen == SelectedCard(picks, i)
           before == d.pickedPools[i]
           taken == before \cup {chosen}
           after == PoolsAfter(d, picks)[i]
<1>1. /\ d.packsInFlight \in [Seat -> PackInFlight] /\ PacksAlike(d.packsInFlight)
      /\ d.pick \in Nat \ {0} /\ d.round \in Round
  BY DEF Counted, Sound, PacksReady, DraftState
<1>2. /\ chosen \in d.packsInFlight[i].cards /\ from \in Seat
      /\ IsFiniteSet(before) /\ Cardinality(before) = Dealt(d)
  BY SelectedInPack, PassesFromType DEF Counted, Shared
<1>3. /\ \A j \in Seat : before \cap d.packsInFlight[j].cards = {}
      /\ from # i => d.packsInFlight[from].cards \cap d.packsInFlight[i].cards = {}
  BY <1>2 DEF Counted, Whole
<1>4. reduced[from].cards = d.packsInFlight[from].cards \ {SelectedCard(picks, from)}
  BY <1>1, <1>2, ReducedPacksFacts
<1>5. Dealt(d) \in Nat
  BY <1>1, DealtBeforeNext DEF Dealt
<1>6. IsFiniteSet(taken) /\ Cardinality(taken) = Dealt(d) + 1
  <2>1. chosen \notin before
    BY <1>2, <1>3
  <2>2. QED
    BY <1>2, <2>1, FS_AddElement
<1>7. \A c : c \in after <=> c \in taken \/ (LastCardsLeft(reduced) /\ c \in reduced[from].cards)
  BY <1>1, PoolGains
<1> HIDE DEF reduced, from, chosen, before, after
<1>8. CASE LastCardsLeft(reduced)
  <2>1. IsFiniteSet(reduced[from].cards) /\ Cardinality(reduced[from].cards) = 1
    <3>1. PICK n \in Nat : \A j \in Seat :
              IsFiniteSet(reduced[j].cards) /\ Cardinality(reduced[j].cards) = n
      BY <1>1, ReducedPacksFacts DEF reduced
    <3>2. n = 1
      BY <1>8, <3>1, SeatFacts DEF LastCardsLeft
    <3>3. QED
      BY <1>2, <3>1, <3>2
  <2>2. PICK award : reduced[from].cards = {award}
    BY <2>1, FS_Singleton
  <2>3. award \in d.packsInFlight[from].cards /\ award # SelectedCard(picks, from)
    BY <1>4, <2>2
  <2>4. award \notin before
    BY <1>2, <1>3, <2>3
  <2>5. award # chosen
    <3>1. CASE from = i
      BY <2>3, <3>1 DEF chosen
    <3>2. CASE from # i
      BY <1>2, <1>3, <2>3, <3>2
    <3>3. QED
      BY <3>1, <3>2
  <2>6. award \notin taken
    BY <2>4, <2>5
  <2>7. after = taken \cup {award}
    BY <1>7, <1>8, <2>2
  <2>8. IsFiniteSet(after) /\ Cardinality(after) = (Dealt(d) + 1) + 1
    BY <1>6, <2>6, <2>7, FS_AddElement
  <2>9. (Dealt(d) + 1) + 1 = Dealt(d) + 2
    BY <1>5
  <2>10. QED
    BY <1>8, <2>8, <2>9 DEF after, reduced
<1>9. CASE ~LastCardsLeft(reduced)
  <2>1. after = taken
    BY <1>7, <1>9
  <2>2. QED
    BY <1>6, <1>9, <2>1 DEF after, reduced
<1>10. QED
  BY <1>8, <1>9

\* The counters say how many cards a seat has received after a commit, too.
LEMMA DealtAfter ==
    ASSUME NEW d, Counted(d), Picking(d), NEW picks, CompletePicks(d, picks)
    PROVE  Dealt(CommitPicks(d, picks)) =
               Dealt(d) + IF LastCardsLeft(ReducedPacks(d, picks)) THEN 2 ELSE 1
<1> DEFINE reduced == ReducedPacks(d, picks)
           next == CommitPicks(d, picks)
           left == PackSize[d.round] - d.pick
<1>1. /\ d.round \in Round /\ d.pick \in Nat \ {0} /\ PackSize[d.round] \in Nat \ {0}
      /\ DealtBefore(d.round) \in Nat
      /\ Dealt(d) = DealtBefore(d.round) + (d.pick - 1)
  BY DealtBeforeNext DEF Counted, Sound, DraftState, Dealt
<1>2. /\ left \in Nat
      /\ LastCardsLeft(reduced) <=> left = 1
      /\ PacksLive(reduced) <=> left > 1
  BY ReducedInStep DEF Counted
<1>3. /\ PacksLive(reduced) => Picking(next) /\ next.round = d.round /\ next.pick = d.pick + 1
      /\ ~PacksLive(reduced) /\ d.round < 3 =>
             Picking(next) /\ next.round = d.round + 1 /\ next.pick = 1
      /\ ~PacksLive(reduced) /\ d.round = 3 => ~Picking(next)
  BY CommitOutcome, CommitCounters DEF Counted
<1>4. /\ d.round < 3 => DealtBefore(d.round + 1) = DealtBefore(d.round) + PackSize[d.round]
      /\ d.round = 3 => PackSize[1] + PackSize[2] + PackSize[3]
                            = DealtBefore(d.round) + PackSize[d.round]
  BY <1>1, DealtBeforeNext
<1> HIDE DEF reduced, next
<1>5. CASE PacksLive(reduced)
  <2>1. Dealt(next) = DealtBefore(d.round) + ((d.pick + 1) - 1)
    BY <1>3, <1>5 DEF Dealt
  <2>2. ~LastCardsLeft(reduced)
    BY <1>2, <1>5
  <2>3. QED
    BY <1>1, <2>1, <2>2 DEF next, reduced
<1>6. CASE ~PacksLive(reduced)
  <2>1. Dealt(next) = DealtBefore(d.round) + PackSize[d.round]
    <3>1. CASE d.round < 3
      <4>1. Dealt(next) = DealtBefore(d.round + 1) + (1 - 1)
        BY <1>3, <1>6, <3>1 DEF Dealt
      <4>2. QED
        BY <1>1, <1>4, <3>1, <4>1
    <3>2. CASE d.round = 3
      BY <1>3, <1>4, <1>6, <3>2 DEF Dealt
    <3>3. QED
      BY <1>1, <3>1, <3>2 DEF Round
  <2>2. PackSize[d.round] = d.pick + left
    BY <1>1
  <2>3. left = IF LastCardsLeft(reduced) THEN 1 ELSE 0
    BY <1>2, <1>6
  <2>4. QED
    BY <1>1, <2>1, <2>2, <2>3 DEF next, reduced
<1>7. QED
  BY <1>5, <1>6

\* A commit deals every seat the same and counts it.
LEMMA CommitShared ==
    ASSUME NEW d, Counted(d), Picking(d), NEW picks, CompletePicks(d, picks)
    PROVE  Shared(CommitPicks(d, picks))
<1> DEFINE next == CommitPicks(d, picks)
           gain == IF LastCardsLeft(ReducedPacks(d, picks)) THEN 2 ELSE 1
<1>1. Sound(d) /\ d.totalPicks = N * Dealt(d) /\ N \in Nat /\ Dealt(d) \in Nat
  <2>1. d.pick \in Nat \ {0} /\ d.round \in Round
    BY DEF Counted, Sound, DraftState
  <2>2. QED
    BY <2>1, NAssumption, DealtBeforeNext DEF Counted, Shared, Dealt
<1>2. Dealt(next) = Dealt(d) + gain
  BY DealtAfter
<1>3. next.pickedPools = PoolsAfter(d, picks) /\ next.totalPicks = d.totalPicks + PicksTaken(d, picks)
  BY <1>1, CommitOutcome, CommitCounters
<1>4. PicksTaken(d, picks) = gain * N
  BY <1>1 DEF PicksTaken
<1>5. next.totalPicks = N * Dealt(next)
  <2>1. gain \in Nat
    OBVIOUS
  <2> HIDE DEF gain
  <2>2. N * Dealt(d) + gain * N = N * (Dealt(d) + gain)
    BY <1>1, <2>1
  <2>3. QED
    BY <1>1, <1>2, <1>3, <1>4, <2>2
<1>6. ASSUME NEW i \in Seat
      PROVE  IsFiniteSet(next.pickedPools[i]) /\ Cardinality(next.pickedPools[i]) = Dealt(next)
  BY <1>2, <1>3, SeatGains
<1>7. QED
  BY <1>5, <1>6 DEF Shared

-----------------------------------------------------------------------------
(* Every draft.                                                            *)

\* A new draft is in step, and nobody has a card (createDraft).
LEMMA CountedAtStart == Init => Counted(draft)
<1> SUFFICES ASSUME Init PROVE Counted(draft)
  OBVIOUS
<1>1. PICK seatSetup : LegalSetup(seatSetup) /\ draft = CreateDraft(seatSetup)
  BY DEF Init
<1>2. Sound(draft) /\ Whole(draft)
  BY <1>1, CreateDraftSound, CreateDraftWhole
<1>3. /\ Picking(draft) /\ draft.round = 1 /\ draft.pick = 1 /\ draft.passDirection = "left"
      /\ draft.packsInFlight = OpenPacks(1) /\ draft.totalPicks = 0
      /\ \A i \in Seat : draft.pickedPools[i] = {}
  BY <1>1 DEF CreateDraft, Picking
<1>4. 1 \in Round /\ PackSize[1] \in Nat \ {0}
  BY PackSizeAssumption DEF Round
<1>5. InStep(draft)
  <2>1. 1 <= PackSize[1] /\ PackSize[1] - (1 - 1) = PackSize[1] /\ 1 - 1 = 0
    BY <1>4
  <2>2. \A i \in Seat : /\ Leftover(OpenPacks(1), 1, PackSize[1], i)
                        /\ Travelled(OpenPacks(1), "left", 0, i)
    BY <1>4, FreshRound
  <2>3. DirectionForRound(1) = "left"
    BY DEF DirectionForRound
  <2>4. QED
    BY <1>3, <2>1, <2>2, <2>3 DEF InStep
<1>6. Shared(draft)
  <2>1. Dealt(draft) = 0
    BY <1>3 DEF Dealt, DealtBefore
  <2>2. IsFiniteSet({}) /\ Cardinality({}) = 0
    BY FS_EmptySet
  <2>3. N * 0 = 0
    BY NAssumption
  <2>4. QED
    BY <1>3, <2>1, <2>2, <2>3 DEF Shared
<1>7. QED
  BY <1>2, <1>5, <1>6 DEF Counted

\* The counts stay true through every step.
LEMMA CountedForever == Counted(draft) /\ [Next]_draft => Counted(draft')
<1> SUFFICES ASSUME Counted(draft), [Next]_draft PROVE Counted(draft')
  OBVIOUS
<1>1. Sound(draft') /\ Whole(draft')
  BY SoundForever, WholeForever DEF Counted
<1>2. CASE CardsUntouched
  <2>1. InStep(draft')
    BY <1>2 DEF Counted, CardsUntouched, InStep, Picking
  <2>2. Dealt(draft') = Dealt(draft)
    BY <1>2 DEF CardsUntouched, Dealt, Picking
  <2>3. Shared(draft')
    BY <1>2, <2>2 DEF Counted, CardsUntouched, Shared
  <2>4. QED
    BY <1>1, <2>1, <2>3 DEF Counted
<1>3. ASSUME NEW picks, Picking(draft), CompletePicks(draft, picks), draft' = CommitPicks(draft, picks)
      PROVE  Counted(draft')
  BY <1>1, <1>3, CommitInStep, CommitShared DEF Counted
<1>4. QED
  BY <1>2, <1>3, StepKinds DEF Counted

\* The inductive invariant, of every draft.
THEOREM AlwaysCounted == Spec => []Counted(draft)
<1>1. Init => Counted(draft)
  BY CountedAtStart
<1>2. Counted(draft) /\ [Next]_draft => Counted(draft)'
  BY CountedForever
<1>3. QED
  BY <1>1, <1>2, PTL DEF Spec

(* The packs of the table shrink and travel in step, for any number of     *)
(* seats and any sizes: at pick k of a round every pack holds its size     *)
(* less k-1 cards, at least one, and stands k-1 seats from where it was    *)
(* opened.  commitPicks may therefore decide for the table from the first  *)
(* pack (passPacks, openPacks, commitPicks).                               *)
THEOREM PacksAlwaysInStep == Spec => []PacksInStep
<1>1. Counted(draft) => PacksInStep
  <2> SUFFICES ASSUME Counted(draft), Picking(draft) PROVE PacksInStep
    BY DEF PacksInStep
  <2>1. /\ draft.passDirection = DirectionForRound(draft.round)
        /\ draft.round \in Round /\ draft.pick \in Nat \ {0} /\ draft.pick <= PackSize[draft.round]
        /\ PackSize[draft.round] \in Nat \ {0}
    BY DealtBeforeNext DEF Counted, InStep, Sound, DraftState
  <2>2. ASSUME NEW i \in Seat
        PROVE  /\ Leftover(draft.packsInFlight, draft.round, PackSize[draft.round] - (draft.pick - 1), i)
               /\ Travelled(draft.packsInFlight, draft.passDirection, draft.pick - 1, i)
               /\ draft.packsInFlight[i].cards # {}
    <3>1. /\ Leftover(draft.packsInFlight, draft.round, PackSize[draft.round] - (draft.pick - 1), i)
          /\ Travelled(draft.packsInFlight, draft.passDirection, draft.pick - 1, i)
      BY DEF Counted, InStep
    <3>2. PackSize[draft.round] - (draft.pick - 1) # 0
      BY <2>1
    <3>3. draft.packsInFlight[i].cards # {}
      BY <3>1, <3>2, FS_EmptySet DEF Leftover
    <3>4. QED
      BY <3>1, <3>3
  <2>3. PackSize[draft.round] - (draft.pick - 1) \in Int
    BY <2>1
  <2>4. QED
    BY <2>1, <2>2 DEF PacksInStep, Leftover, Travelled
<1>2. QED
  BY <1>1, AlwaysCounted, PTL

(* Nobody falls behind, at any table: all pools have the same size at      *)
(* every moment, totalPicks is the sum of their sizes, and a complete      *)
(* draft has dealt every seat one pack's worth of each round               *)
(* (commitPicks, with its award of the last card).                         *)
THEOREM SharesAlwaysFair == Spec => []FairShares
<1>1. Counted(draft) => FairShares
  <2> SUFFICES ASSUME Counted(draft) PROVE FairShares
    OBVIOUS
  <2>1. N \in Nat /\ Dealt(draft) \in Nat
    <3>1. draft.pick \in Nat \ {0} /\ draft.round \in Round
      BY DEF Counted, Sound, DraftState
    <3>2. 1 \in Round /\ 2 \in Round /\ 3 \in Round
      BY DEF Round
    <3>3. QED
      BY <3>1, <3>2, NAssumption, DealtBeforeNext DEF Dealt
  <2>2. \A i \in Seat : Cardinality(draft.pickedPools[i]) * N = draft.totalPicks
    <3>1. Dealt(draft) * N = N * Dealt(draft)
      BY <2>1
    <3>2. QED
      BY <3>1 DEF Counted, Shared
  <2>3. draft.status = "complete" =>
            draft.totalPicks = N * (PackSize[1] + PackSize[2] + PackSize[3])
    BY DEF Counted, Shared, Dealt, Picking
  <2>4. QED
    BY <2>2, <2>3 DEF FairShares
<1>2. QED
  BY <1>1, AlwaysCounted, PTL

-----------------------------------------------------------------------------
(* The draft without its cards.                                            *)

\* What DraftProgress sees of a draft.
Table(d) ==
    [status |-> d.status, round |-> d.round, pick |-> d.pick, seats |-> d.seats,
     queued |-> Queued(d)]

\* Fields of the table, and when two tables are the same.
LEMMA TableFacts ==
    ASSUME NEW d
    PROVE  /\ Table(d).status = d.status /\ Table(d).round = d.round /\ Table(d).pick = d.pick
           /\ Table(d).seats = d.seats /\ Table(d).queued = Queued(d)
           /\ Progress!Picking(Table(d)) <=> Picking(d)
BY DEF Table, Progress!Picking, Picking

\* A table with other seats and another queue.
TableWith(d, seats, queued) ==
    [status |-> d.status, round |-> d.round, pick |-> d.pick, seats |-> seats, queued |-> queued]

\* What DraftProgress does to the seats of a table, field by field.
LEMMA SeatUpdates ==
    ASSUME NEW d, NEW i
    PROVE  /\ \A connected : Progress!WithPresence(Table(d), i, connected) =
                  TableWith(d, [d.seats EXCEPT ![i].connected = connected], Queued(d))
           /\ Progress!WithSeatVacated(Table(d), i) =
                  TableWith(d, [d.seats EXCEPT ![i] = [@ EXCEPT !.occupantId = Nobody, !.connected = FALSE]],
                            Queued(d) \ {i})
           /\ \A seat : Progress!WithSeatFilled(Table(d), i, seat) =
                  TableWith(d, [d.seats EXCEPT ![i] = seat], Queued(d))
<1>1. ASSUME NEW connected
      PROVE  Progress!WithPresence(Table(d), i, connected) =
                  TableWith(d, [d.seats EXCEPT ![i].connected = connected], Queued(d))
  <2> DEFINE g == Table(d)
             seats == [d.seats EXCEPT ![i] = [d.seats[i] EXCEPT !.connected = connected]]
  <2>1. Progress!WithPresence(g, i, connected) =
            [g EXCEPT !.seats = [g.seats EXCEPT ![i] = [g.seats[i] EXCEPT !.connected = connected]]]
    BY DEF Progress!WithPresence
  <2>2. g.seats = d.seats
    BY DEF Table
  <2>3. [g EXCEPT !.seats = seats] = TableWith(d, seats, Queued(d))
    BY DEF Table, TableWith
  <2>4. [d.seats EXCEPT ![i].connected = connected] = seats
    OBVIOUS
  <2> HIDE DEF g
  <2>5. Progress!WithPresence(g, i, connected) = TableWith(d, seats, Queued(d))
    BY <2>1, <2>2, <2>3
  <2>6. QED
    BY <2>4, <2>5 DEF g
<1>2. Progress!WithSeatVacated(Table(d), i) =
          TableWith(d, [d.seats EXCEPT ![i] = [@ EXCEPT !.occupantId = Nobody, !.connected = FALSE]],
                    Queued(d) \ {i})
  <2> DEFINE g == Table(d)
             seats == [d.seats EXCEPT ![i] = [d.seats[i] EXCEPT !.occupantId = Nobody, !.connected = FALSE]]
  <2>1. g.seats = d.seats /\ g.queued = Queued(d)
    BY DEF Table
  <2>2. [g EXCEPT !.seats = seats, !.queued = Queued(d) \ {i}] = TableWith(d, seats, Queued(d) \ {i})
    <3>1. \A x, q : [TableWith(d, x, Queued(d)) EXCEPT !.queued = q] = TableWith(d, x, q)
      BY DEF TableWith
    <3>2. \A x : [g EXCEPT !.seats = x] = TableWith(d, x, Queued(d))
      BY DEF Table, TableWith
    <3> HIDE DEF g
    <3>3. \A x, q : [g EXCEPT !.seats = x, !.queued = q] = [[g EXCEPT !.seats = x] EXCEPT !.queued = q]
      OBVIOUS
    <3>4. QED
      BY <3>1, <3>2, <3>3, ZenonT(40)
  <2>3. [g EXCEPT !.seats[i] = [@ EXCEPT !.occupantId = Nobody, !.connected = FALSE], !.queued = @ \ {i}]
            = [g EXCEPT !.seats = seats, !.queued = Queued(d) \ {i}]
    <3> HIDE DEF g
    <3>1. QED
      BY <2>1
  <2>4. QED
    BY <2>2, <2>3 DEF Progress!WithSeatVacated
<1>3. ASSUME NEW seat
      PROVE  Progress!WithSeatFilled(Table(d), i, seat) =
                 TableWith(d, [d.seats EXCEPT ![i] = seat], Queued(d))
  BY DEF Progress!WithSeatFilled, Table, TableWith
<1>4. QED
  BY <1>1, <1>2, <1>3

\* A queued pick, new or in place of another, leaves its seat queued.
LEMMA QueueMaps ==
    ASSUME Sound(draft), NEW i \in Seat, NEW o \in Occupant, NEW c \in AllCards,
           NEW p \in 1..PackSize[c.round], Queue(i, o, p, c)
    PROVE  /\ Progress!MayQueue(Table(draft), i, o)
           /\ Table(draft') = Progress!WithQueued(Table(draft), i)
<1> DEFINE intent == Intent(i, o, p, c)
<1>1. /\ draft \in DraftState /\ intent.seat = i /\ intent.occupant = o
      /\ CanPickCard(draft, intent) /\ draft' = PickCard(draft, intent)
  BY DEF Sound, Queue, Intent
<1> HIDE DEF intent
<1>2. Progress!MayQueue(Table(draft), i, o)
  BY <1>1 DEF Table, CanPickCard, Picking, Progress!MayQueue, Progress!Owns, Progress!Picking
<1>3. Queued(draft') = Queued(draft) \cup {i}
  <2>1. CASE \E q \in PicksAt(draft, i) : q.card = intent.card
    BY <1>1, <2>1 DEF PickCard, PicksAt, Queued
  <2>2. CASE ~\E q \in PicksAt(draft, i) : q.card = intent.card
    <3>1. draft'.provisionalPicks = (draft.provisionalPicks \ PicksAt(draft, i)) \cup {intent}
      BY <1>1, <2>2 DEF PickCard, DraftState
    <3>2. QED
      BY <1>1, <3>1 DEF PicksAt, Queued
  <2>3. QED
    BY <2>1, <2>2
<1>4. /\ draft'.status = draft.status /\ draft'.round = draft.round /\ draft'.pick = draft.pick
      /\ draft'.seats = draft.seats
  BY <1>1 DEF PickCard, DraftState
<1>5. QED
  BY <1>2, <1>3, <1>4 DEF Table, Progress!WithQueued

\* Presence, departures and arrivals change their seat and its queue only.
LEMMA SeatsMap ==
    ASSUME Sound(draft), NEW i \in Seat, NEW o \in Occupant
    PROVE  /\ Disconnect(i, o) => /\ Progress!Owns(Table(draft), i, o)
                                  /\ Table(draft') = Progress!WithPresence(Table(draft), i, FALSE)
           /\ Reconnect(i, o) => /\ Progress!Owns(Table(draft), i, o)
                                 /\ Table(draft') = Progress!WithPresence(Table(draft), i, TRUE)
           /\ Vacate(i, o) => /\ Progress!Owns(Table(draft), i, o)
                              /\ Table(draft') = Progress!WithSeatVacated(Table(draft), i)
<1>1. draft \in DraftState /\ \A p \in draft.provisionalPicks : p.seat \in Seat
  BY DEF Sound, DraftState, ProvisionalPick
<1>2. OwnsSeat(draft, i, o) => Progress!Owns(Table(draft), i, o)
  BY DEF OwnsSeat, Picking, Table, Progress!Owns, Progress!Picking
<1>3. ASSUME NEW connected \in BOOLEAN, draft' = UpdatePresence(draft, i, connected)
      PROVE  Table(draft') = Progress!WithPresence(Table(draft), i, connected)
  <2>1. /\ draft'.status = draft.status /\ draft'.round = draft.round /\ draft'.pick = draft.pick
        /\ draft'.seats = [draft.seats EXCEPT ![i].connected = connected]
        /\ draft'.provisionalPicks = draft.provisionalPicks
    BY <1>1, <1>3 DEF UpdatePresence, DraftState
  <2>2. Table(draft') = TableWith(draft, [draft.seats EXCEPT ![i].connected = connected], Queued(draft))
    BY <2>1 DEF Table, TableWith, Queued
  <2>3. QED
    BY <2>2, SeatUpdates
<1>4. ASSUME draft' = VacateSeat(draft, i)
      PROVE  Table(draft') = Progress!WithSeatVacated(Table(draft), i)
  <2>1. /\ draft'.status = draft.status /\ draft'.round = draft.round /\ draft'.pick = draft.pick
        /\ draft'.seats = [draft.seats EXCEPT ![i] = [@ EXCEPT !.occupantId = Nobody, !.connected = FALSE]]
        /\ draft'.provisionalPicks = draft.provisionalPicks \ PicksAt(draft, i)
    BY <1>1, <1>4 DEF VacateSeat, DraftState
  <2>2. Queued(draft') = Queued(draft) \ {i}
    BY <2>1 DEF Queued, PicksAt
  <2>3. Table(draft') =
            TableWith(draft, [draft.seats EXCEPT ![i] = [@ EXCEPT !.occupantId = Nobody, !.connected = FALSE]],
                      Queued(draft) \ {i})
    BY <2>1, <2>2 DEF Table, TableWith
  <2>4. QED
    BY <2>3, SeatUpdates
<1>5. QED
  BY <1>2, <1>3, <1>4 DEF Disconnect, Reconnect, Vacate

\* A replacement takes a seat that nobody holds under a name nobody has.
LEMMA FillMaps ==
    ASSUME Sound(draft), NEW i \in Seat, NEW o \in Occupant, Fill(i, o)
    PROVE  Progress!Fill(i, o)
<1>1. draft \in DraftState /\ CanFillSeat(draft, i, o)
  BY DEF Sound, Fill
<1>2. PICK controller \in Controller, connected \in BOOLEAN :
          draft' = FillSeat(draft, i, o, controller, connected)
  BY DEF Fill
<1> DEFINE seat == [controller |-> controller, occupantId |-> o, connected |-> connected]
<1>3. /\ draft'.status = draft.status /\ draft'.round = draft.round /\ draft'.pick = draft.pick
      /\ draft'.seats = [draft.seats EXCEPT ![i] = seat]
      /\ draft'.provisionalPicks = draft.provisionalPicks
  BY <1>1, <1>2 DEF FillSeat, DraftState
<1>4. Table(draft') = Progress!WithSeatFilled(Table(draft), i, seat)
  <2>1. Table(draft') = TableWith(draft, [draft.seats EXCEPT ![i] = seat], Queued(draft))
    BY <1>3 DEF Table, TableWith, Queued
  <2>2. QED
    BY <2>1, SeatUpdates
<1>5. /\ Progress!Picking(Table(draft)) /\ Table(draft).seats[i].occupantId = Nobody
      /\ \A j \in Progress!Seat : Table(draft).seats[j].occupantId # o
  BY <1>1 DEF CanFillSeat, Picking, Table, Progress!Picking, Progress!Seat, Seat
<1>6. QED
  BY <1>2, <1>4, <1>5 DEF Progress!Fill, Progress!Controller, Controller, Table

\* The bots that queue are the connected ones without a pick.
LEMMA RunBotsMaps ==
    ASSUME Sound(draft), RunBots
    PROVE  Progress!Picking(Table(draft)) /\ Table(draft') = Progress!WithBotsQueued(Table(draft))
<1>1. draft \in DraftState /\ Picking(draft) /\ DOMAIN draft.seats = Seat
  BY DEF Sound, DraftState, RunBots
<1>2. PICK policy : draft' = RunPendingBots(draft, policy)
  BY DEF RunBots
<1>3. /\ draft'.status = draft.status /\ draft'.round = draft.round /\ draft'.pick = draft.pick
      /\ draft'.seats = draft.seats
      /\ draft'.provisionalPicks =
             draft.provisionalPicks \cup {IntentFor(draft, i, policy[i]) : i \in PendingBots(draft)}
  BY <1>1, <1>2 DEF RunPendingBots, DraftState
<1>4. Queued(draft') = Queued(draft) \cup PendingBots(draft)
  <2>1. \A i \in PendingBots(draft) : IntentFor(draft, i, policy[i]).seat = i
    BY DEF IntentFor
  <2>2. QED
    BY <1>3, <2>1 DEF Queued
<1>5. PendingBots(draft) = Progress!WaitingBots(Table(draft))
  BY <1>1 DEF PendingBots, PendingSeats, MayChoose, Picking, Progress!WaitingBots, Table
<1>6. QED
  BY <1>1, <1>3, <1>4, <1>5
     DEF Table, Picking, Progress!Picking, Progress!WithBotsQueued

\* A commit moves the table on by its numbers alone, whatever was picked.
LEMMA CommitMaps ==
    ASSUME Counted(draft), Picking(draft), NEW picks, CompletePicks(draft, picks),
           draft' = CommitPicks(draft, picks)
    PROVE  Progress!Commit
<1> DEFINE live == PacksLive(ReducedPacks(draft, picks))
<1>1. draft \in DraftState /\ draft.round \in Round /\ Sound(draft) /\ InStep(draft)
  BY DEF Counted, Sound, DraftState
<1>2. live <=> Progress!CardsLeft(Table(draft)) > 1
  BY <1>1, ReducedInStep DEF Progress!CardsLeft, Table
<1>3. /\ draft'.seats = draft.seats /\ draft'.provisionalPicks = {}
      /\ live => draft'.status = "picking" /\ draft'.round = draft.round /\ draft'.pick = draft.pick + 1
      /\ ~live /\ draft.round < 3 =>
             draft'.status = "picking" /\ draft'.round = draft.round + 1 /\ draft'.pick = 1
      /\ ~live /\ draft.round = 3 =>
             draft'.status = "complete" /\ draft'.round = draft.round /\ draft'.pick = draft.pick
  BY <1>1, CommitOutcome, CommitCounters DEF Picking
<1>4. Queued(draft') = {}
  BY <1>3 DEF Queued
<1> HIDE DEF live
<1>5. Table(draft') = Progress!Committed(Table(draft))
  <2>1. CASE live
    BY <1>2, <1>3, <1>4, <2>1 DEF Table, Progress!Committed, Picking
  <2>2. CASE ~live /\ draft.round < 3
    BY <1>2, <1>3, <1>4, <2>2 DEF Table, Progress!Committed, Picking
  <2>3. CASE ~live /\ draft.round = 3
    BY <1>2, <1>3, <1>4, <2>3 DEF Table, Progress!Committed, Picking
  <2>4. QED
    BY <1>1, <2>1, <2>2, <2>3 DEF Round
<1>6. QED
  BY <1>5, TableFacts DEF Progress!Commit, Table

\* Every step of a draft is a step of its progress, or none.
LEMMA StepMaps == Counted(draft) /\ [Next]_draft => Progress!Next \/ Table(draft') = Table(draft)
<1> SUFFICES ASSUME Counted(draft), [Next]_draft PROVE Progress!Next \/ Table(draft') = Table(draft)
  OBVIOUS
<1>1. Sound(draft) /\ Progress!Seat = Seat
  BY DEF Counted, Progress!Seat, Seat
<1>2. ASSUME NEW i \in Seat, NEW o \in Occupant, NEW c \in AllCards,
             NEW p \in 1..PackSize[c.round], Queue(i, o, p, c)
      PROVE  Progress!Queue(i, o)
  BY <1>1, <1>2, QueueMaps DEF Progress!Queue, Table
<1>3. ASSUME NEW i \in Seat, NEW o \in Occupant, Disconnect(i, o) \/ Reconnect(i, o)
      PROVE  Progress!Presence(i, o)
  BY <1>1, <1>3, SeatsMap DEF Progress!Presence, Table
<1>4. ASSUME NEW i \in Seat, NEW o \in Occupant, Vacate(i, o)
      PROVE  Progress!Vacate(i, o)
  BY <1>1, <1>4, SeatsMap DEF Progress!Vacate, Table
<1>5. ASSUME NEW i \in Seat, NEW o \in Occupant, Fill(i, o)
      PROVE  Progress!Fill(i, o)
  BY <1>1, <1>5, FillMaps
<1>6. CASE RunBots
  BY <1>1, <1>6, RunBotsMaps DEF Progress!RunBots, Progress!Next, Table
<1>7. CASE Reveal \/ Timeout
  <2>1. Progress!Commit
    BY <1>1, <1>7, BarrierCommits, CommitMaps
  <2>2. QED
    BY <2>1 DEF Progress!Next
<1>8. CASE Over \/ UNCHANGED draft
  BY <1>8 DEF Over
<1>9. ASSUME NEW i \in Seat, NEW o \in Occupant,
             Progress!Queue(i, o) \/ Progress!Presence(i, o) \/ Progress!Vacate(i, o) \/ Progress!Fill(i, o)
      PROVE  Progress!Next
  BY <1>1, <1>9 DEF Progress!Next
<1>10. QED
  BY <1>2, <1>3, <1>4, <1>5, <1>6, <1>7, <1>8, <1>9 DEF Next

(* The draft implements its progress, for any table: which cards are taken *)
(* changes nothing about when packs pass, rounds change and the draft      *)
(* ends, and a seat is queued by its own pick, a bot's or nobody's         *)
(* (pickCard, vacateSeat, runPendingBots, commitPicks).  Room relies on it *)
(* when it hosts a draft by these operators alone.                         *)
THEOREM ProgressImplemented == Spec => ImplementsProgress
<1>1. Init => Progress!Init
  <2> SUFFICES ASSUME Init PROVE Progress!Init
    OBVIOUS
  <2>1. PICK seatSetup \in [Seat -> [controller : Controller, occupantId : Occupant, connected : BOOLEAN]] :
            LegalSetup(seatSetup) /\ draft = CreateDraft(seatSetup)
    BY DEF Init
  <2>2. Table(draft) = Progress!Start(seatSetup)
    BY <2>1 DEF CreateDraft, Table, Queued, Progress!Start
  <2>3. QED
    BY <2>1, <2>2 DEF LegalSetup, Progress!Init, Progress!Seat, Progress!Controller, Seat, Controller, Table
<1>2. Counted(draft) /\ [Next]_draft =>
          [Progress!Next]_[status |-> draft.status, round |-> draft.round, pick |-> draft.pick,
                           seats |-> draft.seats, queued |-> Queued(draft)]
  BY StepMaps DEF Table
<1>3. QED
  BY <1>1, <1>2, AlwaysCounted, PTL DEF Spec, ImplementsProgress, Progress!Spec

-----------------------------------------------------------------------------
(* The deal behind the draft.                                              *)

\* Who holds card c in draft d, as HolderOf says of the current draft.
Holder(d, c) ==
    IF \E i \in Seat : c \in d.pickedPools[i]
    THEN CHOOSE i \in Seat : c \in d.pickedPools[i]
    ELSE N

\* A card has the holder whose pool it is in, and no holder outside the pools.
LEMMA HolderFacts ==
    ASSUME NEW d, Whole(d), NEW c
    PROVE  /\ \A i \in Seat : Holder(d, c) = i <=> c \in d.pickedPools[i]
           /\ Holder(d, c) = N <=> \A i \in Seat : c \notin d.pickedPools[i]
<1>1. N \notin Seat
  BY NAssumption DEF Seat
<1>2. \A i, j \in Seat : c \in d.pickedPools[i] /\ c \in d.pickedPools[j] => i = j
  BY DEF Whole
<1>3. QED
  BY <1>1, <1>2 DEF Holder

\* FairDeal counts as everybody does: its instance has a Cardinality of its own.
LEMMA DealCounts ==
    ASSUME NEW S
    PROVE  Deal!Cardinality(S) = Cardinality(S)
BY Zenon DEF Deal!Cardinality, Cardinality

\* A commit deals every seat the same one or two cards, and moves none.
LEMMA CommitDeals ==
    ASSUME Counted(draft), Whole(draft'), Picking(draft), NEW picks, CompletePicks(draft, picks),
           draft' = CommitPicks(draft, picks)
    PROVE  Deal!Deal
<1> DEFINE gain == IF LastCardsLeft(ReducedPacks(draft, picks)) THEN 2 ELSE 1
           before(i) == draft.pickedPools[i]
           after(i) == draft'.pickedPools[i]
<1>1. /\ draft.packsInFlight \in [Seat -> PackInFlight] /\ PacksAlike(draft.packsInFlight)
      /\ draft \in DraftState /\ Dealt(draft) \in Nat /\ gain \in 1..2
  <2>1. draft.pick \in Nat \ {0} /\ draft.round \in Round
    BY DEF Counted, Sound, DraftState
  <2>2. Dealt(draft) \in Nat
    BY <2>1, DealtBeforeNext DEF Dealt
  <2>3. QED
    BY <2>2 DEF Counted, Sound, PacksReady
<1>2. draft'.pickedPools = PoolsAfter(draft, picks)
  BY CommitOutcome DEF Counted
<1>3. \A i \in Seat : before(i) \subseteq after(i) /\ after(i) \subseteq AllCards
  <2>1. PoolsAfter(draft, picks) \in [Seat -> SUBSET AllCards]
    BY <1>1, PoolsAfterFacts
  <2>2. \A i \in Seat : before(i) \subseteq PoolsAfter(draft, picks)[i]
    BY <1>1, PoolGains
  <2>3. QED
    BY <1>2, <2>1, <2>2
<1>4. ASSUME NEW i \in Seat
      PROVE  Cardinality(after(i) \ before(i)) = gain
  <2>1. IsFiniteSet(before(i)) /\ Cardinality(before(i)) = Dealt(draft)
    BY DEF Counted, Shared
  <2>2. IsFiniteSet(after(i)) /\ Cardinality(after(i)) = Dealt(draft) + gain
    BY <1>2, SeatGains
  <2>3. after(i) \cap before(i) = before(i)
    BY <1>3
  <2>4. Cardinality(after(i) \ before(i)) = Cardinality(after(i)) - Cardinality(after(i) \cap before(i))
    BY <2>2, FS_Difference
  <2> HIDE DEF gain
  <2>5. (Dealt(draft) + gain) - Dealt(draft) = gain
    BY <1>1
  <2>6. QED
    BY <2>1, <2>2, <2>3, <2>4, <2>5
<1>5. \A c : /\ HolderOf(c) = Holder(draft, c)
             /\ HolderOf(c)' = Holder(draft', c)
  BY DEF HolderOf, Holder
<1>6. Whole(draft)
  BY DEF Counted
<1>7. ASSUME NEW i \in Seat
      PROVE  {c \in AllCards : HolderOf(c) = N /\ HolderOf(c)' = i} = after(i) \ before(i)
  <2>1. ASSUME NEW c \in after(i), c \notin before(i), NEW j \in Seat
        PROVE  c \notin before(j)
    <3>1. j # i => c \notin after(j)
      BY <2>1 DEF Whole
    <3>2. QED
      BY <1>3, <2>1, <3>1
  <2>2. \A c \in AllCards : HolderOf(c) = N /\ HolderOf(c)' = i <=> c \in after(i) /\ c \notin before(i)
    BY <1>5, <1>6, <2>1, HolderFacts
  <2>3. QED
    BY <1>3, <2>2
<1>8. \A c \in AllCards : HolderOf(c) # N => HolderOf(c)' = HolderOf(c)
  <2> SUFFICES ASSUME NEW c \in AllCards, HolderOf(c) # N PROVE HolderOf(c)' = HolderOf(c)
    OBVIOUS
  <2>1. PICK i \in Seat : c \in before(i)
    BY <1>5, <1>6, HolderFacts
  <2>2. QED
    BY <1>3, <1>5, <1>6, <2>1, HolderFacts
<1>9. \E c \in AllCards : HolderOf(c) = N
  <2>1. PICK c : c \in draft.packsInFlight[0].cards
    BY SelectedInPack, SeatFacts
  <2>2. c \in AllCards
    BY <1>1, <2>1, SeatFacts DEF PackInFlight
  <2>3. \A i \in Seat : c \notin before(i)
    BY <1>6, <2>1, SeatFacts DEF Whole
  <2>4. QED
    BY <1>5, <1>6, <2>2, <2>3, HolderFacts
<1>10. \A i \in Seat : Deal!Dealt(i) = after(i) \ before(i)
  BY <1>7 DEF Deal!Dealt
<1>11. \A i \in Seat : Deal!Cardinality(Deal!Dealt(i)) = gain
  BY <1>4, <1>10, DealCounts
<1>12. QED
  BY <1>1, <1>8, <1>9, <1>11 DEF Deal!Deal, Deal!AllDealt

(* However people queue, leave and time out, a draft is a fair deal: cards *)
(* are dealt in equal shares and a dealt card never changes hands, at any  *)
(* table (commitPicks).  That the deal comes to its end needs the clock    *)
(* and is left to the runs.                                                *)
THEOREM DealIsFair == Spec => Deal!Spec
<1>1. Init => Deal!Init
  <2> SUFFICES ASSUME Init PROVE Deal!Init
    OBVIOUS
  <2>1. \A i \in Seat : draft.pickedPools[i] = {}
    BY DEF Init, CreateDraft
  <2>2. \A c : HolderOf(c) = N
    BY <2>1 DEF HolderOf
  <2>3. QED
    BY <2>2 DEF Deal!Init
<1>2. Counted(draft) /\ [Next]_draft => [Deal!Next]_([c \in AllCards |-> HolderOf(c)])
  <2> SUFFICES ASSUME Counted(draft), [Next]_draft
               PROVE  Deal!Next \/ UNCHANGED [c \in AllCards |-> HolderOf(c)]
    OBVIOUS
  <2>1. CASE CardsUntouched
    BY <2>1 DEF CardsUntouched, HolderOf
  <2>2. ASSUME NEW picks, Picking(draft), CompletePicks(draft, picks), draft' = CommitPicks(draft, picks)
        PROVE  Deal!Next
    BY <2>2, CountedForever, CommitDeals DEF Counted, Deal!Next
  <2>3. QED
    BY <2>1, <2>2, StepKinds DEF Counted
<1>3. QED
  BY <1>1, <1>2, AlwaysCounted, PTL DEF Spec, Deal!Spec

=============================================================================
