# Draft Table: TLA+ models, checks and proofs

Draft Table runs booster drafts: up to eight seats take one card at a time from
packs that travel around the table. A pure rules package decides what a draft
is; a room, one Durable Object per room code, hosts a draft for people who
connect, drop out and come back; a browser client talks to the room.

This directory holds TLA+ models of the rules, of the room, of the session between
browser tabs and rooms, and of the way from the set's recipe to an opened pack;
the TLC runs that check them on small instances; and TLAPS proofs about the
rules, the room, the session, the recipe and the packs for every value of the
constants.

Paths below are relative to the repository.

## 1. Inventory

| Part | Source | State | Operations |
|---|---|---|---|
| Draft rules | `packages/draft/src/index.ts` | one immutable `DraftState` | `createDraft`, `pickCard`, `disconnectSeat`, `reconnectSeat`, `vacateSeat`, `fillSeat`, `revealBarrier`, `resolveTimeout`, `runPendingBots` |
| Room | `apps/server/src/room.ts` | stored snapshot, one alarm slot, sockets with attachments | `initialize`, socket accept, `hello`, lobby commands, `start_draft`, `queue_pick`, `leave`, close events, alarms |
| Room router | `apps/server/src/index.ts`, `limits.ts` | none | create a room (retrying a taken code), open a socket |
| Pack building | `apps/server/src/packs.ts` | none | one weighted pack, three rounds of packs |
| Room codes | `packages/contracts/src/room-code.ts` | none | mint, normalise |
| Random engine | `packages/engine/src/*` | a generator's word | bounded ticket, sample batch, deterministic source |
| Room client | `apps/web/src/room-client.ts`, `protocol.ts` | socket, last seen version, claim, status, reconnect timer | connect, receive, send, reconnect, leave, stop |
| Solo table, pool, room list | `apps/web/src/table.ts`, `pool.ts`, `rooms.ts` | none (the page holds the draft) | one pass against bots, grouping, room creation |
| Pages | `apps/web/src/room-page.ts`, `main.ts`, ... | the page's copy of the room, its one reference to a client | forms, entering and ending a room, folding a frame, controls |
| Pack construction of the set | `packages/set-omens/src/pack-construction.ts`, `pack-collation-plan.ts`, ... | a continuation its caller holds | begin, continue with a batch of samples, complete |
| Recipe of the set | `packages/set-omens/src/layouts.ts`, `pools.ts`, `recipe-*.ts`, `set-snapshot.ts`, `scripts/build-set-snapshot.mjs`, ... | none | read, verify, reconcile, classify, resolve, generate and validate the snapshot |
| Set data | the rest of `packages/set-omens/src/*` | none | validate and project fixed files |
| Tooling | `scripts/`, workflows | none | build, check, release |

How they interact:

- The client creates a room with one POST; the router mints a code and asks the
  object of that code to `initialize`, once more with another code if taken.
- A client opens a socket. It is nobody until its `hello`, which presents a
  credential (a returning identity) or receives one, and may present the
  one-time host claim.
- The host starts the draft: the room builds the packs and calls `createDraft`
  and `runPendingBots`. From then on it replaces its draft by what the rules
  return: `pickCard` for a pick, `disconnectSeat` and `reconnectSeat` when a
  socket goes or comes, `resolveTimeout` and `runPendingBots` when a pick closes.
- Time reaches the room only through its single alarm slot, in which every
  handler books the next thing to happen.
- Each answer the room gives, and each thing it announces to others, is a frame
  with a state version; the client acknowledges versions, asks for a
  resynchronisation when one is missing, and the page folds frames into its copy.
- The solo table drives the same rules with `revealBarrier`.
- The recipe is read into tables once, and into the snapshot that is committed;
  packs are drawn with samples of a source, from the tables by the set's own
  construction and from the snapshot by the server's copy.

What each part must guarantee, and what makes it hard:

- **Draft rules.** Every card in one place; equal shares; packs in step although
  only the first is looked at; a queued pick honoured or withdrawn for a reason.
  Hard: intents composed from an older view, seats that change hands, the last
  card that is awarded without being queued, three rounds in two directions.
- **Room.** The ledger of people, the ring of the draft, the list of sockets and
  the alarm slot must agree. Hard: superseded sockets that close late, sockets
  that vanish without a close event, alarms that come late, early or twice, one
  slot for six kinds of appointment, and deadlines that move.
- **Session.** The page's copy must converge to the room's state through
  reconnections and missed frames, and nobody may be locked out by what they lost
  themselves. Hard: deltas of several kinds over a socket that reconnects, a lost
  `hello_ack` after the host claim was spent, two tabs of one browser, an answer
  that comes after the page has moved on.
- **Engine and packs.** Unbiased bounded tickets; a pack drawn without
  replacement; two hand-kept copies that agree. Hard: the edges of the sample
  range, tables recomputed after each removal, batches cut anywhere, a pool that
  runs out.
- **Recipe.** What reading accepts must be what later stages can resolve, though
  each stage counts anew and by another key. Hard: the ends of sections, cards that
  share a name or a print, layouts that keep the totals and change the odds. The
  snapshot knows cards and pools by their places in lists only: a card numbered
  otherwise than it is listed is another card, and every check still passes.

`PROJECT.json` lists the hazards of the code, each at its line, with the
properties that cover it or the reason why none does.

## 2. Modules

| Module | Models |
|---|---|
| `DraftRules` | the rules as operators from a draft to the next, no variables |
| `Draft` | one draft under an unrestricted environment: the actions and properties |
| `DraftProgress` | the draft without its cards: when the table moves |
| `FairDeal` | what a draft promises: equal shares, until every card is dealt |
| `Room` | the room: sockets, ledger, alarm slot, phases; hosts a `DraftProgress` |
| `RoomLifecycle` | what a room promises: the order of its phases, turns and table |
| `RoomAnnouncements` | the room read for its frames: each handler as an operator from the public facts to the next and the frames sent |
| `RoomClient` | the connection driver and the page as records, their handlers as operators |
| `Session` | tabs, drivers, pages, router, rooms and the sockets between them |
| `Tickets`, `SeededSource` | the bounded draw from samples and batches; the replayable source of samples |
| `CollationTables`, `PackPlans`, `PackConstruction` | weighted tables; a pack's plan and its transitions; the construction from batches |
| `SnapshotPacks` | the server's own pack builder over the same tables |
| `RecipeLines`, `Recipe`, `SetSnapshot`, `SetCompilation` | reading the recipe; its verification, reconciliation, classification and resolution; the generated snapshot and its validation; the stages in order |
| `SetToPack` | the compilation, then one pack from the tables |
| `MCDraft`, `MCRoom`, `MCSession`, `MCRecipe`, `MCPacks` | instances for TLC |
| `DraftProofs` | lemmas about the rules; theorems about `Draft` |
| `RoomProofs`, `RoomPresenceProofs` | theorems about `Room`: its snapshot and alarm; its sockets and its ring |
| `SessionProofs` | theorems about `Session`: claims, identities, why drivers end |
| `PageProofs` | theorems about `Session`: what a page shows is what its room holds, and what a start finds |
| `PackProofs` | theorems about the bounded draw and about `PackConstruction`: tables, plans, the two copies |
| `ListProofs` | lemmas about lists and induction, shared by the two modules on sets and packs |
| `RecipeProofs` | theorems about `SetCompilation`: reading, odds, resolution, the snapshot |

`Draft` implements both `DraftProgress` and `FairDeal`; `Room` uses the operators
of `DraftProgress` for the draft it hosts, so what `Draft` shows of that module's
steps carries over; `Room` implements `RoomLifecycle`. `Session` composes
`RoomAnnouncements` with `RoomClient`. `PackConstruction` runs `PackPlans` and
`SnapshotPacks` side by side on the same samples and takes them from anybody or
from a replayable source, which `SetToPack` makes a `SeededSource`.

### 2.1 The draft

A draft is a record with the fields of `DraftState`. Each exported function is an
operator of the same name and its `Can...` guard: the conjunction of the
conditions under which the function does not throw. A call that throws leaves
its caller with the draft it had, so it is no step of `Draft`. `pendingSeatIds`
and `legalChoices` are derived and appear as operators.

A card is named by the round, the seat and the slot of the pack it was opened
in; instance ids are unique across a draft, so nothing else distinguishes
cards. Card names and labels are left out. A pack's cards and a pool are sets;
the order of a pack is that of its slots, which removal preserves and the award
of the last card (`FirstCard`) reads.

The random source of `resolveTimeout` belongs to the caller and the bots'
policy is a parameter, so each is a choice of any card of the pack at the seat.

The environment of `Draft` is unrestricted: anybody may queue, change their
mind, leave, be replaced, and send intents with any earlier pick number or an
earlier occupant. A timeout may strike at any moment.

### 2.2 The room

Every handler of the room runs whole inside `blockConcurrencyWhile`, so one
handler is one action, with every write, `setAlarm` and socket close it makes.
Actions carry the handlers' names (`Initialize`, `HelloNew` and `HelloReturning`
for the two halves of `hello`, `MoveParticipant`, `StartDraft`, `QueuePick`,
`SocketClosed`, `HandleAlarm`, ...). What surrounds the handlers is modelled as
it comes:

- *Sockets* are a list; nothing depends on its order, which the platform does
  not promise: where the code does (`reconcileLiveness` keeps the last of each
  identity), any socket of the identity may be the last. `close()` marks a socket no
  longer open; it stays listed, and may still have messages under way, until
  its close event (`SocketClosed`). `Deploy` drops all sockets with no event.
- *The alarm slot* is a countdown. `Wake` is a delivery at or after the booked
  time; `RedeliverWake` is an extra one, at any time after the first, which
  makes it early for whatever is booked by then.
- *Time* is in ticks. Deadlines are countdowns, 0 when due; `Tick` moves them all.
- *Identities.* A participant id is minted once and never again. Holding the id
  stands for holding its credential.

Left out of `Room`: names, passwords, the feed, `poolHidden` and the state version
(hence `updateProfile`, and `stale_state` on start), and the messages sent to
clients, which are `Session`'s subject. A refused command changes nothing and is
no step, except that refusals which close the socket are `TurnAway`. The `catch`
of the deadline alarm, which leaves the room as it was, is not modelled: theorem
`BarriersNeverFail` shows that the call it guards does not throw.

### 2.3 The session

The same handlers, read for what they tell whom. `RoomAnnouncements` reduces a room
to the facts its frames carry (`NewRoom`): people with host, presence and
generation, a two-valued `look` for names and lobby seats, options, ring, who has
queued, the kind of deadline and the length of the story. Each handler returns an
`Outcome`: the facts afterwards, the reply to the sender, what everybody hears,
what others hear, whether private views follow, and whom it dismisses. Time is
not modelled: the alarm may fire whenever its handler would do something.

`RoomClient` is `room-client.ts` and the folding of `room-page.ts`. `status` is what
the driver last announced: a stage of connecting, or the reason for which it has
stopped. `Received` acknowledges versions, `AsksResync` is the gap rule of
`protocol.ts`, `Closed` is `closed()`, and `Folded` is the page's reducer, frame by
frame.

`Session` owns the sockets. A link has two ends: `heard` (the driver listens),
`open` and `listed` (the room has not closed it, the platform lists it), and two
queues. Links are FIFO, and may be cut at any moment with whatever they carry; the
driver then hears of it, the room hears of it later or, after a deploy, never.
Actions are the page's forms and controls, the answers of the router, the
driver's handlers (`Opens`, `FailsToOpen`, `TriesAgain`, `HearsFrame`, `HearsClose`)
and the room's (`RoomReads`, `RoomHearsClose`, `AlarmFires`). Only what the page
has a control for is sent.

### 2.4 The set and its packs

A sample is a number below `SampleEnd` (2^32 in the code, whose own seam for tests
takes another). `Tickets` maps samples and batches to tickets, `CollationTables`
tickets to choices, `PackPlans` fills the positions of a layout one by one, each
with the checks the code makes of its own results; a check that fails is the
state `failed`, so that a property can say none does. `SnapshotPacks` is a
builder suspended at each request for a sample. `PackConstruction` begins a pack
with any samples in any batches and calls, or with the samples of a source that
gives one and goes on to another state: which source is left open (`Sources`,
`SampleFrom`, `After`), so that what is proved holds for each. `SetToPack` has the
code's own, its word and rotation widths scaled down in the code's proportion.

The recipe's text is a sequence of lines told apart by their shape; what is
wrong with a line's spelling is the line `OtherLine`. Each stage of the code is an
operator that gives its result or `Refused`; `SetCompilation` applies them in
order, up to the tables (`ResolveRecipeLayouts`) or to the snapshot
(`GenerateSnapshot`), which are made from the same resolution. The official list is
a choice wherever the code takes it: to reconcile, to classify and to compare
rarities; the script that generates the snapshot passes one list to all three,
which is among the choices. The numbers pinned to the reviewed set are
constants, and the instance is a smaller set with its own numbers. Layouts are
read section by section declaratively, with the checks the readers make, where
the code goes line by line.

## 3. Runs

| Run | Instance | What it shows |
|---|---|---|
| `draft_table` | 2 seats, 3 identities, packs of 4, 2 and 1 | conservation, committable and honoured queues, equal shares, durability, refinement of `DraftProgress`, with presence, departures, replacements and stale intents |
| `draft_ring` | 3 seats, people who stay, packs of 2, 3 and 1 | packs in step in both directions, refinement of `FairDeal` with its liveness |
| `room_lobby` | 3 people, 2 positions, 2 sockets, bots and spectators, packs of 2 | ledger, ring, appointments, abandonment, causes of absence, and the lifecycle |
| `room_timed` | 2 people, timers on, packs of 3 | deadlines exist, never move away, are what closes picks; the draft ends by itself |
| `room_untimed` | 2 people, timers off, a deploy, packs of 3 | confirmations fire; deserted lobbies are reaped |
| `room_returning` | 2 people, timers off | refutes what the documents say of returning drafters (section 5) |
| `room_shadowed` | 2 people, a lobby | refutes what the code's comments say of the liveness sweep (section 5) |
| `packs` | 4-bit samples, 4 positions, 2 pools; a recipe of 10 cards, 11 pools, 12 layouts, its edits and short texts | recipes that reading accepts are resolved, keep the rules' odds and deal what is draftable; the snapshot deals what the recipe says; draws are unbiased and without replacement; both builders agree; planned packs do not fail; seeded packs finish |
| `session` | 2 tabs of one or two browsers, 1 room, 2 sockets, 2 drivers a tab | pages follow the room; a host claim is in one place; a driver stops for a cause; a draft starts as its host was shown; who was in gets back |
| `session_deadline` | one host, timers on | refutes what the documents say of the accelerated deadline (section 5) |
| `session_overlap` | 2 tabs, 2 creations, a join | refutes what the page says of its one connection (section 5) |

### 3.1 Bounds

- *Seats.* Two seats have all interactions of one seat with another; what they
  cannot show is direction, since left and right are the same neighbour. Three
  seats tell them apart, and a pack that goes around once meets every position.
- *Pack sizes.* 1 (a round of a single card, no award), 2 (one pick and an
  award at once), 3 (a pick that passes, then a pick with an award) and 4 (two
  picks that pass) are all the ways a round can go; a longer round repeats the
  passing pick. The order of sizes differs between the two runs so that each
  kind of round is also followed by another. With 2, 3 and 1 only the second
  round's packs are seen lying where a pass has carried them, the first round's
  last cards being awarded as they pass; that they do so in every round, at any
  table, is theorem `PacksAlwaysInStep`.
- *Identities.* Three for two seats, so that a seat can be taken over by somebody
  who never had one while the departed may take the other.
- *Room.* Two sockets are a current and a superseded one of the same identity, or
  two people; `MaxGeneration = 2` allows one return for each. One redelivered
  wake is early, late or a duplicate depending on when it comes. One deploy cuts
  all sockets at any moment. `MaxRooms = 1`: rooms of different codes share
  nothing.
- *Ticks.* Every duration is one tick except the first pick's two, so that a
  deadline beyond the confirmation can be shortened, and one within it cannot:
  the two cases `confirmationAfter` distinguishes.
- *Session.* `Budgets` says how often each kind of thing may happen at most (forms
  submitted, controls used, alarms, cuts, failures); the run explores five
  mixtures beside each other, each large enough for one kind of story: a host who
  drafts and is cut; two cuts and a failed connection in a lobby that is swept; two
  creators, a join and a lost answer; two tabs at a draft; two tabs, a cut and an
  alarm. `MaxLinks` is the sockets that exist at once, `MaxEntries` the rooms a
  tab enters (2: an old driver beside a new one), `MaxRequests` the creations a tab
  has under way (2: nothing keeps the form from a second submission), `MaxInFlight` the frames a tab may
  be behind before the room goes on, `LastTurn` the picks of a draft (2: one that
  follows another, and an end). A code whose room is gone is not minted again, and
  everybody in the lobby has a seat; the rail is in `Room`. `MaxParticipants` is 2
  too, which no mixture exceeds: that a full room turns people away for good is
  reached in `room_lobby`, where three people come to two positions, and the
  theorems about `Session` hold for every size, one included.
- *Packs.* With `SampleEnd = 16` and totals of 6, 7 and 5 the rejection tails are 4, 2
  and 1 samples; removals lead to further totals, some of which divide 16 and have
  no tail. Two pools share an identity; a third layout asks one pool for more than
  it holds. Batches are empty, single or pairs of samples at the edges;
  `MaxSamples` and `MaximumTicketAttempts` (3 for 64) end a caller's and the
  server's patience, so that giving up happens.
- *Recipe.* Everything one edit away from a correct recipe (478 recipes, in which
  names, weights, counts, pools and orders are changed or exchanged), every text
  of up to five lines in the place of the layouts and of up to four behind the
  pools (4,697), and official lists that differ in names, prints, markers and
  order. 51 recipes and 19 texts pass the reading and 48 of the recipes are made
  snapshots (the other three list a slot out of the reviewed order), so that what
  is said of the accepted is said of something.
- Symmetry among people is used where only safety is checked (`draft_table`,
  `room_lobby`); the identities occur in no constant but their set.

### 3.2 Deadlock

`Tick` is always possible in `Room`, and a complete draft has its `Over` step, so
the absence of deadlock is not what these runs are for: a room that stops is
found by `TimedDraftEnds`, `DeadlinesFire`, `DesertedLobbyReaped` and
`ClockedPhasesHaveDeadline`. `Session` stops when its budgets are spent, and
`SetToPack` when a pack is made or a set refused: their runs do not check it.

### 3.3 Fairness

Nothing is assumed of people or of their sockets. `Room!FairSpec` has weak
fairness of `Tick` (the clock runs) and of `Wake` (the platform delivers a booked
alarm in the end: alarms are at least once). `MCDraft!RingSpec` has weak fairness
of `Timeout` only: with a pick clock a deadline fires whatever the drafters do.
An untimed draft has no such clock and no such promise.

`Session!Fairness` is weak fairness of each tab's attempts to connect (a socket
opens or fails, the backoff's timer fires) and, for each link and each end, of
hearing what has arrived or that it was closed. People, alarms and cuts have
none. `SetToPack` has weak fairness of a seeded caller only, whose loop asks for
samples until the pack is decided; an arbitrary caller may stop for good.

## 4. Proofs

Every theorem is of `Spec` without fairness and holds for every value of the
constants the assumptions allow. The assumptions, which TLC evaluates in each run:

- `DraftRules`: at least one seat, three positive pack sizes, and a placeholder for
  a vacated seat that is no identity.
- `Session!SessionAssumption`: every tab has a browser, positive numbers of
  attempts, requests, rooms per tab and sockets, and no room code spelt like the mark of a
  free socket. `RoomAnnouncements!NobodyAssumption`: the attachment of a socket
  that has not passed hello is no identity; `BoundsAssumption`: a room has places and
  a draft has picks.
- `Room!RoomAssumption`: positive numbers of positions, people, generations and
  ticks, packs of two cards or more, a pick time for every size of pack a drafter
  chooses from. `Room!BotsAssumption`: a bot's occupant id is nobody's.
- `Tickets`: a positive number of samples. `CollationTables!CollationAssumption` is
  what `compile` refuses to do without (no empty table, positive weights, no identity
  twice in a pool, as many positions in every layout);
  `TablesFitAssumption`: no table weighs more than there are samples.
- `RecipeLines!VisibleCardsAssumption`: a pack has cards. `Recipe!LayoutCountAssumption`:
  the pinned number of layouts is a positive multiple of six, the size of a group;
  `PoolAggregatesAssumption`: exactly the pinned pools have an aggregate.
  `SetCompilation`: `TextsAssumption`, `RecipesAssumption` and `OfficialsAssumption`
  say that texts are lists of lines of the shapes told apart, with positive weights
  and counts where the patterns of the readers ask for digits that do not begin with
  a zero, that recipes have the shape a reader gives, and that official lists are
  lists; `RefusedAssumption`: what a stage gives that throws is no part of a recipe.
- `PackConstruction!SourcesAssumption`: a source gives samples and stays a source.
  `CallersAssumption`: batches hold samples, and the server has at least one attempt.

### 4.1 The draft

| Theorem | States |
|---|---|
| `AlwaysSound` | the inductive invariant `Sound` |
| `TypeCorrect` | `TypeOK` |
| `QueueAlwaysCommittable` | `QueueCommittable` |
| `CardsAlwaysConserved` | `CardsConserved` |
| `QueueAlwaysDurable` | `QueueDurable` |
| `BarriersNeverFail` | a full barrier and any timeout can be committed |
| `AlwaysCounted` | the inductive invariant `Counted` |
| `PacksAlwaysInStep` | `PacksInStep` |
| `SharesAlwaysFair` | `FairShares` |
| `QueueAlwaysHonoured` | `CommitHonoursQueue` |
| `ProgressImplemented` | `ImplementsProgress`: every step of the draft is one of `DraftProgress` or a stutter |
| `DealIsFair` | `FairDeal`'s specification without its fairness, under the refinement mapping |

`TypeOK` alone is not inductive. When the first pack has one card left,
`commitPicks` awards every seat the first card of the pack that reaches it, so the
type of the pools depends on *every* pack having a card: the packs must be alike
in size. They stay alike because each loses exactly the card its seat selected,
which needs every committed pick to be in the pack at its seat: the queue must be
committable. It stays so because everything that changes a seat's occupant drops
that seat's queue, and a commit empties the queue. And an opened round must be the
next one. `Sound` is the conjunction: the type (`DraftState`), `PacksReady` (packs
alike and non-empty, the unopened rounds those that follow) and `QueueReady` (the
queue committable, one pick a seat). `DraftProofs` shows for each function of the
rules that it preserves `Sound`, and assembles these into the step of the
specification.

Conservation is the second invariant, `Whole`, proved on top of `Sound`: every
card is in exactly one of a pool, a pack or an unopened round. Only commits move
cards (`StepKinds`), and a commit moves, for each seat, its selection and the
last card of the pack that reaches it; that two seats never receive the same
last card is because passing is a permutation of the seats
(`PassesFromPermutes`).

A third layer needs numbers: `InStep`, the pack at each seat is the
one the direction of the round has carried there and lacks as many cards as were
taken, and `Shared`, each pool has the size the progress says. A commit adds one
card to each pool and a last one to each at the end of a round, and these
are new to the pool because cards are conserved. `Counted` is `Sound`, `Whole`,
`InStep` and `Shared` together.

`BarriersNeverFail` closes the gap between what `revealBarrier` tests, the number
of queued picks, and what `commitPicks` needs, a pick of every seat: picks of
distinct seats as many as there are seats cover them all.

The two abstract specifications follow from these. A step of `Draft` is one of
`DraftProgress` because the first pack, which the code reads, stands for all of them;
one of `FairDeal` because only commits move cards, and each gives every seat one, or
two where a round ends. The proof of `CommitHonoursQueue` found that an earlier
statement of it was wrong at a table of one seat, where the pack that reaches a seat
is the one it has just taken from; the statement now says that a seat gets its queued
card, and besides it at most the last card of the pack that reaches it.

### 4.2 The room

| Theorem | States |
|---|---|
| `AlwaysKept` | the inductive invariant `Agreed` |
| `AppointmentsAlwaysBooked` | `AppointmentsBooked` |
| `OnlyDesertedLobbiesAbandoned` | `AbandonmentMeansDeserted` |
| `ClocksNeverMissing` | `ClockedPhasesHaveDeadline` |
| `PicksOnlyCloseWhenDue` | `PicksCloseWhenDue` |
| `KeepsItsPromise` | `ImplementsLifecycle`: every step of the room is one of `RoomLifecycle` or a stutter |
| `LedgerAlwaysSound` | `LedgerSound` |
| `DeadlineOnlyComesCloser` | `DeadlineNeverExtended` |
| `AlwaysInOrder` | the inductive invariant `InOrder` of the sockets |
| `AbsenceAlwaysHasCause` | `AbsenceHasCause` |
| `AlwaysTyped` | `TypeOK` |
| `RingAlwaysMirrorsLedger` | `RingMirrorsLedger` |

*Snapshot and alarm.* `Agreed` says that the snapshot has its shape in its phase
(`IsRoom`), that what must have a clock has one (`IsClocked`), that the alarm slot
fires no later than anything recorded falls due (`IsBooked`), and that an
abandonment is recorded only in a lobby without anybody (`IsDeserted`). None of
these is inductive alone: whether a deadline is booked depends on whether the
handler that left it had one to leave, and an early wake in a lobby books anew by
what the ledger says. Each handler is a lemma that gives `Kept` of the snapshot it
writes and the alarm it sets, together with the kind of step it is (`Quiet`,
`ClosesPick`, `EndsReview`, `Deletes`); the refinement and `PicksCloseWhenDue` follow
from the kinds.

*Ledger.* Positions stay apart because every move is to a free one, a newcomer
gets the lowest free one, and a shuffle is a permutation (`ShuffleApart`); there is
one host because the claim is spent once.

*Sockets.* `InOrder` numbers them: no two listed sockets speak for one generation
of one identity, and none is ahead of the ledger. From it follows `AbsenceHasCause`:
a close that speaks for its identity is of the one socket with its generation.

*Ring.* At the start the occupied positions are ranked. That every rank below the
number of people is somebody's, and only one's, is a counting argument: the ranks
are an injection of a finite set into as many numbers (`RankOrder`, `RankFound`).
From then on `Mirrors` is kept because a person's seat is theirs alone and because
presence is written to both in one handler (`PresenceMirrors`).

### 4.3 The session

| Theorem | States |
|---|---|
| `SessionAlways` | the inductive invariant `SessionInv` |
| `SessionTyped` | `TypeOK` |
| `OneClaimAlways` | `OneClaimPerRoom` |
| `EndsHaveCause` | `EndedForCause` |
| `PagesAlwaysFollow` | the inductive invariant `PageInv`, given `OneConnection` |
| `PagesFollow` | `PageFollows`, given `OneConnection` |
| `StartsKeepTime` | the inductive invariant `StartInv`, given `OneConnection` |
| `RoomsStartAsShown` | the action property `StartsAsShown`, given `OneConnection` |

For any number of tabs, browsers, codes, sockets and attempts, whatever is cut,
overtaken or answered twice. `SessionInv` has eight parts. *Shapes* and *Sockets* type
the state and what is under way: a driver says hello first and once, a frame that
tells somebody who they are is on that identity's socket. *References* ties both
ends: a driver and the socket it listens to name each other, and a hello that may
still be read was sent by the connection its driver still has, or by one that has
stopped. *Doors*: a room that is gone has closed its sockets. *Answers*: a driver
that was ever let in has no claim any more, and only such a driver tries again.

*Claims* is the argument for `OneClaimPerRoom`. The claim is with the request that
created the room, or with one driver that has not said hello, or in one hello not
yet read; and while it is, the room has it unspent. None of the three alone is
inductive: the answer hands it to a driver, `Opens` to a hello, `RoomReads` to the
room. That a driver still holds its claim after its hello was read does no harm,
because it never says hello again before the answer takes the claim away, or it
stops: `Answers`. Hence `invalid_claim` is never given.

*Owners* and *Partings* are the argument for `EndedForCause`. An identity is known to
one browser: what is stored there, what a socket is attached to and what an unread
hello claims to be all agree (`Knows`). So a hello that supersedes a socket comes from
the same browser; and since a driver that lost a socket and tries again has no
unread hello left on the old one, the superseded socket belongs to another driver,
or to nobody who listens. Each action is a lemma; the room's handlers are reduced
to what they may say (`Spoken`, `Welcomed`) before sockets are looked at, so that
commands, closes, sweeps and alarms share one proof (`RoomGoesOn`, `RoomSays`).

*Pages.* `PageFollows` speaks of a page with nothing on its way to it; what is
inductive is that folding whatever is on its way gives what the room holds now
(`Following`). Folding has no closed form, so a page is said to become another by
way of the pages in between (`Becomes`), and two such ways can be joined where they
meet. Of each handler it is shown once (`Informs`, `Faithful`) that its frames,
folded by any page that agreed with the room before, give a page that agrees with the
room after: for the one who asked, who may get a reply that stands for what the
others are told, and for the others. A page with an older connection behind it may
not know the choice its identity made from another, and `Agrees` excuses no more than
that. A hello's first frame carries everything, so it brings any page to the room
whatever it showed before. Sockets are the other half: what a room says reaches
a page that may still read it only if its socket is of the identity's current
connection, which `Standing` and `Apart` say with the generations.

`StartsAsShown` relates what a page showed when its reader pressed start to the room
that reads the command, any number of steps later. `StartInv` carries it over them by
the versions: no driver and no frame knows a version its room has not had (`Knowing`,
`Dated`); a start on its way names no such version either, and if it names the room's
present one, in its lobby and from somebody who is in it, what its sender saw is the
room as it is, or the sender had a frame of that version still to fold (`Timed`).
When the control is used that follows from `PageInv`: with nothing on its way the page
shows what the room holds, and whatever is on its way is of no later version than the
driver names (`SeenLobby`). It stays true because each outcome of a handler leaves
the room as it was or makes a new version (`Adopts`). The hard case is a socket the
room has closed because its identity came back on another (`Outlived`): commands it
has sent are still read, since `handleMessage` asks for the identity alone, and its
driver still listens, though no longer to what the others are told. Such a socket
carries only frames older than the room (`Prompt`), so what it may still send names a
version that is past. A step from lobby to draft is the reading of a start
(`LobbyStarts`), at the version it names.

The theorems about pages have the hypothesis that a page has one connection behind it
(`[]OneConnection`, `room-page.ts:2-4`), because the code does not guarantee it
(`session_overlap`, section 5) and a page that folds the frames of two rooms shows
neither. The instance of `session`, with one room, satisfies the hypothesis.

The proof changed two operators of `RoomAnnouncements`: the cases of
`HandleCommand` and `DeadlineAlarm` overlapped, and `CASE` does not say which of two
true guards is taken, where the code's `if`s do.

### 4.4 The bounded draw

| Theorem | States |
|---|---|
| `TicketsUnbiased` | every ticket below any bound is reached by equally many samples |
| `RejectionIsRarer` | fewer samples are rejected than accepted |
| `BatchesMayBeCut` | cutting a batch in two changes neither the ticket nor what is consumed |

These are arithmetic: the accepted samples are whole blocks of the bound, and the
remainder maps each block onto the tickets.

### 4.5 The packs

| Theorem | States |
|---|---|
| `BisectionFinds` | each of the two bisections gives the choice whose tickets hold the ticket |
| `SharesAreWeights` | a table gives every choice samples in proportion to its weight |
| `PackInvAlways` | the inductive invariant `PackInv` |
| `PackTyped` | `TypeOK` |
| `DrawsUnbiased` | `UnbiasedDraws` |
| `PlannedNeverFail` | `PlannedPacksNeverFail` |
| `CopiesAlwaysAgree` | `CopiesAgree` |
| `NothingIsReplaced` | `WithoutReplacement` |
| `SinglesAgree` | `SingleSamplesAgree` |

For any tables the code compiles, any width of samples, any batches cut into calls in
any way, and any replayable source.

*Recursion.* Running sums, the bisection, what is left of a table and the two loops
over batches are recursive functions. A function defined by recursion is the one its
equation determines, once it is known that some function satisfies the equation and
that no two differ (`EndsExist` and `EndsUnique`, `SearchExists`, `KeptExists`,
`LoopExists`, ...). Each such fact, and each that speaks of all positions of a
list, is proved by induction in the form of `Ascent`: a set of numbers that has 0,
and with each number the next, has them all, since otherwise there would be a least
one missing.

*Tables.* `IsTable` is a list whose ends add up its weights. Every ticket below the
total lies in the stretch of exactly one choice, and the bisection, whose interval
always holds that choice and always shrinks, ends at it (`BisectionFinds`). The
package writes the bisection out twice, for compiled tables and for the pools of one
pack; the model has both (`ChoiceForTicket`, `LocalChoiceForTicket`), and `SinglesAgree`
needs that they find the same. The
stretch of a choice is as long as its weight, and every ticket has equally many
samples (`TicketsUnbiased`): hence `SharesAreWeights`.

*Plans.* `PlanOK`: the history names the pools of the layout's positions in order,
never one identity of a pool twice, and each pool is the reviewed table without what
the history took from it (`Left`), so that it has as many entries fewer. From what
`CanRegister` counted it follows that the next pool is not empty (`PlanPool`), and
from the form of the pools that every check the transition makes of its own result
is passed (`ChecksPass`): `PositionTransition` then says what a batch does, and
`PlanAdvances` that the next plan is as good.

*The two copies.* `Follows` puts the server's builder beside the plan: its list of
available entries is, for each pool, the indices of the entries the plan's pool still
has, in order (`Remaining`), so that its sums and scans, computed anew at every draw,
find the entry the bisection finds (`ScanOfSums`, `CardFollows`); or it has given up,
with the beginning of the same pack. The plan is ahead of the samples in a batch
only by those it did not consume. `RejectedRun` and `AcceptedRun` take the builder
through a batch, `ReachesOn` through a call after another, and `StepOK` carries both
through the construction's loop, however the samples are cut.

### 4.6 The recipe

| Theorem | States |
|---|---|
| `StagesFollow` | the invariant `ReadingInv` of the compilation |
| `TextsReadBack` | `RecipeReadsBack` |
| `RatiosGiveTheOdds` | `RatiosFixTheOdds` |
| `AcceptedResolve` | `AcceptedRecipesResolve` |
| `DraftablesDealt` | `DraftablesAreDealt` |
| `SnapshotDeals` | `SnapshotDealsTheRecipe` |

For any texts and recipes of any length, any official lists (another one at each
stage that takes one) and any pinned numbers. They are about `SetCompilation` on its
own, `ReadingSpec`: `SetToPack`, which goes on to a pack, reaches `Bitwise` through
the seeded source, and no theorem may; each of its steps is one of `ReadingNext` or
leaves the variables of the compilation alone.

`ReadingInv` says of each stage what its inputs are the results of: the stages are
not connected by anything else, so the theorems below are about operators.

*Reading.* `TextsReadBack` has two directions. A recipe's own text is read as that
recipe (`PrintedReads`), and a text that is read is the text of what was read from it
(`TextRead`): so the readers take exactly the texts of recipes, and no two readers,
each of which goes through the whole text again, disagree about where a section ends.
Between them stands the fact that a list of lists, each with one mark at its head,
is put together and taken apart again at the marks, proved of any such list and used
for layouts in their section and for pools in the text. The numbers in order
(`InOrder`) that the marks stand at are characterised by their strict growth.

*Odds.* In a group of six each layout weighs the group's divisor times the pinned
coefficient of its outcome, and no two have the same outcome because six layouts
show all six. So a set of groups weighs the sum of its divisors times each
coefficient; the odds follow for every set of groups with the same commons
(`RatiosGiveTheOdds`), whatever the divisors are.

*Resolution.* `AcceptedResolve` crosses the keys the stages count by. Every entry has
one card by its name, every card one identity by collector number, because as many
pairs were found as there are cards and no identity has two; the classification has
one fact by print for each. That each card is owned once by a normal pool, counted by
name, becomes that each collector number is. A layout's positions are the slots
written out, and the counts of positions by what their pool holds are the sums the
first stage took over slots by the names of pools.

*Snapshot.* `SnapshotDeals` needs that the places of pools and identities are found in
the lists they are places in: identities are listed by collector number, each once,
and the pools of a layout are among those of the list.

Working these out changed the model in one place where it was wrong: the settings
in front of the list of cards were not read, and a text without them would have been
accepted.

### 4.7 Only model-checked

- Liveness (`ImplementsFairDeal`'s, `TimedDraftEnds`, `DeadlinesFire`,
  `DesertedLobbyReaped`, `ComesBack`, `SeededPacksFinish`) is out of the prover's
  reach.
- `DeadlineShown` and `OneConnection` are refuted (section 5).
- The modules that hold the seeded source reach `Bitwise`, which no theorem may; its
  sequence matters to `SeededPacksFinish` only.

## 5. Where the documents and the code differ

1. **A returning drafter does not start the confirmation** (`room_returning`).
   `docs/room-state-and-protocol.md:36-40`: whenever all readiness-eligible
   humans have queued and no confirmation exists, one is set. The room looks
   when somebody queues and when somebody drops out. In the trace one drafter
   queues and drops out, then the other drops out without having queued; then
   the first returns. All who are there have queued, and nothing is booked: the
   pick waits for another queue or departure.
2. **The liveness sweep can overlook an open connection** (`room_shadowed`).
   `apps/server/src/room.ts:1424-1425`: the abandonment deadline "is only ever
   set while nobody is connected". The sweep keeps one generation for each
   participant, that of the socket listed last, and a superseded socket stays
   listed until its close completes (`room.ts:434-435`). If one is still closing
   when the sweep comes, the participant is marked absent although their newer
   socket is open; if they are alone, the lobby is deleted at the end of its
   abandonment time, unless somebody says hello before. `AbsenceHasCause` shows
   that this is the only way to be marked absent while connected: no close, in
   whatever order, does it.
3. **The accelerated deadline is not announced** (`session_deadline`).
   `docs/testing.md:113`: when all have queued with more than five seconds left, the
   "UI moves to five seconds". `queuePick` and `handleClose` start the confirmation
   and announce who has queued; `deadline_changed` is sent with a phase only. A page
   that has heard everything shows the old deadline, or none, until the pick closes.
4. **A page can have two connections** (`session_overlap`).
   `apps/web/src/room-page.ts:2-4`: "one connection behind". `enterRoom` replaces the
   reference to a client without stopping it, and while a creation is on its way
   the join form stays usable, and the create form too. The page then folds the frames of both rooms into one
   state, and the first connection has nobody left who could stop it.

Seen while modelling, without a statement of the repository that it contradicts in
a run:

- `startDraft` sets `randomizeSeatsAtStart` to false and may shuffle the seats
  without announcing either (`room.ts:898-939`); the ring it announces makes up for
  the seats.
- `leave()` while the driver waits to reconnect tells the room nothing, and while a
  socket is still opening `send()` throws (`room-client.ts:127-130`).
- A driver that was in a room and finds it deleted on its return goes on trying.
- `start_draft` names the last version the client has acknowledged, which is
  acknowledged at the first frame of that version; `StartsAsShown` therefore speaks
  of pages that have folded all frames of it.
- The validator of the snapshot lets the rare-or-majestic position draw from a
  pool of commons (`set-snapshot.ts:258-263`), though its header has it prove every
  structural fact anew (`set-snapshot.ts:9-10`). No generated snapshot does so: the
  generator compares roles on its own, and `SnapshotDealsTheRecipe` ties what is
  dealt to the verified recipe.
- `docs/room-state-and-protocol.md:113` has commands deduplicated by `commandId`.
  The room does not, and the client never sends a command twice.

## 6. Not modelled

- *Room codes*: a normalisation of spellings and a draw of characters; `Session`
  takes codes as values and freshness as a choice.
- *Solo table and pool*: one person and no concurrency; the rules they call are
  modelled. `cards.ts` is a third copy of the pack builder.
- *Pages* beyond their copy of the room: rendering, the wording of the feed, the
  solo page.
- *Room*: passwords beyond right and wrong, names, malformed frames, rate and size
  limits. *Client*: the clock estimate, the length of the backoff.
- *Recipe*: in the snapshot, names, pitches, types and images, which are copied
  from the official record and looked at one card at a time; bytes, JSON (the one
  object of settings that is accepted is a line of its own), integers too large to
  be safe, and the opaque capabilities by which a stage makes sure that it is given the results of the
  stage before it; the model applies each stage to those results.
- *Set data*: checksums, schemas, projections and the snapshot's data are
  validation of fixed files, without state.
- Crashes between `storage.put` and `setAlarm`: the source does not say whether
  the platform makes the two one write. `AppointmentsBooked` is what would break.
- What `README.md:286-292` says is not there yet, though the protocol document plans
  it: pause and resume, filling seats after the start, the deletion of deserted
  started drafts. `Room` models what the code answers now (`wrong_phase`, or nothing
  booked).
- Hazards without a property (each with its reason in `PROJECT.json`): the entropy
  of `resolveTimeout`'s caller, the started room that is never swept, the deserted
  started draft that is never deleted, the crash above, and the lobby whose host has
  left.

## 7. Plan

What is left, the most useful first:

1. *One room for both.* `RoomAnnouncements` repeats the effects of `Room`'s handlers
   on a coarser state; a refinement from `Room` to it, or a shared operator per
   handler, would tie the two.
2. *Session.* Spectators and the rail on the page's side, `poolHidden`, and the clock
   estimate with the command table that feeds it.
3. *Solo table.* The loop of `table.ts` over the rules, with the fallbacks it takes.
