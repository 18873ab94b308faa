-------------------------------- MODULE Room --------------------------------
(***************************************************************************)
(* The room, a Durable Object: apps/server/src/room.ts.  Every handler     *)
(* runs whole inside blockConcurrencyWhile, so one handler is one action;  *)
(* what makes the room hard is everything around the handlers: sockets     *)
(* that are superseded, closing or gone without a close event, a single    *)
(* alarm slot whose wakes come late, early or twice, deadlines that move,  *)
(* and participants who come and go at any of these moments.               *)
(*                                                                         *)
(* Abstractions.  Deadlines are countdowns in abstract ticks, 0 when due   *)
(* (Tick is the clock).  The draft is DraftProgress: a pick is the fact    *)
(* that a seat has queued.  A participant id is minted once and never      *)
(* again, as in the code (random ids); holding the id stands for holding   *)
(* its credential.  Names, passwords, the feed, poolHidden and the state   *)
(* version, and so updateProfile, do not appear; a command the room        *)
(* refuses changes nothing and is no step, except that a refused hello     *)
(* closes its socket.                                                      *)
(***************************************************************************)
EXTENDS Integers, Sequences, FiniteSets, FiniteSetsExt

CONSTANTS
    Person,             \* participant ids
    Nobody,             \* the attachment of a socket that has not passed hello
    LobbySeatCount,     \* seats of a lobby: 8 in the code
    MaxParticipants,    \* 16 in the code
    PackSize,           \* cards in a pack: 14 in the code
    Configs,            \* room options a host may choose
    PickTime,           \* PickTime[k]: ticks to pick from a pack of k cards
    ConfirmationTime, ReviewTime, CompletedTTL, AbandonTime,
    MaxSockets,         \* bound: sockets listed at once
    MaxGeneration,      \* bound: connections of one participant
    MaxRooms,           \* bound: rooms created under this code
    MaxRedeliveries,    \* bound: extra deliveries of a wake
    MaxDeploys          \* bound: deploys, which cut every socket silently

ASSUME RoomAssumption ==
    /\ Nobody \notin Person
    /\ LobbySeatCount \in Nat \ {0} /\ MaxParticipants \in Nat \ {0}
    /\ PackSize \in Nat \ {0, 1}
    /\ Configs \subseteq [timers : BOOLEAN, spectators : BOOLEAN, bots : BOOLEAN, shuffle : BOOLEAN]
    /\ PickTime \in [2..PackSize -> Nat \ {0}]
    /\ {ConfirmationTime, ReviewTime, CompletedTTL, AbandonTime} \subseteq Nat \ {0}
    /\ MaxGeneration \in Nat \ {0}

VARIABLES
    room,           \* the stored snapshot, or NoRoom
    sockets,        \* getWebSockets(), in the order of acceptance
    alarm,          \* ticks until the alarm slot fires, or NoTime
    minted,         \* participant ids that exist or existed
    created,        \* rooms created so far
    woken,          \* whether an alarm ever fired, so that a wake can be redelivered
    redelivered,    \* redeliveries so far
    deploys         \* deploys so far

vars == <<room, sockets, alarm, minted, created, woken, redelivered, deploys>>
environment == <<minted, created, woken, redelivered, deploys>>

NoTime == -1
Rail == -1                          \* the seat of a spectator (null in the code)
Position == 0 .. LobbySeatCount-1
NoRoom == [phase |-> "none"]
NoDraft == [status |-> "none"]

Bots == {<<"bot", i>> : i \in Position}

\* A bot occupies its seat under the seat's own id (createDraft), which is nobody's minted id.
ASSUME BotsAssumption == Bots \cap (Person \cup {Nobody}) = {}

Progress == INSTANCE DraftProgress WITH
                N <- LobbySeatCount, PackSize <- [r \in 1..3 |-> PackSize],
                Occupant <- Person \cup Bots, progress <- room.draft

Exists == room # NoRoom
Phase == room.phase
Started == Phase \in {"picking", "review", "complete"}

Init ==
    /\ room = NoRoom
    /\ sockets = <<>>
    /\ alarm = NoTime
    /\ minted = {} /\ created = 0
    /\ woken = FALSE /\ redelivered = 0 /\ deploys = 0

-----------------------------------------------------------------------------
(* Participants and sockets.                                               *)

Connected(people) == {p \in DOMAIN people : people[p].connected}
Seated(people) == {p \in DOMAIN people : people[p].seat # Rail}

\* A socket is authenticated once its hello has attached an identity to it.
Attached(k) == sockets[k].pid # Nobody
Member(k) == Exists /\ Attached(k) /\ sockets[k].pid \in DOMAIN room.participants
Self(k) == sockets[k].pid
Host(k) == Member(k) /\ room.participants[Self(k)].host

\* close() on every socket that satisfies the test: they stay listed, no longer
\* open, until their close event arrives.
Closing(list, Test(_)) ==
    [k \in DOMAIN list |-> IF Test(list[k]) THEN [list[k] EXCEPT !.open = FALSE] ELSE list[k]]

Without(list, k) == SubSeq(list, 1, k-1) \o SubSeq(list, k+1, Len(list))

\* deleteAll(): the snapshot is gone and every socket is told; whether the
\* platform also drops the alarm is its own affair.
DeleteRoom(slot) ==
    /\ room' = NoRoom
    /\ sockets' = Closing(sockets, LAMBDA s : TRUE)
    /\ alarm' \in {slot, NoTime}

-----------------------------------------------------------------------------
(* initialize: the router creates the room under a fresh code.             *)

Initialize ==
    /\ ~Exists
    /\ created < MaxRooms
    /\ \E config \in Configs :
           room' = [phase |-> "lobby",
                    config |-> config,
                    hostClaimSpent |-> FALSE,
                    participants |-> [p \in {} |-> 0],
                    abandonIn |-> AbandonTime,
                    draft |-> NoDraft,
                    deadlineIn |-> NoTime,
                    accelerated |-> FALSE]
    /\ alarm' = AbandonTime
    /\ created' = created + 1
    /\ UNCHANGED <<sockets, minted, woken, redelivered, deploys>>

\* fetch: a socket is accepted and is nobody until its hello.
Accept ==
    /\ Exists
    /\ Len(sockets) < MaxSockets
    /\ sockets' = Append(sockets, [pid |-> Nobody, gen |-> 0, open |-> TRUE])
    /\ UNCHANGED <<room, alarm, environment>>

\* turnAway and the other refusals that close: a bad first message, a wrong
\* password, a spent claim, a full room, a removed identity, a deleted room;
\* a message that is no text or too long closes any socket, a member's too.
TurnAway(k) ==
    /\ sockets[k].open
    /\ sockets' = [sockets EXCEPT ![k].open = FALSE]
    /\ UNCHANGED <<room, alarm, environment>>

-----------------------------------------------------------------------------
(* hello.                                                                  *)

\* Mutant: a joiner is seated by headcount, as if nobody had ever left.
LowestFreeSeat_byHeadcount(people) ==
    LET heads == Cardinality(DOMAIN people)
    IN  IF Phase = "lobby" /\ heads \in Position THEN heads ELSE Rail

LowestFreeSeat(people) ==
    LET free == Position \ {people[p].seat : p \in DOMAIN people}
    IN  IF Phase = "lobby" /\ free # {} THEN Min(free) ELSE Rail

\* Mutant: a join leaves the abandonment appointment standing.
Admit_keepsAbandonment(k, p, participant, claim, draft) ==
    /\ room' = [room EXCEPT
                    !.hostClaimSpent = @ \/ claim,
                    !.participants = [q \in DOMAIN @ \cup {p} |-> IF q = p THEN participant ELSE @[q]],
                    !.draft = draft]
    /\ alarm' = IF Phase = "lobby" THEN AbandonTime ELSE alarm
    /\ sockets' = [Closing(sockets, LAMBDA s : s.pid = p /\ s.gen < participant.generation)
                       EXCEPT ![k] = [@ EXCEPT !.pid = p, !.gen = participant.generation]]

\* What hello stores once identity and claim are settled; the abandonment
\* appointment is off, and in a lobby the alarm becomes the liveness sweep.
Admit(k, p, participant, claim, draft) ==
    /\ room' = [room EXCEPT
                    !.hostClaimSpent = @ \/ claim,
                    !.participants = [q \in DOMAIN @ \cup {p} |-> IF q = p THEN participant ELSE @[q]],
                    !.draft = draft,
                    !.abandonIn = NoTime]
    /\ alarm' = IF Phase = "lobby" THEN AbandonTime ELSE alarm
    /\ sockets' = [Closing(sockets, LAMBDA s : s.pid = p /\ s.gen < participant.generation)
                       EXCEPT ![k] = [@ EXCEPT !.pid = p, !.gen = participant.generation]]

\* The seat of participant p in the running draft, if it has one.
SeatsOf(g, p) ==
    IF g.status = "picking" THEN {i \in DOMAIN g.seats : g.seats[i].occupantId = p} ELSE {}

\* Mutant: the ring hears of departures and never of returns.
SeatPresence_onlyLeaving(g, p, connected) ==
    IF connected \/ SeatsOf(g, p) = {} THEN g
    ELSE Progress!WithPresence(g, CHOOSE i \in SeatsOf(g, p) : TRUE, connected)

SeatPresence(g, p, connected) ==
    IF SeatsOf(g, p) = {} THEN g
    ELSE Progress!WithPresence(g, CHOOSE i \in SeatsOf(g, p) : TRUE, connected)

HelloReturning(k, p, claim) ==
    /\ Exists /\ sockets[k].open /\ ~Attached(k)
    /\ claim => ~room.hostClaimSpent
    /\ p \in DOMAIN room.participants
    /\ room.participants[p].generation < MaxGeneration
    /\ Admit(k, p,
             [room.participants[p] EXCEPT !.host = @ \/ claim, !.connected = TRUE, !.generation = @ + 1],
             claim,
             SeatPresence(room.draft, p, TRUE))
    /\ UNCHANGED environment

HelloNew(k, p, claim) ==
    /\ Exists /\ sockets[k].open /\ ~Attached(k)
    /\ claim => ~room.hostClaimSpent
    /\ p \notin minted
    /\ Cardinality(DOMAIN room.participants) < MaxParticipants
    /\ Phase = "lobby" \/ room.config.spectators
    /\ Admit(k, p,
             [host |-> claim, connected |-> TRUE, generation |-> 1,
              seat |-> LowestFreeSeat(room.participants)],
             claim,
             room.draft)
    /\ minted' = minted \cup {p}
    /\ UNCHANGED <<created, woken, redelivered, deploys>>

-----------------------------------------------------------------------------
(* The lobby's commands.  Only the participant id is checked, not the      *)
(* generation: a socket already superseded may still command.              *)

\* Mutant: the lobby's commands do not ask for the phase.
InLobby_anyPhase(k) == Member(k)

InLobby(k) == Member(k) /\ Phase = "lobby"

UpdateConfig(k) ==
    /\ InLobby(k) /\ Host(k)
    /\ \E config \in Configs :
           room' = [room EXCEPT !.config = [config EXCEPT !.shuffle = room.config.shuffle]]
    /\ UNCHANGED <<sockets, alarm, environment>>

\* Moving onto an occupied seat swaps; a move cancels the pending shuffle.
MoveParticipant(k, p, seat) ==
    /\ InLobby(k) /\ Host(k)
    /\ p \in DOMAIN room.participants
    /\ LET people == room.participants
           Displaced(q) == q # p /\ seat # Rail /\ people[q].seat = seat
       IN  room' = [room EXCEPT
               !.config.shuffle = FALSE,
               !.participants = [q \in DOMAIN people |->
                   IF q = p THEN [people[q] EXCEPT !.seat = seat]
                   ELSE IF Displaced(q) THEN [people[q] EXCEPT !.seat = people[p].seat]
                   ELSE people[q]]]
    /\ UNCHANGED <<sockets, alarm, environment>>

\* Every way to deal the occupied positions again to the people seated there.
Shuffles(people) ==
    LET seats == {people[p].seat : p \in Seated(people)}
        deals == {f \in [Seated(people) -> seats] : \A p, q \in Seated(people) : f[p] = f[q] => p = q}
    IN  {[p \in DOMAIN people |->
             IF p \in Seated(people) THEN [people[p] EXCEPT !.seat = f[p]] ELSE people[p]] : f \in deals}

RandomizeNow(k) ==
    /\ InLobby(k) /\ Host(k)
    /\ \E people \in Shuffles(room.participants) :
           room' = [room EXCEPT !.config.shuffle = FALSE, !.participants = people]
    /\ UNCHANGED <<sockets, alarm, environment>>

RandomizeAtStart(k) ==
    /\ InLobby(k) /\ Host(k)
    /\ \E enabled \in BOOLEAN : room' = [room EXCEPT !.config.shuffle = enabled]
    /\ UNCHANGED <<sockets, alarm, environment>>

\* withdraw, for a participant who stays behind in nobody's memory: an empty
\* lobby is deleted, a lobby of absent people starts its abandonment clock.
Withdraw(p, deletesEmpty) ==
    LET people == [q \in DOMAIN room.participants \ {p} |-> room.participants[q]]
        deserted == Connected(people) = {}
    IN  IF deletesEmpty /\ DOMAIN people = {}
        THEN DeleteRoom(alarm)
        ELSE /\ room' = [room EXCEPT !.participants = people,
                                     !.abandonIn = IF deserted THEN AbandonTime ELSE @]
             /\ alarm' = IF deserted THEN AbandonTime ELSE alarm
             /\ sockets' = Closing(sockets, LAMBDA s : s.pid = p)

Leave(k) == InLobby(k) /\ Withdraw(Self(k), TRUE) /\ UNCHANGED environment

RemoveParticipant(k, p) ==
    /\ InLobby(k) /\ Host(k)
    /\ p \in DOMAIN room.participants /\ ~room.participants[p].host
    /\ Withdraw(p, FALSE)
    /\ UNCHANGED environment

-----------------------------------------------------------------------------
(* startDraft.                                                             *)

\* The occupied positions compact into the ring in their order.
RingIndex(people, p) == Cardinality({q \in Seated(people) : people[q].seat < people[p].seat})
AtRing(people, i) == CHOOSE p \in Seated(people) : RingIndex(people, p) = i

SeatSetup(people, bots) ==
    LET humans == Cardinality(Seated(people))
    IN  [i \in 0 .. (IF bots THEN LobbySeatCount ELSE humans) - 1 |->
            IF i < humans
            THEN [controller |-> "human", occupantId |-> AtRing(people, i),
                  connected |-> people[AtRing(people, i)].connected]
            ELSE [controller |-> "bot", occupantId |-> <<"bot", i>>, connected |-> TRUE]]

\* Mutant: the visible pack size is off by one.
PickDeadline_smallerPack(config, g) ==
    LET visible == PackSize - g.pick
    IN  IF config.timers /\ visible \in DOMAIN PickTime THEN PickTime[visible] ELSE NoTime

\* pickDeadlineFor: the judge schedule by visible pack size, or nothing.
PickDeadline(config, g) ==
    LET visible == PackSize - (g.pick - 1)
    IN  IF config.timers /\ visible \in DOMAIN PickTime THEN PickTime[visible] ELSE NoTime

\* With timers off the lobby's old alarm stays booked.
StartDraft(k) ==
    /\ InLobby(k) /\ Host(k)
    /\ Seated(room.participants) # {}
    /\ \E people \in IF room.config.shuffle THEN Shuffles(room.participants) ELSE {room.participants} :
           LET g == Progress!WithBotsQueued(Progress!Start(SeatSetup(people, room.config.bots)))
               deadline == PickDeadline(room.config, g)
           IN  /\ room' = [room EXCEPT
                               !.phase = "picking",
                               !.config.shuffle = FALSE,
                               !.participants = people,
                               !.draft = g,
                               !.deadlineIn = deadline,
                               !.accelerated = FALSE,
                               !.abandonIn = NoTime]
               /\ alarm' = IF deadline # NoTime THEN deadline ELSE alarm
    /\ UNCHANGED <<sockets, environment>>

-----------------------------------------------------------------------------
(* Picking.                                                                *)

Ready(g) ==
    {i \in DOMAIN g.seats :
        /\ g.seats[i].controller = "human"
        /\ g.seats[i].occupantId # Nobody
        /\ g.seats[i].connected}

AllReadyQueued(g) == Ready(g) # {} /\ Ready(g) \subseteq g.queued

\* Mutant: every queued pick starts the confirmation afresh.
ConfirmationAfter_restarts(r, g) ==
    IF r.phase = "picking" /\ g.status = "picking" /\ AllReadyQueued(g)
    THEN [r EXCEPT !.draft = g, !.deadlineIn = ConfirmationTime, !.accelerated = TRUE]
    ELSE [r EXCEPT !.draft = g]

\* confirmationAfter: the snapshot with draft g, whose deadline moves up when
\* everybody who is there has queued.
ConfirmationAfter(r, g) ==
    IF /\ r.phase = "picking" /\ g.status = "picking"
       /\ AllReadyQueued(g)
       /\ IF r.config.timers THEN r.deadlineIn > ConfirmationTime ELSE r.deadlineIn = NoTime
    THEN [r EXCEPT !.draft = g, !.deadlineIn = ConfirmationTime, !.accelerated = TRUE]
    ELSE [r EXCEPT !.draft = g]

\* Mutant: a confirmation is recorded and not booked.
RebookedFor_never(before, after) == alarm

\* The alarm is booked again only for a deadline that changed.
RebookedFor(before, after) ==
    IF after.deadlineIn # before.deadlineIn /\ after.deadlineIn # NoTime THEN after.deadlineIn ELSE alarm

QueuePick(k) ==
    /\ Member(k) /\ Phase = "picking"
    /\ \E i \in SeatsOf(room.draft, Self(k)) :
           /\ Progress!MayQueue(room.draft, i, Self(k))
           /\ room' = ConfirmationAfter(room, Progress!WithQueued(room.draft, i))
    /\ alarm' = RebookedFor(room, room')
    /\ UNCHANGED <<sockets, environment>>

-----------------------------------------------------------------------------
(* webSocketClose: the platform reports a socket gone and stops listing    *)
(* it.  Only the socket of the current generation speaks for its identity. *)

\* Mutant: any socket of an identity speaks for it.
SpeaksForIdentity_superseded(k) == Member(k)

SpeaksForIdentity(k) ==
    Member(k) /\ sockets[k].gen = room.participants[Self(k)].generation

NoteAbsence(p) ==
    LET people == [room.participants EXCEPT ![p].connected = FALSE]
        deserted == Phase = "lobby" /\ Connected(people) = {}
        absent == [room EXCEPT !.participants = people,
                               !.abandonIn = IF deserted THEN AbandonTime ELSE @]
        noted == IF room.draft = NoDraft THEN absent
                 ELSE ConfirmationAfter(absent, SeatPresence(room.draft, p, FALSE))
    IN  /\ room' = noted
        /\ alarm' = IF deserted THEN AbandonTime ELSE RebookedFor(room, noted)

SocketClosed(k) ==
    /\ sockets' = Without(sockets, k)
    /\ IF SpeaksForIdentity(k) THEN NoteAbsence(Self(k)) ELSE UNCHANGED <<room, alarm>>
    /\ UNCHANGED environment

-----------------------------------------------------------------------------
(* alarm.  slot is what the alarm slot holds once this wake is taken.      *)

\* authenticatedSockets() read into a Map: of several sockets of one identity
\* the one listed last decides, and the platform promises no order.
ListedGenerations(p) ==
    LET listed == {sockets[k].gen : k \in {m \in DOMAIN sockets : sockets[m].pid = p}}
    IN  IF listed = {} THEN {0} ELSE listed

\* The ledgers a sweep may arrive at.
SweptLedgers(people) ==
    LET Absences(p) == {g # people[p].generation : g \in ListedGenerations(p)}
    IN  {[p \in DOMAIN people |-> [people[p] EXCEPT !.connected = @ /\ ~absent[p]]] :
            absent \in {f \in [DOMAIN people -> BOOLEAN] : \A p \in DOMAIN people : f[p] \in Absences(p)}}

\* Mutant: the sweep books no further sweep when it finds people.
ReconcileLiveness_once ==
    /\ \E people \in SweptLedgers(room.participants) :
           LET deserted == Connected(people) = {}
           IN  /\ room' = [room EXCEPT !.participants = people,
                                       !.abandonIn = IF deserted THEN AbandonTime ELSE NoTime]
               /\ alarm' = IF deserted THEN AbandonTime ELSE NoTime
    /\ UNCHANGED sockets

\* Mutant: the sweep believes the ledger and does not look at the sockets.
ReconcileLiveness_credulous ==
    /\ alarm' = AbandonTime
    /\ room' = [room EXCEPT !.abandonIn = IF Connected(room.participants) = {} THEN AbandonTime ELSE NoTime]
    /\ UNCHANGED sockets

ReconcileLiveness ==
    /\ \E people \in SweptLedgers(room.participants) :
           room' = [room EXCEPT !.participants = people,
                                !.abandonIn = IF Connected(people) = {} THEN AbandonTime ELSE NoTime]
    /\ alarm' = AbandonTime
    /\ UNCHANGED sockets

LobbyAlarm(slot) ==
    IF room.abandonIn = NoTime THEN ReconcileLiveness
    ELSE IF room.abandonIn > 0 THEN alarm' = room.abandonIn /\ UNCHANGED <<room, sockets>>
    ELSE DeleteRoom(slot)

\* Mutant: the first pick of a new round gets no deadline.
EndReview_unclocked ==
    [room EXCEPT !.phase = "picking", !.deadlineIn = NoTime, !.accelerated = FALSE]

EndReview ==
    [room EXCEPT !.phase = "picking",
                 !.deadlineIn = PickDeadline(room.config, room.draft),
                 !.accelerated = FALSE]

\* Mutant: the last pick of all opens a review like any other round's.
ClosePick_reviewsTheEnd ==
    LET committed == Progress!Committed(room.draft)
    IN  [room EXCEPT
            !.draft = IF Progress!Picking(committed) THEN Progress!WithBotsQueued(committed) ELSE committed,
            !.phase = IF room.draft.pick = PackSize - 1 THEN "review" ELSE "picking",
            !.deadlineIn = ReviewTime,
            !.accelerated = FALSE]

\* resolveTimeout commits what is queued and a random card for everybody else,
\* then the bots of the next pick queue.
ClosePick ==
    LET committed == Progress!Committed(room.draft)
        next == IF Progress!Picking(committed) THEN Progress!WithBotsQueued(committed) ELSE committed
        finished == next.status = "complete"
        newRound == ~finished /\ next.round # room.draft.round
    IN  [room EXCEPT
            !.draft = next,
            !.phase = IF finished THEN "complete" ELSE IF newRound THEN "review" ELSE "picking",
            !.deadlineIn = IF finished THEN CompletedTTL
                           ELSE IF newRound THEN ReviewTime
                           ELSE PickDeadline(room.config, next),
            !.accelerated = FALSE]

\* Mutant: a wake is trusted to be on time.
DeadlineAlarm_trustsWake(slot) ==
    IF room.deadlineIn = NoTime THEN alarm' = slot /\ UNCHANGED <<room, sockets>>
    ELSE IF Phase = "complete" THEN DeleteRoom(slot)
    ELSE /\ room' = IF Phase = "review" THEN EndReview ELSE ClosePick
         /\ alarm' = IF room'.deadlineIn # NoTime THEN room'.deadlineIn ELSE slot
         /\ UNCHANGED sockets

DeadlineAlarm(slot) ==
    IF room.deadlineIn = NoTime THEN alarm' = slot /\ UNCHANGED <<room, sockets>>
    ELSE IF room.deadlineIn > 0 THEN alarm' = room.deadlineIn /\ UNCHANGED <<room, sockets>>
    ELSE IF Phase = "complete" THEN DeleteRoom(slot)
    ELSE /\ room' = IF Phase = "review" THEN EndReview ELSE ClosePick
         /\ alarm' = IF room'.deadlineIn # NoTime THEN room'.deadlineIn ELSE slot
         /\ UNCHANGED sockets

HandleAlarm(slot) ==
    IF ~Exists THEN alarm' = slot /\ UNCHANGED <<room, sockets>>
    ELSE IF Phase = "lobby" THEN LobbyAlarm(slot)
    ELSE DeadlineAlarm(slot)

\* The slot fires, some time after it is due.
Wake ==
    /\ alarm = 0
    /\ HandleAlarm(NoTime)
    /\ woken' = TRUE
    /\ UNCHANGED <<minted, created, redelivered, deploys>>

\* Alarms are at-least-once: an old wake may come again at any moment, which
\* also makes it early for whatever is booked now.
RedeliverWake ==
    /\ woken /\ redelivered < MaxRedeliveries
    /\ HandleAlarm(alarm)
    /\ redelivered' = redelivered + 1
    /\ UNCHANGED <<minted, created, woken, deploys>>

-----------------------------------------------------------------------------
(* The world outside.                                                      *)

Elapse(t) == IF t > 0 THEN t - 1 ELSE t

Tick ==
    /\ alarm' = Elapse(alarm)
    /\ room' = IF Exists
               THEN [room EXCEPT !.abandonIn = Elapse(@), !.deadlineIn = Elapse(@)]
               ELSE room
    /\ UNCHANGED <<sockets, environment>>

\* A deploy tears every connection down at once, without close events.
Deploy ==
    /\ deploys < MaxDeploys
    /\ sockets' = <<>>
    /\ deploys' = deploys + 1
    /\ UNCHANGED <<room, alarm, minted, created, woken, redelivered>>

-----------------------------------------------------------------------------

Command(k) ==
    \/ UpdateConfig(k)
    \/ RandomizeNow(k)
    \/ RandomizeAtStart(k)
    \/ StartDraft(k)
    \/ QueuePick(k)
    \/ Leave(k)
    \/ \E p \in Person : RemoveParticipant(k, p)
    \/ \E p \in Person, seat \in Position \cup {Rail} : MoveParticipant(k, p, seat)

Hello(k) ==
    \E p \in Person, claim \in BOOLEAN : HelloReturning(k, p, claim) \/ HelloNew(k, p, claim)

Next ==
    \/ Initialize
    \/ Accept
    \/ \E k \in DOMAIN sockets : TurnAway(k) \/ Hello(k) \/ Command(k) \/ SocketClosed(k)
    \/ Wake
    \/ RedeliverWake
    \/ Tick
    \/ Deploy

Spec == Init /\ [][Next]_vars

\* The clock runs, and the platform delivers every booked alarm in the end.
\* Nothing is assumed of the people or of their sockets.
FairSpec == Spec /\ WF_vars(Tick) /\ WF_vars(Wake)


-----------------------------------------------------------------------------
(* Type invariant: the snapshot, the sockets and the alarm slot keep their *)
(* declared shapes in every phase.                                         *)
Participant ==
    [host : BOOLEAN, connected : BOOLEAN, generation : 1..MaxGeneration, seat : Position \cup {Rail}]

Countdown == {NoTime} \cup Nat

TypeOK ==
    /\ alarm \in Countdown
    /\ \A k \in DOMAIN sockets :
           sockets[k] \in [pid : Person \cup {Nobody}, gen : 0..MaxGeneration, open : BOOLEAN]
    /\ minted \subseteq Person
    /\ Exists =>
        /\ Phase \in {"lobby", "picking", "review", "complete"}
        /\ room.config \in [timers : BOOLEAN, spectators : BOOLEAN, bots : BOOLEAN, shuffle : BOOLEAN]
        /\ DOMAIN room.participants \subseteq minted
        /\ \A p \in DOMAIN room.participants : room.participants[p] \in Participant
        /\ {room.abandonIn, room.deadlineIn} \subseteq Countdown
        /\ (room.draft = NoDraft) <=> (Phase = "lobby")
        /\ (Started /\ Progress!Picking(room.draft)) <=> (Phase \in {"picking", "review"})

(* The lobby's ledger stays sound through joins, swaps, shuffles, removals *)
(* and returns: no two participants hold the same position, there is at    *)
(* most one host, and a host exists only once the claim is spent (hello,   *)
(* moveParticipant, shuffleSeated, withdraw).                              *)
LedgerSound ==
    Exists =>
        LET people == room.participants
        IN  \A p, q \in DOMAIN people :
                /\ p # q => people[p].seat = Rail \/ people[p].seat # people[q].seat
                /\ people[p].host => room.hostClaimSpent
                /\ people[p].host /\ people[q].host => p = q

(* While a draft runs, its ring and the ledger tell the same story: every  *)
(* human seat is held by a participant of the room and is connected        *)
(* exactly when the ledger says so, and every bot has queued for the       *)
(* current pick, so that only people can be missing at a barrier           *)
(* (startDraft, hello, handleClose, deadlineAlarm).                        *)
RingMirrorsLedger ==
    Phase \in {"picking", "review"} =>
        \A i \in DOMAIN room.draft.seats :
            LET seat == room.draft.seats[i]
            IN  IF seat.controller = "human"
                THEN /\ seat.occupantId \in DOMAIN room.participants
                     /\ seat.connected = room.participants[seat.occupantId].connected
                ELSE i \in room.draft.queued

(* Every appointment the snapshot records is kept: a lobby always has an   *)
(* alarm booked, and no recorded deadline or abandonment falls due before  *)
(* the alarm does, though there is one slot and every handler, early wake  *)
(* and redelivery books over the others' (lobbyAlarm, deadlineAlarm and    *)
(* the setAlarm calls of the handlers).                                    *)
AppointmentsBooked ==
    Exists =>
        /\ Phase = "lobby" => alarm # NoTime
        /\ \A t \in {room.abandonIn, room.deadlineIn} :
               t # NoTime => alarm # NoTime /\ alarm <= t

(* A room that should move by itself has something to move it: a review, a *)
(* complete room and a timed pick always carry a deadline (pickDeadlineFor *)
(* never misses the judge schedule, deadlineAlarm).                        *)
ClockedPhasesHaveDeadline ==
    Phase \in {"review", "complete"} \/ (Phase = "picking" /\ room.config.timers)
        => room.deadlineIn # NoTime

(* Abandonment is only ever recorded for a lobby whose ledger shows nobody *)
(* connected; a join always calls it off (hello, handleClose, withdraw,    *)
(* reconcileLiveness, startDraft).                                         *)
AbandonmentMeansDeserted ==
    Exists /\ room.abandonIn # NoTime => Phase = "lobby" /\ Connected(room.participants) = {}

Listed(p, list) == {list[k].gen : k \in {m \in DOMAIN list : list[m].pid = p}}

(* Nobody is declared absent while their connection stands: a participant  *)
(* goes from connected to absent only when their current socket is gone,   *)
(* however late and in whatever order the sockets it superseded report     *)
(* their close; only the liveness sweep, which takes no socket from the    *)
(* list, may err, and only while such an old socket is listed (hello,      *)
(* handleClose, reconcileLiveness).                                        *)
AbsenceHasCause ==
    [][ Exists /\ room' # NoRoom =>
            \A p \in DOMAIN room.participants \cap DOMAIN room'.participants :
                LET generation == room'.participants[p].generation
                IN  (room.participants[p].connected /\ ~room'.participants[p].connected)
                        => \/ generation \notin Listed(p, sockets')
                           \/ sockets' = sockets /\ Listed(p, sockets) # {generation} ]_vars

Turn == <<room.draft.round, room.draft.pick, room.draft.status>>

(* While one pick is open its deadline never moves away: apart from time   *)
(* passing it changes only to the confirmation, only earlier, and only in  *)
(* a step after which everybody who is there has queued; returning,        *)
(* queueing again, redelivered wakes and departures cannot extend it       *)
(* (confirmationAfter and its callers).                                    *)
DeadlineNeverExtended ==
    [][ Phase = "picking" /\ room'.phase = "picking" /\ Turn' = Turn =>
            \/ room'.deadlineIn \in {room.deadlineIn, Elapse(room.deadlineIn)}
            \/ /\ room'.deadlineIn = ConfirmationTime
               /\ room.deadlineIn = NoTime \/ room.deadlineIn > ConfirmationTime
               /\ AllReadyQueued(room.draft)']_vars

(* A pick closes on its deadline and on nothing else: whatever wakes are   *)
(* early, late or delivered twice, the draft moves only in the step that   *)
(* finds the deadline due, and at most one pick closes in it               *)
(* (deadlineAlarm).                                                        *)
PicksCloseWhenDue ==
    [][ (Phase \in {"picking", "review"} /\ Turn' # Turn) =>
            Phase = "picking" /\ room.deadlineIn = 0 ]_vars

Lifecycle == INSTANCE RoomLifecycle WITH
                 stage <- Phase,
                 turn <- IF Started THEN <<room.draft.round, room.draft.pick>> ELSE <<0, 0>>,
                 table <- IF Started
                          THEN {[config |-> room.config,
                                 ring |-> [i \in DOMAIN room.draft.seats |->
                                              room.draft.seats[i].occupantId]]}
                          ELSE {}

(* The room implements its promise: one start, a table and options that    *)
(* are settled from then on, turns in order, reviews only between rounds,  *)
(* and no deletion of a draft before it is complete.                       *)
ImplementsLifecycle == Lifecycle!Spec

-----------------------------------------------------------------------------
(* Liveness, under FairSpec.                                               *)

(* A timed draft needs nobody: once started it is played out and the room  *)
(* deleted, even if every participant is gone or nobody ever queues.       *)
TimedDraftEnds == (Phase = "picking" /\ room.config.timers) ~> ~Exists

(* A lobby without sockets does not stay: unless somebody connects it is   *)
(* deleted, also when its people vanished without a close event and the    *)
(* ledger still shows them (initialize, handleClose, reconcileLiveness).   *)
DesertedLobbyReaped == (Phase = "lobby" /\ sockets = <<>>) ~> (~Exists \/ sockets # <<>>)

(* With or without timers, a pick whose deadline is set closes: the        *)
(* confirmation of an untimed pick cannot be lost.  The next pick of the   *)
(* round has another number, and the next round opens after a review, so   *)
(* the round need not be named.                                            *)
DeadlinesFire ==
    \A p \in 1 .. PackSize-1 :
        (Phase = "picking" /\ room.deadlineIn # NoTime /\ room.draft.pick = p)
            ~> (~Exists \/ Phase # "picking" \/ room.draft.pick # p)

-----------------------------------------------------------------------------
(* What a document and a comment say of the room and the code does not do. *)

(* docs/room-state-and-protocol.md:36-40: with timers off, whenever all    *)
(* readiness-eligible humans have queued and no confirmation exists, one   *)
(* is set.  The handlers look only when somebody queues or drops out, not  *)
(* when somebody comes back (hello).                                       *)
ReadyTableConfirms ==
    Phase = "picking" /\ ~room.config.timers /\ AllReadyQueued(room.draft)
        => room.deadlineIn # NoTime

(* room.ts:1424: the recorded abandonment is only ever set while nobody is *)
(* connected.  The sweep takes one generation for each identity from the   *)
(* list of sockets, so a superseded socket that is still closing can hide  *)
(* the open one of the same person (reconcileLiveness).                    *)
AbandonedOnlyWithoutPeople ==
    Exists /\ room.abandonIn # NoTime =>
        \A k \in DOMAIN sockets :
            ~(Member(k) /\ sockets[k].open /\ sockets[k].gen = room.participants[Self(k)].generation)

=============================================================================
