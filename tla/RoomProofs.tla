----------------------------- MODULE RoomProofs -----------------------------
(***************************************************************************)
(* What holds of a room for any people, options, pack size and times: the  *)
(* one alarm slot keeps every appointment the snapshot records, nothing    *)
(* closes a pick but its deadline, no deadline moves away, the ledger is   *)
(* sound, and the room goes through its phases and turns as RoomLifecycle  *)
(* promises.  The inductive invariant, Kept, relates the snapshot to the   *)
(* alarm slot; nothing is assumed about the sockets, so all this holds     *)
(* however they come, stay and go.                                         *)
(***************************************************************************)
EXTENDS Room, NaturalsInduction, WellFoundedInduction, TLAPS

Options == [timers : BOOLEAN, spectators : BOOLEAN, bots : BOOLEAN, shuffle : BOOLEAN]

IsPeople(people) == people = [p \in DOMAIN people |-> people[p]]
                    /\ \A p \in DOMAIN people : people[p] \in Participant

\* A ring of seats, each with a controller, an occupant and a presence.
IsRing(seats) ==
    /\ seats = [i \in DOMAIN seats |-> seats[i]]
    /\ \A i \in DOMAIN seats : \E controller, occupant, connected :
           seats[i] = [controller |-> controller, occupantId |-> occupant, connected |-> connected]

\* The draft of a started room.
IsDraft(g) ==
    /\ g = [status |-> g.status, round |-> g.round, pick |-> g.pick,
            seats |-> g.seats, queued |-> g.queued]
    /\ g.status \in {"picking", "complete"}
    /\ g.round \in 1..3 /\ g.pick \in 1 .. PackSize-1
    /\ IsRing(g.seats)

\* The turn and the people of a draft, which most steps leave alone.
SameTable(g, h) ==
    /\ h.status = g.status /\ h.round = g.round /\ h.pick = g.pick
    /\ DOMAIN h.seats = DOMAIN g.seats
    /\ \A i \in DOMAIN g.seats : h.seats[i].occupantId = g.seats[i].occupantId

\* The snapshot's shape.
IsRoom(r) ==
    /\ r = [phase |-> r.phase, config |-> r.config, hostClaimSpent |-> r.hostClaimSpent,
            participants |-> r.participants, abandonIn |-> r.abandonIn, draft |-> r.draft,
            deadlineIn |-> r.deadlineIn, accelerated |-> r.accelerated]
    /\ r.phase \in {"lobby", "picking", "review", "complete"}
    /\ r.config \in Options
    /\ IsPeople(r.participants)
    /\ r.abandonIn \in Countdown /\ r.deadlineIn \in Countdown
    /\ IF r.phase = "lobby" THEN r.draft = NoDraft /\ r.deadlineIn = NoTime
       ELSE IsDraft(r.draft) /\ r.abandonIn = NoTime
    /\ r.phase \in {"picking", "review"} => r.draft.status = "picking"
    /\ r.phase = "complete" => r.draft.status = "complete"

\* Every phase that ends by itself has its deadline, and every appointment an
\* alarm that comes no later.
IsClocked(r) ==
    r.phase \in {"review", "complete"} \/ (r.phase = "picking" /\ r.config.timers)
        => r.deadlineIn # NoTime

IsBooked(r, slot) ==
    /\ r.phase = "lobby" => slot # NoTime
    /\ r.abandonIn # NoTime => slot # NoTime /\ slot <= r.abandonIn
    /\ r.deadlineIn # NoTime => slot # NoTime /\ slot <= r.deadlineIn

IsDeserted(r) == r.abandonIn # NoTime => Connected(r.participants) = {}

Kept(r, slot) ==
    /\ slot \in Countdown
    /\ r # NoRoom => IsRoom(r) /\ IsClocked(r) /\ IsBooked(r, slot) /\ IsDeserted(r)

\* A step that the promise of the room does not see.
Quiet ==
    \/ room' = room
    \/ /\ Exists /\ room' # NoRoom /\ room'.phase = room.phase
       /\ Phase # "lobby" => room'.config = room.config /\ SameTable(room.draft, room'.draft)

\* The step that closes the open pick, on its deadline.
ClosesPick ==
    /\ Exists /\ room' # NoRoom
    /\ Phase = "picking" /\ room.deadlineIn = 0
    /\ room'.config = room.config
    /\ LET g == room.draft
           h == room'.draft
       IN  /\ DOMAIN h.seats = DOMAIN g.seats
           /\ \A i \in DOMAIN g.seats : h.seats[i].occupantId = g.seats[i].occupantId
           /\ \/ /\ g.pick < PackSize-1 /\ room'.phase = "picking"
                 /\ h.round = g.round /\ h.pick = g.pick + 1
              \/ /\ g.pick = PackSize-1 /\ g.round < 3 /\ room'.phase = "review"
                 /\ h.round = g.round + 1 /\ h.pick = 1
              \/ /\ g.pick = PackSize-1 /\ g.round = 3 /\ room'.phase = "complete"
                 /\ h.round = g.round /\ h.pick = g.pick

\* The step that ends a review.
EndsReview ==
    /\ Exists /\ room' # NoRoom
    /\ Phase = "review" /\ room'.phase = "picking"
    /\ room'.config = room.config /\ SameTable(room.draft, room'.draft)

Deletes == Exists /\ Phase \in {"lobby", "complete"} /\ room' = NoRoom

-----------------------------------------------------------------------------
(* The numbers.                                                            *)

\* What the assumptions say of the times and sizes.
LEMMA Times ==
    /\ AbandonTime \in Nat \ {0} /\ ConfirmationTime \in Nat \ {0}
    /\ ReviewTime \in Nat \ {0} /\ CompletedTTL \in Nat \ {0}
    /\ PackSize \in Nat /\ PackSize >= 2
    /\ PickTime \in [2..PackSize -> Nat \ {0}]
    /\ Configs \subseteq Options
    /\ MaxGeneration \in Nat /\ MaxGeneration >= 1
    /\ Nat \subseteq Countdown /\ NoTime \in Countdown /\ NoTime \notin Nat
BY RoomAssumption DEF Options, Countdown, NoTime

\* A room that exists is not mistaken for one that does not.
LEMMA PhaseTells ==
    ASSUME NEW r, r.phase \in {"lobby", "picking", "review", "complete"}
    PROVE  r # NoRoom
BY DEF NoRoom

\* A pick of a timed room always finds its time in the schedule.
LEMMA PickDeadlineFound ==
    ASSUME NEW config \in Options, NEW g, IsDraft(g)
    PROVE  /\ PickDeadline(config, g) \in Countdown
           /\ config.timers => PickDeadline(config, g) # NoTime
<1> DEFINE visible == PackSize - (g.pick - 1)
<1>1. visible \in 2..PackSize
  BY Times DEF IsDraft
<1>2. PickTime[visible] \in Nat /\ DOMAIN PickTime = 2..PackSize
  BY <1>1, Times
<1>3. PickDeadline(config, g) = IF config.timers THEN PickTime[visible] ELSE NoTime
  BY <1>1, <1>2 DEF PickDeadline
<1>4. QED
  BY <1>2, <1>3, Times

-----------------------------------------------------------------------------
(* What the draft's operators leave.                                       *)

\* Queueing, by people or bots, leaves the turn and the table.
LEMMA QueuedDraft ==
    ASSUME NEW g, IsDraft(g), NEW i
    PROVE  /\ IsDraft(Progress!WithQueued(g, i)) /\ SameTable(g, Progress!WithQueued(g, i))
           /\ IsDraft(Progress!WithBotsQueued(g)) /\ SameTable(g, Progress!WithBotsQueued(g))
BY DEF Progress!WithQueued, Progress!WithBotsQueued, IsDraft, SameTable

\* So does somebody's presence.
LEMMA PresentDraft ==
    ASSUME NEW g, IsDraft(g), NEW p, NEW connected
    PROVE  IsDraft(SeatPresence(g, p, connected)) /\ SameTable(g, SeatPresence(g, p, connected))
<1>1. CASE SeatsOf(g, p) = {}
  BY <1>1 DEF SeatPresence, SameTable
<1>2. CASE SeatsOf(g, p) # {}
  <2> DEFINE i == CHOOSE j \in SeatsOf(g, p) : TRUE
             seats == [g.seats EXCEPT ![i].connected = connected]
  <2>1. i \in DOMAIN g.seats
    BY <1>2 DEF SeatsOf
  <2> HIDE DEF i
  <2>2. DOMAIN seats = DOMAIN g.seats /\ \A j \in DOMAIN g.seats :
            seats[j] = IF j = i THEN [g.seats[j] EXCEPT !.connected = connected] ELSE g.seats[j]
    BY <2>1 DEF IsDraft, IsRing
  <2>3. IsRing(seats)
    <3>1. seats = [j \in DOMAIN seats |-> seats[j]]
      BY DEF IsDraft, IsRing
    <3>2. ASSUME NEW j \in DOMAIN seats
          PROVE  \E controller, occupant, there :
                   seats[j] = [controller |-> controller, occupantId |-> occupant, connected |-> there]
      <4>1. PICK controller, occupant, there :
              g.seats[j] = [controller |-> controller, occupantId |-> occupant, connected |-> there]
        BY <2>2, <3>2 DEF IsDraft, IsRing
      <4>2. [g.seats[j] EXCEPT !.connected = connected]
              = [controller |-> controller, occupantId |-> occupant, connected |-> connected]
        BY <4>1
      <4>3. QED
        BY <2>2, <3>2, <4>1, <4>2
    <3>3. QED
      BY <3>1, <3>2 DEF IsRing
  <2>4. \A j \in DOMAIN g.seats : seats[j].occupantId = g.seats[j].occupantId
    BY <2>2 DEF IsDraft, IsRing
  <2>5. SeatPresence(g, p, connected) = [g EXCEPT !.seats = seats]
    BY <1>2 DEF SeatPresence, Progress!WithPresence, i
  <2> HIDE DEF seats
  <2>6. QED
    BY <2>2, <2>3, <2>4, <2>5 DEF IsDraft, SameTable
<1>3. QED
  BY <1>1, <1>2

\* The next pick, the next round or the end (commitPicks).
LEMMA CommittedDraft ==
    ASSUME NEW g, IsDraft(g), g.status = "picking"
    PROVE  LET next == Progress!Committed(g)
           IN  /\ IsDraft(next)
               /\ next.seats = g.seats
               /\ \/ /\ g.pick < PackSize-1
                     /\ next.status = "picking" /\ next.round = g.round /\ next.pick = g.pick + 1
                  \/ /\ g.pick = PackSize-1 /\ g.round < 3
                     /\ next.status = "picking" /\ next.round = g.round + 1 /\ next.pick = 1
                  \/ /\ g.pick = PackSize-1 /\ g.round = 3
                     /\ next.status = "complete" /\ next.round = g.round /\ next.pick = g.pick
<1>1. Progress!CardsLeft(g) = PackSize - g.pick
  BY DEF Progress!CardsLeft, IsDraft
<1>2. g.pick \in Nat /\ g.pick >= 1 /\ g.pick <= PackSize-1 /\ PackSize \in Nat /\ PackSize >= 2
  BY Times DEF IsDraft
<1> DEFINE emptied == [g EXCEPT !.queued = {}]
<1>3. /\ emptied = [status |-> g.status, round |-> g.round, pick |-> g.pick,
                    seats |-> g.seats, queued |-> {}]
      /\ g.round \in 1..3 /\ IsRing(g.seats)
  BY DEF IsDraft
<1>4. Progress!Committed(g) =
          IF PackSize - g.pick > 1 THEN [emptied EXCEPT !.pick = g.pick + 1]
          ELSE IF g.round < 3 THEN [emptied EXCEPT !.round = g.round + 1, !.pick = 1]
          ELSE [emptied EXCEPT !.status = "complete"]
  BY <1>1, <1>3 DEF Progress!Committed
<1> HIDE DEF emptied
<1>5. CASE PackSize - g.pick > 1
  <2>1. Progress!Committed(g) = [status |-> g.status, round |-> g.round, pick |-> g.pick + 1,
                                 seats |-> g.seats, queued |-> {}]
    BY <1>3, <1>4, <1>5
  <2>2. g.pick < PackSize-1 /\ g.pick + 1 \in 1 .. PackSize-1
    BY <1>2, <1>5
  <2>3. QED
    BY <1>3, <2>1, <2>2 DEF IsDraft
<1>6. CASE ~(PackSize - g.pick > 1) /\ g.round < 3
  <2>1. Progress!Committed(g) = [status |-> g.status, round |-> g.round + 1, pick |-> 1,
                                 seats |-> g.seats, queued |-> {}]
    BY <1>3, <1>4, <1>6
  <2>2. g.pick = PackSize-1 /\ 1 \in 1 .. PackSize-1 /\ g.round + 1 \in 1..3
    BY <1>2, <1>3, <1>6
  <2>3. QED
    BY <1>3, <1>6, <2>1, <2>2 DEF IsDraft
<1>7. CASE ~(PackSize - g.pick > 1) /\ ~(g.round < 3)
  <2>1. Progress!Committed(g) = [status |-> "complete", round |-> g.round, pick |-> g.pick,
                                 seats |-> g.seats, queued |-> {}]
    BY <1>3, <1>4, <1>7
  <2>2. g.pick = PackSize-1 /\ g.pick \in 1 .. PackSize-1 /\ g.round = 3
    BY <1>2, <1>3, <1>7
  <2>3. QED
    BY <1>3, <2>1, <2>2 DEF IsDraft
<1>8. QED
  BY <1>5, <1>6, <1>7

-----------------------------------------------------------------------------
(* The lobby.                                                              *)

\* A room begins as an empty lobby that is booked for its abandonment.
LEMMA InitializeKept ==
    ASSUME Kept(room, alarm), Initialize
    PROVE  Kept(room', alarm') /\ room'.phase = "lobby"
<1>1. PICK config \in Configs :
          room' = [phase |-> "lobby", config |-> config, hostClaimSpent |-> FALSE,
                   participants |-> [p \in {} |-> 0], abandonIn |-> AbandonTime, draft |-> NoDraft,
                   deadlineIn |-> NoTime, accelerated |-> FALSE]
  BY DEF Initialize
<1>2. alarm' = AbandonTime
  BY DEF Initialize
<1>3. IsPeople([p \in {} |-> 0]) /\ Connected([p \in {} |-> 0]) = {}
  BY DEF IsPeople, Connected
<1>4. IsRoom(room')
  BY <1>1, <1>3, Times DEF IsRoom
<1>5. IsClocked(room') /\ IsBooked(room', alarm') /\ IsDeserted(room')
  BY <1>1, <1>2, <1>3, Times DEF IsClocked, IsBooked, IsDeserted
<1>6. QED
  BY <1>1, <1>2, <1>4, <1>5, Times DEF Kept

\* Deleting leaves nothing to keep.
LEMMA DeleteRoomKept ==
    ASSUME NEW slot \in Countdown, DeleteRoom(slot)
    PROVE  Kept(room', alarm') /\ room' = NoRoom
BY Times DEF DeleteRoom, Kept

\* A change of the options or of the seats of a lobby.
LEMMA LobbyChangeKept ==
    ASSUME Kept(room, alarm), Exists, Phase = "lobby", alarm' = alarm,
           NEW config \in Options, NEW people, IsPeople(people),
           Connected(people) = Connected(room.participants),
           room' = [room EXCEPT !.config = config, !.participants = people]
    PROVE  Kept(room', alarm') /\ Quiet
<1>1. IsRoom(room) /\ IsClocked(room) /\ IsBooked(room, alarm) /\ IsDeserted(room) /\ alarm \in Countdown
  BY DEF Kept, Exists
<1>2. room' = [phase |-> room.phase, config |-> config, hostClaimSpent |-> room.hostClaimSpent,
               participants |-> people, abandonIn |-> room.abandonIn, draft |-> room.draft,
               deadlineIn |-> room.deadlineIn, accelerated |-> room.accelerated]
  BY <1>1 DEF IsRoom
<1>3. IsRoom(room')
  BY <1>1, <1>2 DEF IsRoom
<1>4. IsClocked(room') /\ IsBooked(room', alarm') /\ IsDeserted(room')
  BY <1>1, <1>2 DEF IsClocked, IsBooked, IsDeserted, Phase
<1>5. QED
  BY <1>1, <1>2, <1>3, <1>4, PhaseTells DEF Kept, Quiet, Phase, IsRoom

\* Seats are dealt again among the people who have one, and nobody's presence
\* changes (shuffleSeated).
LEMMA ShuffledPeople ==
    ASSUME NEW people, IsPeople(people), NEW dealt \in Shuffles(people)
    PROVE  IsPeople(dealt) /\ Connected(dealt) = Connected(people)
<1>1. PICK f \in [Seated(people) -> {people[p].seat : p \in Seated(people)}] :
          dealt = [p \in DOMAIN people |->
                      IF p \in Seated(people) THEN [people[p] EXCEPT !.seat = f[p]] ELSE people[p]]
  BY DEF Shuffles
<1>2. ASSUME NEW p \in DOMAIN people
      PROVE  dealt[p] \in Participant /\ dealt[p].connected = people[p].connected
  <2>1. people[p] \in Participant
    BY DEF IsPeople
  <2>2. CASE p \in Seated(people)
    <3>1. f[p] \in Position \cup {Rail}
      BY <1>1, <2>2 DEF IsPeople, Participant, Seated
    <3>2. dealt[p] = [people[p] EXCEPT !.seat = f[p]]
      BY <1>1, <2>2
    <3>3. QED
      BY <2>1, <3>1, <3>2 DEF Participant
  <2>3. CASE p \notin Seated(people)
    BY <1>1, <2>1, <2>3
  <2>4. QED
    BY <2>2, <2>3
<1>3. DOMAIN dealt = DOMAIN people /\ dealt = [p \in DOMAIN dealt |-> dealt[p]]
  BY <1>1
<1>4. QED
  BY <1>2, <1>3 DEF IsPeople, Connected

\* Moving somebody, or swapping two (moveParticipant).
Moved(people, p, seat) ==
    [q \in DOMAIN people |->
        IF q = p THEN [people[q] EXCEPT !.seat = seat]
        ELSE IF q # p /\ seat # Rail /\ people[q].seat = seat
        THEN [people[q] EXCEPT !.seat = people[p].seat]
        ELSE people[q]]

\* They are people of the room still, and as present as before.
LEMMA MovedPeople ==
    ASSUME NEW people, IsPeople(people), NEW p \in DOMAIN people, NEW seat \in Position \cup {Rail}
    PROVE  LET moved == Moved(people, p, seat)
           IN  IsPeople(moved) /\ Connected(moved) = Connected(people)
<1> DEFINE moved == Moved(people, p, seat)
<1>1. \A q \in DOMAIN people : people[q] \in Participant
  BY DEF IsPeople
<1>2. ASSUME NEW q \in DOMAIN people
      PROVE  moved[q] \in Participant /\ moved[q].connected = people[q].connected
  BY <1>1 DEF Participant, Moved
<1>3. DOMAIN moved = DOMAIN people /\ moved = [q \in DOMAIN moved |-> moved[q]]
  BY DEF Moved
<1>4. QED
  BY <1>2, <1>3 DEF IsPeople, Connected


\* New options.
LEMMA UpdateConfigKept ==
    ASSUME Kept(room, alarm), NEW k, UpdateConfig(k)
    PROVE  Kept(room', alarm') /\ Quiet
<1>1. Exists /\ Phase = "lobby" /\ alarm' = alarm /\ IsRoom(room)
  BY DEF UpdateConfig, InLobby, Member, Kept, Exists
<1>2. PICK config \in Configs :
          room' = [room EXCEPT !.config = [config EXCEPT !.shuffle = room.config.shuffle]]
  BY DEF UpdateConfig
<1>3. [config EXCEPT !.shuffle = room.config.shuffle] \in Options
  BY <1>1, Times DEF IsRoom, Options
<1>4. room' = [room EXCEPT !.config = [config EXCEPT !.shuffle = room.config.shuffle],
                           !.participants = room.participants]
  BY <1>1, <1>2 DEF IsRoom
<1>5. IsPeople(room.participants)
  BY <1>1 DEF IsRoom
<1>6. QED
  BY <1>1, <1>3, <1>4, <1>5, LobbyChangeKept

\* Three commands set or clear the pending shuffle.
LEMMA ShuffleOption ==
    ASSUME IsRoom(room), NEW pending \in BOOLEAN, NEW people
    PROVE  /\ [room.config EXCEPT !.shuffle = pending] \in Options
           /\ [room EXCEPT !.config.shuffle = pending, !.participants = people]
                = [room EXCEPT !.config = [room.config EXCEPT !.shuffle = pending], !.participants = people]
           /\ [room EXCEPT !.config.shuffle = pending]
                = [room EXCEPT !.config = [room.config EXCEPT !.shuffle = pending],
                               !.participants = room.participants]
<1>1. [room.config EXCEPT !.shuffle = pending] \in Options
  BY DEF IsRoom, Options
<1>2. QED
  BY <1>1 DEF IsRoom

\* A shuffle on the spot.
LEMMA RandomizeNowKept ==
    ASSUME Kept(room, alarm), NEW k, RandomizeNow(k)
    PROVE  Kept(room', alarm') /\ Quiet
<1>1. Exists /\ Phase = "lobby" /\ alarm' = alarm /\ IsRoom(room) /\ IsPeople(room.participants)
  BY DEF RandomizeNow, InLobby, Member, Kept, Exists, IsRoom
<1>2. PICK people \in Shuffles(room.participants) :
          room' = [room EXCEPT !.config.shuffle = FALSE, !.participants = people]
  BY DEF RandomizeNow
<1>3. IsPeople(people) /\ Connected(people) = Connected(room.participants)
  BY <1>1, ShuffledPeople
<1>4. QED
  BY <1>1, <1>2, <1>3, ShuffleOption, LobbyChangeKept

\* A shuffle put off to the start.
LEMMA RandomizeAtStartKept ==
    ASSUME Kept(room, alarm), NEW k, RandomizeAtStart(k)
    PROVE  Kept(room', alarm') /\ Quiet
<1>1. Exists /\ Phase = "lobby" /\ alarm' = alarm /\ IsRoom(room) /\ IsPeople(room.participants)
  BY DEF RandomizeAtStart, InLobby, Member, Kept, Exists, IsRoom
<1>2. PICK enabled \in BOOLEAN : room' = [room EXCEPT !.config.shuffle = enabled]
  BY DEF RandomizeAtStart
<1>3. QED
  BY <1>1, <1>2, ShuffleOption, LobbyChangeKept

\* A move or a swap.
LEMMA MoveParticipantKept ==
    ASSUME Kept(room, alarm), NEW k, NEW p, NEW seat \in Position \cup {Rail}, MoveParticipant(k, p, seat)
    PROVE  Kept(room', alarm') /\ Quiet
<1>1. /\ Exists /\ Phase = "lobby" /\ alarm' = alarm /\ IsRoom(room) /\ IsPeople(room.participants)
      /\ p \in DOMAIN room.participants
  BY DEF MoveParticipant, InLobby, Member, Kept, Exists, IsRoom
<1> DEFINE people == room.participants
           moved == Moved(people, p, seat)
<1>2. room' = [room EXCEPT !.config.shuffle = FALSE, !.participants = moved]
  BY DEF MoveParticipant, Moved
<1>3. IsPeople(moved) /\ Connected(moved) = Connected(people)
  BY <1>1, MovedPeople
<1>4. QED
  BY <1>1, <1>2, <1>3, ShuffleOption, LobbyChangeKept

-----------------------------------------------------------------------------
(* Coming and going.                                                       *)

\* What a sweep writes about somebody.
LEMMA Swept ==
    ASSUME NEW s \in Participant, NEW connected \in BOOLEAN
    PROVE  [s EXCEPT !.connected = connected] \in Participant
BY DEF Participant

\* A member is admitted, in whatever phase: nothing is abandoned any more.
LEMMA AdmitKept ==
    ASSUME Kept(room, alarm), Exists, NEW k, NEW p, NEW participant \in Participant, NEW claim, NEW draft,
           Phase = "lobby" => draft = NoDraft,
           Phase # "lobby" => IsDraft(draft) /\ SameTable(room.draft, draft),
           Admit(k, p, participant, claim, draft)
    PROVE  Kept(room', alarm') /\ Quiet
<1>1. IsRoom(room) /\ IsClocked(room) /\ IsBooked(room, alarm) /\ alarm \in Countdown
  BY DEF Kept, Exists
<1> DEFINE people == [q \in DOMAIN room.participants \cup {p} |->
                         IF q = p THEN participant ELSE room.participants[q]]
<1>2. IsPeople(people)
  BY <1>1 DEF IsPeople, IsRoom
<1>3. room' = [phase |-> room.phase, config |-> room.config,
               hostClaimSpent |-> room.hostClaimSpent \/ claim,
               participants |-> people, abandonIn |-> NoTime, draft |-> draft,
               deadlineIn |-> room.deadlineIn, accelerated |-> room.accelerated]
  BY <1>1 DEF IsRoom, Admit
<1>4. alarm' = IF room.phase = "lobby" THEN AbandonTime ELSE alarm
  BY DEF Admit, Phase
<1> HIDE DEF people
<1>5. IsRoom(room')
  BY <1>1, <1>2, <1>3, Times DEF IsRoom, Phase, SameTable
<1>6. IsClocked(room') /\ IsBooked(room', alarm') /\ IsDeserted(room') /\ alarm' \in Countdown
  BY <1>1, <1>3, <1>4, Times DEF IsClocked, IsBooked, IsDeserted, IsRoom
<1>7. room' # NoRoom
  BY <1>5, PhaseTells DEF IsRoom
<1>8. QED
  BY <1>3, <1>5, <1>6, <1>7 DEF Kept, Quiet, Phase

\* A participant who returns is one still.
LEMMA Readmitted ==
    ASSUME NEW s \in Participant, NEW host \in BOOLEAN, NEW generation \in 1..MaxGeneration
    PROVE  [s EXCEPT !.host = host, !.connected = TRUE, !.generation = generation] \in Participant
BY DEF Participant

\* Participant returns.
LEMMA HelloReturningKept ==
    ASSUME Kept(room, alarm), NEW k, NEW p, NEW claim \in BOOLEAN, HelloReturning(k, p, claim)
    PROVE  Kept(room', alarm') /\ Quiet
<1>1. Exists /\ IsRoom(room) /\ p \in DOMAIN room.participants
  BY DEF HelloReturning, Kept, Exists
<1> DEFINE participant ==
               [room.participants[p] EXCEPT !.host = @ \/ claim, !.connected = TRUE, !.generation = @ + 1]
           draft == SeatPresence(room.draft, p, TRUE)
<1>2. participant \in Participant
  <2>1. room.participants[p] \in Participant
    BY <1>1 DEF IsRoom, IsPeople
  <2>2. (room.participants[p].host \/ claim) \in BOOLEAN /\ room.participants[p].generation + 1 \in 1..MaxGeneration
    BY <2>1, Times DEF Participant, HelloReturning
  <2>3. QED
    BY <2>1, <2>2, Readmitted
<1>3. Phase = "lobby" => draft = NoDraft
  <2>1. NoDraft.status = "none"
    BY DEF NoDraft
  <2>2. Phase = "lobby" => room.draft = NoDraft
    BY <1>1 DEF IsRoom, Phase
  <2>3. SeatsOf(NoDraft, p) = {}
    BY <2>1 DEF SeatsOf
  <2>4. QED
    BY <2>2, <2>3 DEF SeatPresence
<1>4. Phase # "lobby" => IsDraft(draft) /\ SameTable(room.draft, draft)
  BY <1>1, PresentDraft DEF IsRoom, Phase
<1>5. Admit(k, p, participant, claim, draft)
  BY DEF HelloReturning
<1> HIDE DEF participant, draft
<1>6. QED
  BY <1>1, <1>2, <1>3, <1>4, <1>5, AdmitKept

\* A set of positions has a lowest one.
LEMMA SmallestPosition ==
    ASSUME NEW S, S \subseteq Nat, S # {}
    PROVE  \E i \in S : \A j \in S : i <= j
<1> DEFINE below == {pair \in Nat \X Nat : pair[1] < pair[2]}
<1>1. IsWellFoundedOn(below, Nat)
  BY NatLessThanWellFounded DEF OpToRel
<1>2. PICK i \in S : \A j \in S : <<j, i>> \notin below
  BY <1>1, WFMin
<1>3. ASSUME NEW j \in S PROVE i <= j
  <2>1. <<j, i>> \in Nat \X Nat /\ <<j, i>>[1] = j /\ <<j, i>>[2] = i
    OBVIOUS
  <2>2. QED
    BY <1>2, <2>1
<1>4. QED
  BY <1>3

\* The lowest free position is a position nobody holds.
LEMMA LowestFree ==
    ASSUME NEW people
    PROVE  /\ LowestFreeSeat(people) \in Position \cup {Rail}
           /\ LowestFreeSeat(people) # Rail
                => \A p \in DOMAIN people : people[p].seat # LowestFreeSeat(people)
<1> DEFINE free == Position \ {people[p].seat : p \in DOMAIN people}
<1>1. ASSUME free # {} PROVE Min(free) \in free
  <2>1. free \in SUBSET Nat
    BY DEF Position
  <2>2. \E n \in free : \A m \in free : n <= m
    BY <1>1, <2>1, SmallestPosition
  <2>3. QED
    BY <2>2 DEF Min
<1>2. QED
  BY <1>1 DEF LowestFreeSeat

\* Participant joins.
LEMMA HelloNewKept ==
    ASSUME Kept(room, alarm), NEW k, NEW p, NEW claim \in BOOLEAN, HelloNew(k, p, claim)
    PROVE  Kept(room', alarm') /\ Quiet
<1>1. Exists /\ IsRoom(room)
  BY DEF HelloNew, Kept, Exists
<1> DEFINE participant == [host |-> claim, connected |-> TRUE, generation |-> 1,
                           seat |-> LowestFreeSeat(room.participants)]
<1>2. participant \in Participant
  BY LowestFree, Times DEF Participant
<1>3. Phase # "lobby" => IsDraft(room.draft) /\ SameTable(room.draft, room.draft)
  BY <1>1 DEF IsRoom, Phase, SameTable
<1>4. Phase = "lobby" => room.draft = NoDraft
  BY <1>1 DEF IsRoom, Phase
<1>5. Admit(k, p, participant, claim, room.draft)
  BY DEF HelloNew
<1> HIDE DEF participant
<1>6. QED
  BY <1>1, <1>2, <1>3, <1>4, <1>5, AdmitKept

\* Participant is taken out of a lobby, and the room may go with them.
LEMMA WithdrawKept ==
    ASSUME Kept(room, alarm), Exists, Phase = "lobby", NEW p, NEW deletesEmpty, Withdraw(p, deletesEmpty)
    PROVE  Kept(room', alarm') /\ (Quiet \/ room' = NoRoom)
<1>1. IsRoom(room) /\ IsBooked(room, alarm) /\ IsDeserted(room) /\ alarm \in Countdown
  BY DEF Kept, Exists
<1> DEFINE people == [q \in DOMAIN room.participants \ {p} |-> room.participants[q]]
           deserted == Connected(people) = {}
<1>2. CASE DeleteRoom(alarm)
  BY <1>1, <1>2, DeleteRoomKept
<1>3. CASE /\ room' = [room EXCEPT !.participants = people,
                                   !.abandonIn = IF deserted THEN AbandonTime ELSE @]
           /\ alarm' = IF deserted THEN AbandonTime ELSE alarm
  <2>1. IsPeople(people) /\ Connected(people) \subseteq Connected(room.participants)
    BY <1>1 DEF IsPeople, IsRoom, Connected
  <2> HIDE DEF people
  <2>2. room' = [phase |-> room.phase, config |-> room.config, hostClaimSpent |-> room.hostClaimSpent,
                 participants |-> people, abandonIn |-> IF deserted THEN AbandonTime ELSE room.abandonIn,
                 draft |-> room.draft, deadlineIn |-> room.deadlineIn, accelerated |-> room.accelerated]
    BY <1>1, <1>3 DEF IsRoom
  <2>3. IsRoom(room')
    BY <1>1, <2>1, <2>2, Times DEF IsRoom, Phase
  <2>4. IsClocked(room') /\ IsBooked(room', alarm') /\ IsDeserted(room') /\ alarm' \in Countdown
    BY <1>1, <1>3, <2>1, <2>2, Times DEF IsClocked, IsBooked, IsDeserted, IsRoom, Phase
  <2>5. QED
    BY <2>2, <2>3, <2>4, PhaseTells DEF Kept, Quiet, Phase, IsRoom
<1>4. QED
  BY <1>2, <1>3 DEF Withdraw

-----------------------------------------------------------------------------
(* The start.                                                              *)

\* The ring a draft starts with.
LEMMA StartedDraft ==
    ASSUME NEW people, NEW bots
    PROVE  LET g == Progress!WithBotsQueued(Progress!Start(SeatSetup(people, bots)))
           IN  IsDraft(g) /\ g.status = "picking" /\ g.round = 1 /\ g.pick = 1
<1> DEFINE seats == SeatSetup(people, bots)
           g == [status |-> "picking", round |-> 1, pick |-> 1, seats |-> seats, queued |-> {}]
<1>1. IsRing(seats)
  BY DEF SeatSetup, IsRing
<1> HIDE DEF seats
<1>2. IsDraft(g)
  BY <1>1, Times DEF IsDraft
<1>3. Progress!Start(seats) = g
  BY DEF Progress!Start
<1>4. Progress!WithBotsQueued(g).status = "picking"
  BY DEF Progress!WithBotsQueued
<1>5. IsDraft(Progress!WithBotsQueued(g)) /\ SameTable(g, Progress!WithBotsQueued(g))
  BY <1>2, QueuedDraft
<1>6. QED
  BY <1>3, <1>4, <1>5 DEF SameTable, seats

\* The start settles everything at once, with the first pick's deadline.
LEMMA StartDraftKept ==
    ASSUME Kept(room, alarm), NEW k, StartDraft(k)
    PROVE  /\ Kept(room', alarm')
           /\ Phase = "lobby" /\ room' # NoRoom /\ room'.phase = "picking"
           /\ room'.draft.round = 1 /\ room'.draft.pick = 1
<1>1. Exists /\ Phase = "lobby" /\ IsRoom(room) /\ IsBooked(room, alarm) /\ alarm \in Countdown
  BY DEF StartDraft, InLobby, Member, Kept, Exists
<1>2. PICK people \in IF room.config.shuffle THEN Shuffles(room.participants) ELSE {room.participants} :
          LET g == Progress!WithBotsQueued(Progress!Start(SeatSetup(people, room.config.bots)))
              deadline == PickDeadline(room.config, g)
          IN  /\ room' = [room EXCEPT !.phase = "picking", !.config.shuffle = FALSE,
                                      !.participants = people, !.draft = g, !.deadlineIn = deadline,
                                      !.accelerated = FALSE, !.abandonIn = NoTime]
              /\ alarm' = IF deadline # NoTime THEN deadline ELSE alarm
  BY DEF StartDraft
<1> DEFINE g == Progress!WithBotsQueued(Progress!Start(SeatSetup(people, room.config.bots)))
           deadline == PickDeadline(room.config, g)
           config == [room.config EXCEPT !.shuffle = FALSE]
<1>3. IsDraft(g) /\ g.status = "picking" /\ g.round = 1 /\ g.pick = 1
  BY StartedDraft
<1>4. IsPeople(people)
  BY <1>1, ShuffledPeople DEF IsRoom
<1> HIDE DEF g
<1>5. deadline \in Countdown /\ (room.config.timers => deadline # NoTime)
  BY <1>1, <1>3, PickDeadlineFound DEF IsRoom
<1>6. config \in Options /\ config.timers = room.config.timers
  BY <1>1 DEF IsRoom, Options
<1> HIDE DEF deadline
<1>7. room' = [phase |-> "picking", config |-> config, hostClaimSpent |-> room.hostClaimSpent,
               participants |-> people, abandonIn |-> NoTime, draft |-> g,
               deadlineIn |-> deadline, accelerated |-> FALSE]
  BY <1>1, <1>2 DEF IsRoom, g, deadline
<1>8. alarm' = IF deadline # NoTime THEN deadline ELSE alarm
  BY <1>2 DEF g, deadline
<1> HIDE DEF config
<1>9. IsRoom(room')
  BY <1>3, <1>4, <1>5, <1>6, <1>7, Times DEF IsRoom
<1>10. IsClocked(room') /\ IsBooked(room', alarm') /\ IsDeserted(room') /\ alarm' \in Countdown
  BY <1>1, <1>5, <1>6, <1>7, <1>8 DEF IsClocked, IsBooked, IsDeserted, Countdown, NoTime
<1>11. QED
  BY <1>1, <1>3, <1>7, <1>9, <1>10, PhaseTells DEF Kept, IsRoom

-----------------------------------------------------------------------------
(* Picking and dropping out.                                               *)

\* A draft and its people are replaced at the same table, and the deadline
\* stays or becomes the confirmation.
LEMMA ConfirmationKept ==
    ASSUME Kept(room, alarm), Exists, Phase # "lobby",
           NEW people, IsPeople(people),
           NEW r, r = [room EXCEPT !.participants = people, !.abandonIn = NoTime],
           NEW g, IsDraft(g), SameTable(room.draft, g),
           room' = ConfirmationAfter(r, g), alarm' = RebookedFor(room, room')
    PROVE  Kept(room', alarm') /\ Quiet
<1>1. IsRoom(room) /\ IsClocked(room) /\ IsBooked(room, alarm) /\ alarm \in Countdown
  BY DEF Kept, Exists
<1>2. r = [phase |-> room.phase, config |-> room.config, hostClaimSpent |-> room.hostClaimSpent,
           participants |-> people, abandonIn |-> NoTime, draft |-> room.draft,
           deadlineIn |-> room.deadlineIn, accelerated |-> room.accelerated]
  BY <1>1 DEF IsRoom
<1> DEFINE After(deadline, accelerated) ==
               [phase |-> room.phase, config |-> room.config, hostClaimSpent |-> room.hostClaimSpent,
                participants |-> people, abandonIn |-> NoTime, draft |-> g,
                deadlineIn |-> deadline, accelerated |-> accelerated]
<1>3. PICK deadline, accelerated :
          deadline \in {room.deadlineIn, ConfirmationTime} /\ room' = After(deadline, accelerated)
  <2>1. room' = After(ConfirmationTime, TRUE) \/ room' = After(room.deadlineIn, room.accelerated)
    BY <1>2 DEF ConfirmationAfter
  <2> HIDE DEF After
  <2>2. PICK accelerated : accelerated = TRUE
    OBVIOUS
  <2>3. room' = After(ConfirmationTime, accelerated) \/ room' = After(room.deadlineIn, room.accelerated)
    BY <2>1, <2>2
  <2>4. QED
    BY <2>3
<1>4. alarm' = IF deadline # room.deadlineIn /\ deadline # NoTime THEN deadline ELSE alarm
  BY <1>3 DEF RebookedFor
<1>5. deadline \in Countdown /\ (room.deadlineIn # NoTime => deadline # NoTime)
  BY <1>1, <1>3, Times DEF IsRoom
<1>6. IsRoom(room')
  BY <1>1, <1>3, <1>5, Times DEF IsRoom, Phase, SameTable
<1>7. IsClocked(room') /\ IsBooked(room', alarm') /\ IsDeserted(room') /\ alarm' \in Countdown
  BY <1>1, <1>3, <1>4, <1>5 DEF IsClocked, IsBooked, IsDeserted, Countdown, NoTime, Phase
<1>8. room' # NoRoom
  BY <1>6, PhaseTells DEF IsRoom
<1>9. QED
  BY <1>3, <1>6, <1>7, <1>8 DEF Kept, Quiet, Phase

\* Queueing a pick.
LEMMA QueuePickKept ==
    ASSUME Kept(room, alarm), NEW k, QueuePick(k)
    PROVE  Kept(room', alarm') /\ Quiet
<1>1. Exists /\ Phase = "picking" /\ IsRoom(room)
  BY DEF QueuePick, Member, Kept, Exists
<1>2. PICK i : room' = ConfirmationAfter(room, Progress!WithQueued(room.draft, i))
  BY DEF QueuePick
<1>3. alarm' = RebookedFor(room, room')
  BY DEF QueuePick
<1>4. IsDraft(room.draft) /\ room.abandonIn = NoTime /\ IsPeople(room.participants)
  BY <1>1 DEF IsRoom, Phase
<1>5. room = [room EXCEPT !.participants = room.participants, !.abandonIn = NoTime]
  BY <1>1, <1>4 DEF IsRoom
<1>6. IsDraft(Progress!WithQueued(room.draft, i)) /\ SameTable(room.draft, Progress!WithQueued(room.draft, i))
  BY <1>4, QueuedDraft
<1>7. QED
  BY <1>1, <1>2, <1>3, <1>4, <1>5, <1>6, ConfirmationKept

\* Participant's presence in the ledger.
LEMMA AbsentPeople ==
    ASSUME NEW people, IsPeople(people), NEW p \in DOMAIN people
    PROVE  LET absent == [people EXCEPT ![p].connected = FALSE]
           IN  IsPeople(absent) /\ Connected(absent) \subseteq Connected(people)
<1> DEFINE absent == [people EXCEPT ![p].connected = FALSE]
<1>1. \A q \in DOMAIN people : people[q] \in Participant
  BY DEF IsPeople
<1>2. /\ DOMAIN absent = DOMAIN people /\ absent = [q \in DOMAIN absent |-> absent[q]]
      /\ \A q \in DOMAIN people :
             absent[q] = IF q = p THEN [people[q] EXCEPT !.connected = FALSE] ELSE people[q]
  BY DEF IsPeople
<1> HIDE DEF absent
<1>3. ASSUME NEW q \in DOMAIN people
      PROVE  absent[q] \in Participant /\ (absent[q].connected => people[q].connected)
  BY <1>1, <1>2 DEF Participant
<1>4. QED
  BY <1>2, <1>3 DEF IsPeople, Connected, absent

\* Participant is noted absent, in the lobby or at the table.
LEMMA NoteAbsenceKept ==
    ASSUME Kept(room, alarm), Exists, NEW p \in DOMAIN room.participants, NoteAbsence(p)
    PROVE  Kept(room', alarm') /\ Quiet
<1>1. IsRoom(room) /\ IsClocked(room) /\ IsBooked(room, alarm) /\ IsDeserted(room) /\ alarm \in Countdown
  BY DEF Kept, Exists
<1> DEFINE people == [room.participants EXCEPT ![p].connected = FALSE]
           deserted == Phase = "lobby" /\ Connected(people) = {}
           absent == [room EXCEPT !.participants = people,
                                  !.abandonIn = IF deserted THEN AbandonTime ELSE @]
           noted == IF room.draft = NoDraft THEN absent
                    ELSE ConfirmationAfter(absent, SeatPresence(room.draft, p, FALSE))
<1>2. room' = noted /\ alarm' = IF deserted THEN AbandonTime ELSE RebookedFor(room, noted)
  BY DEF NoteAbsence
<1>3. IsPeople(people) /\ Connected(people) \subseteq Connected(room.participants)
  BY <1>1, AbsentPeople DEF IsRoom
<1> HIDE DEF people
<1>4. CASE Phase = "lobby"
  <2>1. room.draft = NoDraft /\ room.deadlineIn = NoTime
    BY <1>1, <1>4 DEF IsRoom, Phase
  <2>2. room' = [phase |-> room.phase, config |-> room.config, hostClaimSpent |-> room.hostClaimSpent,
                 participants |-> people, abandonIn |-> IF deserted THEN AbandonTime ELSE room.abandonIn,
                 draft |-> room.draft, deadlineIn |-> room.deadlineIn, accelerated |-> room.accelerated]
    BY <1>1, <1>2, <2>1 DEF IsRoom
  <2>3. alarm' = IF deserted THEN AbandonTime ELSE alarm
    BY <1>2, <2>1, <2>2 DEF RebookedFor
  <2>4. IsRoom(room')
    BY <1>1, <1>3, <1>4, <2>2, Times DEF IsRoom, Phase
  <2>5. IsClocked(room') /\ IsBooked(room', alarm') /\ IsDeserted(room') /\ alarm' \in Countdown
    BY <1>1, <1>3, <1>4, <2>2, <2>3, Times DEF IsClocked, IsBooked, IsDeserted, IsRoom, Phase
  <2>6. QED
    BY <1>4, <2>2, <2>4, <2>5, PhaseTells DEF Kept, Quiet, Phase, IsRoom
<1>5. CASE Phase # "lobby"
  <2>1. IsDraft(room.draft) /\ room.abandonIn = NoTime
    BY <1>1, <1>5 DEF IsRoom, Phase
  <2>2. room.draft # NoDraft
    BY <2>1 DEF IsDraft, NoDraft
  <2>3. absent = [room EXCEPT !.participants = people, !.abandonIn = NoTime]
    BY <1>1, <1>5, <2>1 DEF IsRoom
  <2>4. /\ IsDraft(SeatPresence(room.draft, p, FALSE))
        /\ SameTable(room.draft, SeatPresence(room.draft, p, FALSE))
    BY <2>1, PresentDraft
  <2>5. room' = ConfirmationAfter(absent, SeatPresence(room.draft, p, FALSE))
        /\ alarm' = RebookedFor(room, room')
    BY <1>2, <1>5, <2>2
  <2>6. QED
    BY <1>3, <1>5, <2>3, <2>4, <2>5, ConfirmationKept
<1>6. QED
  BY <1>4, <1>5

\* A socket's close, whoever it belonged to.
LEMMA SocketClosedKept ==
    ASSUME Kept(room, alarm), NEW k, SocketClosed(k)
    PROVE  Kept(room', alarm') /\ Quiet
<1>1. CASE SpeaksForIdentity(k)
  <2>1. Exists /\ Self(k) \in DOMAIN room.participants
    BY <1>1 DEF SpeaksForIdentity, Member, Self
  <2>2. NoteAbsence(Self(k))
    BY <1>1 DEF SocketClosed
  <2>3. QED
    BY <2>1, <2>2, NoteAbsenceKept
<1>2. CASE ~SpeaksForIdentity(k)
  BY <1>2 DEF SocketClosed, Quiet
<1>3. QED
  BY <1>1, <1>2

-----------------------------------------------------------------------------
(* Wakes and the clock.                                                    *)

\* The liveness sweep.
LEMMA ReconcileLivenessKept ==
    ASSUME Kept(room, alarm), Exists, Phase = "lobby", ReconcileLiveness
    PROVE  Kept(room', alarm') /\ Quiet
<1>1. IsRoom(room) /\ IsPeople(room.participants)
  BY DEF Kept, Exists, IsRoom
<1>2. PICK people \in SweptLedgers(room.participants) :
          room' = [room EXCEPT !.participants = people,
                               !.abandonIn = IF Connected(people) = {} THEN AbandonTime ELSE NoTime]
  BY DEF ReconcileLiveness
<1>3. alarm' = AbandonTime
  BY DEF ReconcileLiveness
<1>4. IsPeople(people)
  <2>1. PICK absent \in [DOMAIN room.participants -> BOOLEAN] :
            people = [p \in DOMAIN room.participants |->
                         [room.participants[p] EXCEPT !.connected = @ /\ ~absent[p]]]
    BY DEF SweptLedgers
  <2>2. ASSUME NEW p \in DOMAIN room.participants
        PROVE  [room.participants[p] EXCEPT !.connected = @ /\ ~absent[p]] \in Participant
    <3>1. room.participants[p] \in Participant /\ absent[p] \in BOOLEAN
      BY <1>1 DEF IsPeople
    <3>2. (room.participants[p].connected /\ ~absent[p]) \in BOOLEAN
      OBVIOUS
    <3>3. QED
      BY <3>1, <3>2, Swept
  <2>3. QED
    BY <2>1, <2>2 DEF IsPeople
<1>5. room' = [phase |-> room.phase, config |-> room.config, hostClaimSpent |-> room.hostClaimSpent,
               participants |-> people,
               abandonIn |-> IF Connected(people) = {} THEN AbandonTime ELSE NoTime,
               draft |-> room.draft, deadlineIn |-> room.deadlineIn, accelerated |-> room.accelerated]
  BY <1>1, <1>2 DEF IsRoom
<1>6. IsRoom(room')
  BY <1>1, <1>4, <1>5, Times DEF IsRoom, Phase
<1>7. IsClocked(room') /\ IsBooked(room', alarm') /\ IsDeserted(room') /\ alarm' \in Countdown
  BY <1>1, <1>3, <1>5, Times DEF IsClocked, IsBooked, IsDeserted, IsRoom, Phase
<1>8. QED
  BY <1>5, <1>6, <1>7, PhaseTells DEF Kept, Quiet, Phase, IsRoom

\* A wake in the lobby: a sweep, a booking, or the end of the room.
LEMMA LobbyAlarmKept ==
    ASSUME Kept(room, alarm), Exists, Phase = "lobby", NEW slot \in Countdown, LobbyAlarm(slot)
    PROVE  Kept(room', alarm') /\ (Quiet \/ room' = NoRoom)
<1>1. IsRoom(room) /\ IsClocked(room) /\ IsBooked(room, alarm) /\ IsDeserted(room)
  BY DEF Kept, Exists
<1>2. CASE room.abandonIn = NoTime
  BY <1>2, ReconcileLivenessKept DEF LobbyAlarm
<1>3. CASE room.abandonIn # NoTime /\ room.abandonIn > 0
  <2>1. room' = room /\ alarm' = room.abandonIn
    BY <1>3 DEF LobbyAlarm
  <2>2. IsBooked(room', alarm')
    BY <1>1, <1>3, <2>1 DEF IsBooked, IsRoom, Phase, Countdown
  <2>3. QED
    BY <1>1, <2>1, <2>2 DEF Kept, Quiet, IsRoom
<1>4. CASE room.abandonIn # NoTime /\ ~(room.abandonIn > 0)
  BY <1>4, DeleteRoomKept DEF LobbyAlarm
<1>5. QED
  BY <1>2, <1>3, <1>4

\* The end of a review.
LEMMA EndReviewKept ==
    ASSUME Kept(room, alarm), Exists, Phase = "review", NEW slot \in Countdown, room' = EndReview,
           alarm' = IF room'.deadlineIn # NoTime THEN room'.deadlineIn ELSE slot
    PROVE  Kept(room', alarm') /\ EndsReview
<1>1. IsRoom(room) /\ IsDraft(room.draft) /\ room.abandonIn = NoTime
  BY DEF Kept, Exists, IsRoom, Phase
<1> DEFINE deadline == PickDeadline(room.config, room.draft)
<1>2. deadline \in Countdown /\ (room.config.timers => deadline # NoTime)
  BY <1>1, PickDeadlineFound DEF IsRoom
<1>3. room' = [phase |-> "picking", config |-> room.config, hostClaimSpent |-> room.hostClaimSpent,
               participants |-> room.participants, abandonIn |-> NoTime, draft |-> room.draft,
               deadlineIn |-> deadline, accelerated |-> FALSE]
  BY <1>1 DEF EndReview, IsRoom
<1> HIDE DEF deadline
<1>4. IsRoom(room') /\ room' # NoRoom
  <2>1. room.draft.status = "picking"
    BY <1>1 DEF IsRoom, Phase
  <2>2. IsRoom(room')
    BY <1>1, <1>2, <1>3, <2>1, Times DEF IsRoom
  <2>3. QED
    BY <2>2, PhaseTells DEF IsRoom
<1>5. IsClocked(room') /\ IsBooked(room', alarm') /\ IsDeserted(room') /\ alarm' \in Countdown
  BY <1>2, <1>3 DEF IsClocked, IsBooked, IsDeserted, Countdown, NoTime
<1>6. QED
  BY <1>3, <1>4, <1>5 DEF Kept, EndsReview, SameTable

\* The end of a pick.
LEMMA ClosePickKept ==
    ASSUME Kept(room, alarm), Exists, Phase = "picking", room.deadlineIn = 0, NEW slot \in Countdown,
           room' = ClosePick,
           alarm' = IF room'.deadlineIn # NoTime THEN room'.deadlineIn ELSE slot
    PROVE  Kept(room', alarm') /\ ClosesPick
<1>1. /\ IsRoom(room) /\ IsDraft(room.draft) /\ room.abandonIn = NoTime
      /\ room.draft.status = "picking"
  BY DEF Kept, Exists, IsRoom, Phase
<1> DEFINE g == room.draft
           committed == Progress!Committed(g)
           next == IF Progress!Picking(committed) THEN Progress!WithBotsQueued(committed) ELSE committed
           finished == next.status = "complete"
           newRound == ~finished /\ next.round # g.round
           phase == IF finished THEN "complete" ELSE IF newRound THEN "review" ELSE "picking"
           deadline == IF finished THEN CompletedTTL ELSE IF newRound THEN ReviewTime
                       ELSE PickDeadline(room.config, next)
<1>2. /\ IsDraft(committed) /\ committed.seats = g.seats
      /\ \/ /\ g.pick < PackSize-1
            /\ committed.status = "picking" /\ committed.round = g.round /\ committed.pick = g.pick + 1
         \/ /\ g.pick = PackSize-1 /\ g.round < 3
            /\ committed.status = "picking" /\ committed.round = g.round + 1 /\ committed.pick = 1
         \/ /\ g.pick = PackSize-1 /\ g.round = 3
            /\ committed.status = "complete" /\ committed.round = g.round /\ committed.pick = g.pick
  BY <1>1, CommittedDraft
<1> HIDE DEF committed
<1>3. IsDraft(next) /\ SameTable(committed, next)
  BY <1>2, QueuedDraft DEF SameTable
<1>4. room' = [phase |-> phase, config |-> room.config, hostClaimSpent |-> room.hostClaimSpent,
               participants |-> room.participants, abandonIn |-> NoTime, draft |-> next,
               deadlineIn |-> deadline, accelerated |-> FALSE]
  BY <1>1 DEF ClosePick, IsRoom, committed
<1> HIDE DEF next
<1>5. PickDeadline(room.config, next) \in Countdown
      /\ (room.config.timers => PickDeadline(room.config, next) # NoTime)
  BY <1>1, <1>3, PickDeadlineFound DEF IsRoom
<1>6. /\ deadline \in Countdown
      /\ (phase \in {"review", "complete"} \/ room.config.timers) => deadline # NoTime
  BY <1>5, Times
<1>7. /\ phase \in {"picking", "review"} => next.status = "picking"
      /\ phase = "complete" => next.status = "complete"
  BY <1>3 DEF IsDraft
<1>8. \/ /\ g.pick < PackSize-1 /\ phase = "picking"
         /\ next.round = g.round /\ next.pick = g.pick + 1
      \/ /\ g.pick = PackSize-1 /\ g.round < 3 /\ phase = "review"
         /\ next.round = g.round + 1 /\ next.pick = 1
      \/ /\ g.pick = PackSize-1 /\ g.round = 3 /\ phase = "complete"
         /\ next.round = g.round /\ next.pick = g.pick
  <2>1. g.round \in 1..3
    BY <1>1 DEF IsDraft
  <2>2. g.round + 1 # g.round
    BY <2>1
  <2>3. QED
    BY <1>2, <1>3, <2>2 DEF SameTable
<1>9. phase \in {"picking", "review", "complete"}
  OBVIOUS
<1> HIDE DEF phase, deadline
<1>10. IsRoom(room') /\ room' # NoRoom
  <2>1. IsRoom(room')
    BY <1>1, <1>3, <1>4, <1>6, <1>7, <1>9, Times DEF IsRoom
  <2>2. QED
    BY <2>1, PhaseTells DEF IsRoom
<1>11. IsClocked(room') /\ IsBooked(room', alarm') /\ IsDeserted(room') /\ alarm' \in Countdown
  BY <1>4, <1>6, <1>9 DEF IsClocked, IsBooked, IsDeserted, Countdown, NoTime
<1>12. /\ DOMAIN next.seats = DOMAIN g.seats
       /\ \A i \in DOMAIN g.seats : next.seats[i].occupantId = g.seats[i].occupantId
  BY <1>2, <1>3 DEF SameTable
<1>13. ClosesPick
  BY <1>4, <1>8, <1>10, <1>12 DEF ClosesPick
<1>14. QED
  BY <1>10, <1>11, <1>13 DEF Kept

\* A wake in a started room.
LEMMA DeadlineAlarmKept ==
    ASSUME Kept(room, alarm), Exists, Phase # "lobby", NEW slot \in Countdown,
           room.deadlineIn = NoTime \/ slot = alarm \/ alarm = 0,
           DeadlineAlarm(slot)
    PROVE  Kept(room', alarm') /\ (Quiet \/ EndsReview \/ ClosesPick \/ Deletes)
<1>1. /\ IsRoom(room) /\ IsClocked(room) /\ IsBooked(room, alarm) /\ IsDeserted(room)
      /\ room.abandonIn = NoTime /\ alarm \in Countdown
  BY DEF Kept, Exists, IsRoom, Phase
<1>2. CASE room.deadlineIn = NoTime
  <2>1. room' = room /\ alarm' = slot
    BY <1>2 DEF DeadlineAlarm
  <2>2. IsBooked(room', alarm')
    BY <1>1, <1>2, <2>1 DEF IsBooked, Phase
  <2>3. QED
    BY <1>1, <2>1, <2>2 DEF Kept, Quiet
<1>3. CASE room.deadlineIn # NoTime /\ room.deadlineIn > 0
  <2>1. room' = room /\ alarm' = room.deadlineIn
    BY <1>3 DEF DeadlineAlarm
  <2>2. IsBooked(room', alarm') /\ alarm' \in Countdown
    BY <1>1, <1>3, <2>1 DEF IsBooked, IsRoom, Phase, Countdown
  <2>3. QED
    BY <1>1, <2>1, <2>2 DEF Kept, Quiet
<1>4. CASE room.deadlineIn # NoTime /\ ~(room.deadlineIn > 0)
  <2>1. room.deadlineIn = 0
    BY <1>1, <1>4 DEF IsRoom, Countdown
  <2>2. CASE Phase = "complete"
    BY <1>4, <2>2, DeleteRoomKept DEF DeadlineAlarm, Deletes
  <2>3. CASE Phase = "review"
    BY <1>4, <2>3, EndReviewKept DEF DeadlineAlarm
  <2>4. CASE Phase = "picking"
    BY <1>4, <2>1, <2>4, ClosePickKept DEF DeadlineAlarm
  <2>5. QED
    BY <1>1, <2>2, <2>3, <2>4 DEF IsRoom, Phase
<1>5. QED
  BY <1>2, <1>3, <1>4

\* A wake, due, late, early or delivered again.
LEMMA HandleAlarmKept ==
    ASSUME Kept(room, alarm), NEW slot \in Countdown, slot = alarm \/ alarm = 0, HandleAlarm(slot)
    PROVE  Kept(room', alarm') /\ (Quiet \/ EndsReview \/ ClosesPick \/ Deletes)
<1>1. CASE ~Exists
  <2>1. room' = room /\ alarm' = slot
    BY <1>1 DEF HandleAlarm
  <2>2. QED
    BY <1>1, <2>1 DEF Kept, Quiet, Exists
<1>2. CASE Exists /\ Phase = "lobby"
  BY <1>2, LobbyAlarmKept DEF HandleAlarm, Deletes
<1>3. CASE Exists /\ Phase # "lobby"
  BY <1>3, DeadlineAlarmKept DEF HandleAlarm
<1>4. QED
  BY <1>1, <1>2, <1>3

\* Time passes for the snapshot and for the alarm alike.
LEMMA TickKept ==
    ASSUME Kept(room, alarm), Tick
    PROVE  Kept(room', alarm') /\ Quiet
<1>1. \A t \in Countdown : Elapse(t) \in Countdown /\ (Elapse(t) = NoTime <=> t = NoTime)
  BY DEF Elapse, Countdown, NoTime
<1>2. \A t, u \in Countdown : t <= u => Elapse(t) <= Elapse(u)
  BY DEF Elapse, Countdown, NoTime
<1>3. alarm' = Elapse(alarm) /\ alarm \in Countdown /\ alarm' \in Countdown
  BY <1>1 DEF Tick, Kept
<1>4. CASE ~Exists
  BY <1>3, <1>4 DEF Tick, Kept, Quiet, Exists
<1>5. CASE Exists
  <2>1. IsRoom(room) /\ IsClocked(room) /\ IsBooked(room, alarm) /\ IsDeserted(room)
    BY <1>5 DEF Kept, Exists
  <2>2. room' = [phase |-> room.phase, config |-> room.config, hostClaimSpent |-> room.hostClaimSpent,
                 participants |-> room.participants, abandonIn |-> Elapse(room.abandonIn),
                 draft |-> room.draft, deadlineIn |-> Elapse(room.deadlineIn),
                 accelerated |-> room.accelerated]
    BY <1>5, <2>1 DEF Tick, IsRoom
  <2>3. room.abandonIn \in Countdown /\ room.deadlineIn \in Countdown
    BY <2>1 DEF IsRoom
  <2>4. IsRoom(room')
    BY <1>1, <2>1, <2>2, <2>3 DEF IsRoom
  <2>5. IsClocked(room') /\ IsDeserted(room')
    BY <1>1, <2>1, <2>2, <2>3 DEF IsClocked, IsDeserted
  <2>6. IsBooked(room', alarm')
    BY <1>1, <1>2, <1>3, <2>1, <2>2, <2>3 DEF IsBooked
  <2>7. QED
    BY <1>3, <1>5, <2>1, <2>2, <2>4, <2>5, <2>6, PhaseTells DEF Kept, Quiet, Phase, IsRoom, SameTable
<1>6. QED
  BY <1>4, <1>5

-----------------------------------------------------------------------------
(* Every step.                                                             *)

\* The steps the promise of the room knows.
Creates == ~Exists /\ room' # NoRoom /\ room'.phase = "lobby"
StartsDraft ==
    /\ Exists /\ Phase = "lobby" /\ room' # NoRoom /\ room'.phase = "picking"
    /\ room'.draft.round = 1 /\ room'.draft.pick = 1

\* Each handler keeps the snapshot and the alarm in agreement, and does one of
\* the things a room may do.
LEMMA StepKept ==
    ASSUME Kept(room, alarm), [Next]_vars
    PROVE  /\ Kept(room', alarm')
           /\ Quiet \/ Creates \/ StartsDraft \/ ClosesPick \/ EndsReview \/ Deletes
<1>1. alarm \in Countdown /\ NoTime \in Countdown
  BY Times DEF Kept
<1>2. ASSUME room' = room, alarm' = alarm
      PROVE  Kept(room', alarm') /\ Quiet
  BY <1>2 DEF Quiet
<1>3. CASE UNCHANGED vars
  BY <1>2, <1>3 DEF vars
<1>4. CASE Initialize
  <2>1. Kept(room', alarm') /\ room'.phase = "lobby"
    BY <1>4, InitializeKept
  <2>2. QED
    BY <1>4, <2>1, PhaseTells DEF Creates, Initialize
<1>5. CASE Accept
  BY <1>2, <1>5 DEF Accept
<1>6. ASSUME NEW k \in DOMAIN sockets, TurnAway(k) \/ Hello(k) \/ Command(k) \/ SocketClosed(k)
      PROVE  Kept(room', alarm') /\ (Quiet \/ StartsDraft \/ Deletes)
  <2>1. CASE TurnAway(k)
    BY <1>2, <2>1 DEF TurnAway
  <2>2. CASE Hello(k)
    BY <2>2, HelloReturningKept, HelloNewKept DEF Hello
  <2>3. CASE UpdateConfig(k)
    BY <2>3, UpdateConfigKept
  <2>4. CASE RandomizeNow(k)
    BY <2>4, RandomizeNowKept
  <2>5. CASE RandomizeAtStart(k)
    BY <2>5, RandomizeAtStartKept
  <2>6. CASE StartDraft(k)
    BY <2>6, StartDraftKept DEF StartsDraft, StartDraft, InLobby, Member
  <2>7. CASE QueuePick(k)
    BY <2>7, QueuePickKept
  <2>8. CASE Leave(k)
    <3>1. Exists /\ Phase = "lobby" /\ Withdraw(Self(k), TRUE)
      BY <2>8 DEF Leave, InLobby, Member
    <3>2. QED
      BY <3>1, WithdrawKept DEF Deletes
  <2>9. ASSUME NEW p \in Person, RemoveParticipant(k, p)
        PROVE  Kept(room', alarm') /\ (Quiet \/ Deletes)
    <3>1. Exists /\ Phase = "lobby" /\ Withdraw(p, FALSE)
      BY <2>9 DEF RemoveParticipant, InLobby, Member
    <3>2. QED
      BY <3>1, WithdrawKept DEF Deletes
  <2>10. ASSUME NEW p \in Person, NEW seat \in Position \cup {Rail}, MoveParticipant(k, p, seat)
         PROVE  Kept(room', alarm') /\ Quiet
    BY <2>10, MoveParticipantKept
  <2>11. CASE SocketClosed(k)
    BY <2>11, SocketClosedKept
  <2>12. QED
    BY <1>6, <2>1, <2>2, <2>3, <2>4, <2>5, <2>6, <2>7, <2>8, <2>9, <2>10, <2>11 DEF Command
<1>7. CASE Wake
  BY <1>1, <1>7, HandleAlarmKept DEF Wake
<1>8. CASE RedeliverWake
  BY <1>1, <1>8, HandleAlarmKept DEF RedeliverWake
<1>9. CASE Tick
  BY <1>9, TickKept
<1>10. CASE Deploy
  BY <1>2, <1>10 DEF Deploy
<1>11. QED
  BY <1>3, <1>4, <1>5, <1>6, <1>7, <1>8, <1>9, <1>10 DEF Next

\* The inductive invariant of the room.
Agreed == Kept(room, alarm)

(* The snapshot and the alarm slot agree in every reachable state.         *)
THEOREM AlwaysKept == Spec => []Agreed
<1>1. Init => Agreed
  BY Times DEF Init, Kept, Agreed
<1>2. Agreed /\ [Next]_vars => Agreed'
  BY StepKept DEF Agreed
<1>3. QED
  BY <1>1, <1>2, PTL DEF Spec

(* No recorded deadline or abandonment ever falls due without an alarm     *)
(* booked for it, with one slot for both and wakes early, late and         *)
(* delivered twice.                                                        *)
THEOREM AppointmentsAlwaysBooked == Spec => []AppointmentsBooked
<1>1. Agreed => AppointmentsBooked
  BY DEF Agreed, Kept, AppointmentsBooked, IsBooked, Exists, Phase
<1>2. QED
  BY <1>1, AlwaysKept, PTL

(* A room that is marked for deletion as abandoned is a lobby whose ledger *)
(* shows nobody.                                                           *)
THEOREM OnlyDesertedLobbiesAbandoned == Spec => []AbandonmentMeansDeserted
<1>1. Agreed => AbandonmentMeansDeserted
  BY DEF Agreed, Kept, AbandonmentMeansDeserted, IsRoom, IsDeserted, Exists, Phase
<1>2. QED
  BY <1>1, AlwaysKept, PTL

(* Every review, every complete room and every pick of a timed draft has   *)
(* its deadline.                                                           *)
THEOREM ClocksNeverMissing == Spec => []ClockedPhasesHaveDeadline
<1>1. NoRoom.phase = "none"
  BY DEF NoRoom
<1>2. Agreed => ClockedPhasesHaveDeadline
  BY <1>1 DEF Agreed, Kept, ClockedPhasesHaveDeadline, IsClocked, Phase
<1>3. QED
  BY <1>2, AlwaysKept, PTL

(* A pick closes in a step that finds its deadline due, and in no other.   *)
THEOREM PicksOnlyCloseWhenDue == Spec => PicksCloseWhenDue
<1>1. ASSUME Agreed, [Next]_vars, Phase \in {"picking", "review"}, Turn' # Turn
      PROVE  Phase = "picking" /\ room.deadlineIn = 0
  <2>1. Exists
    BY <1>1 DEF Exists, NoRoom, Phase
  <2>2. Quiet \/ Creates \/ StartsDraft \/ ClosesPick \/ EndsReview \/ Deletes
    BY <1>1, StepKept DEF Agreed
  <2>3. ~Quiet /\ ~EndsReview
    BY <1>1 DEF Quiet, EndsReview, SameTable, Turn, Phase
  <2>4. ~Creates /\ ~StartsDraft /\ ~Deletes
    BY <1>1, <2>1 DEF Creates, StartsDraft, Deletes
  <2>5. QED
    BY <2>2, <2>3, <2>4 DEF ClosesPick
<1>2. Agreed /\ [Next]_vars =>
          [(Phase \in {"picking", "review"} /\ Turn' # Turn)
              => Phase = "picking" /\ room.deadlineIn = 0]_vars
  BY <1>1
<1>3. QED
  BY <1>2, AlwaysKept, PTL DEF Spec, PicksCloseWhenDue

-----------------------------------------------------------------------------
(* The promise.                                                            *)

\* What the promise sees of a snapshot.
TurnOf(r) ==
    IF r.phase \in {"picking", "review", "complete"} THEN <<r.draft.round, r.draft.pick>> ELSE <<0, 0>>
TableOf(r) ==
    IF r.phase \in {"picking", "review", "complete"}
    THEN {[config |-> r.config, ring |-> [i \in DOMAIN r.draft.seats |-> r.draft.seats[i].occupantId]]}
    ELSE {}

\* Two drafts with the same people are the same table.
LEMMA SameTables ==
    ASSUME NEW r, NEW s, r.phase \in {"picking", "review", "complete"},
           s.phase \in {"picking", "review", "complete"}, s.config = r.config,
           DOMAIN s.draft.seats = DOMAIN r.draft.seats,
           \A i \in DOMAIN r.draft.seats : s.draft.seats[i].occupantId = r.draft.seats[i].occupantId
    PROVE  TableOf(s) = TableOf(r)
<1>1. [i \in DOMAIN s.draft.seats |-> s.draft.seats[i].occupantId]
        = [i \in DOMAIN r.draft.seats |-> r.draft.seats[i].occupantId]
  OBVIOUS
<1>2. QED
  BY <1>1 DEF TableOf

(* The room implements RoomLifecycle: one start, a table that is settled   *)
(* by it, turns without gaps or repetitions, reviews only between rounds,  *)
(* and no end but those of a lobby and of a finished draft.                *)
THEOREM KeepsItsPromise == Spec => ImplementsLifecycle
<1>1. Init => Lifecycle!Init
  BY DEF Init, Lifecycle!Init, Lifecycle!Nothing, Lifecycle!Undecided, NoRoom, Phase, Started
<1>2. ASSUME Agreed, Agreed', [Next]_vars
      PROVE  [Lifecycle!Next]_(Lifecycle!vars)
  <2> DEFINE S == {"picking", "review", "complete"}
  <2>1. Quiet \/ Creates \/ StartsDraft \/ ClosesPick \/ EndsReview \/ Deletes
    BY <1>2, StepKept DEF Agreed
  <2>2. /\ room # NoRoom => IsRoom(room)
        /\ room' # NoRoom => IsRoom(room')
    BY <1>2 DEF Agreed, Kept
  <2>3. /\ NoRoom.phase = "none" /\ TurnOf(NoRoom) = <<0, 0>> /\ TableOf(NoRoom) = {}
        /\ \A r : r.phase \notin S => TurnOf(r) = <<0, 0>> /\ TableOf(r) = {}
        /\ \A r : r.phase \in S => TurnOf(r) = <<r.draft.round, r.draft.pick>> /\ TableOf(r) # {}
    BY DEF NoRoom, TurnOf, TableOf
  <2>4. CASE Quiet
    <3>1. room'.phase = room.phase /\ TurnOf(room') = TurnOf(room) /\ TableOf(room') = TableOf(room)
      <4>1. CASE room' = room
        BY <4>1
      <4>2. CASE room' # room /\ Phase = "lobby"
        BY <2>3, <2>4, <4>2 DEF Quiet, Phase
      <4>3. CASE room' # room /\ Phase # "lobby"
        <5>1. room.phase \in S /\ room'.phase = room.phase
              /\ room'.config = room.config /\ SameTable(room.draft, room'.draft)
          BY <2>2, <2>4, <4>3 DEF Quiet, IsRoom, Exists, Phase
        <5>2. TableOf(room') = TableOf(room)
          BY <5>1, SameTables DEF SameTable
        <5>3. QED
          BY <2>3, <5>1, <5>2 DEF SameTable
      <4>4. QED
        BY <4>1, <4>2, <4>3
    <3>2. QED
      BY <3>1 DEF Lifecycle!vars, TurnOf, TableOf, Phase, Started
  <2>5. CASE Creates
    <3>1. room.phase = "none" /\ room'.phase = "lobby"
      BY <2>3, <2>5 DEF Creates, Exists
    <3>2. TurnOf(room') = TurnOf(room) /\ TableOf(room') = TableOf(room)
      BY <2>3, <3>1
    <3>3. Lifecycle!Open
      BY <3>1, <3>2 DEF Lifecycle!Open, TurnOf, TableOf, Phase, Started
    <3>4. QED
      BY <3>3 DEF Lifecycle!Next
  <2>6. CASE StartsDraft
    <3>1. room.phase = "lobby" /\ room'.phase = "picking" /\ TurnOf(room') = <<1, 1>> /\ TableOf(room') # {}
      BY <2>3, <2>6 DEF StartsDraft, Phase
    <3>2. Lifecycle!Start
      BY <3>1 DEF Lifecycle!Start, Lifecycle!Undecided, TurnOf, TableOf, Phase, Started
    <3>3. QED
      BY <3>2 DEF Lifecycle!Next
  <2>7. CASE ClosesPick
    <3>1. /\ room.phase = "picking" /\ room'.phase \in S
          /\ TurnOf(room) = <<room.draft.round, room.draft.pick>>
          /\ TurnOf(room') = <<room'.draft.round, room'.draft.pick>>
          /\ TableOf(room') = TableOf(room)
      BY <2>3, <2>7, SameTables DEF ClosesPick, Phase
    <3>2. CASE room.draft.pick < PackSize-1 /\ room'.phase = "picking"
               /\ room'.draft.round = room.draft.round /\ room'.draft.pick = room.draft.pick + 1
      <4>1. Lifecycle!NextPick
        BY <3>1, <3>2 DEF Lifecycle!NextPick, Lifecycle!LastPick, TurnOf, TableOf, Phase, Started
      <4>2. QED
        BY <4>1 DEF Lifecycle!Next
    <3>3. CASE room.draft.pick = PackSize-1 /\ room.draft.round < 3 /\ room'.phase = "review"
               /\ room'.draft.round = room.draft.round + 1 /\ room'.draft.pick = 1
      <4>1. Lifecycle!Review
        BY <3>1, <3>3 DEF Lifecycle!Review, Lifecycle!LastPick, TurnOf, TableOf, Phase, Started
      <4>2. QED
        BY <4>1 DEF Lifecycle!Next
    <3>4. CASE room.draft.pick = PackSize-1 /\ room.draft.round = 3 /\ room'.phase = "complete"
               /\ room'.draft.round = room.draft.round /\ room'.draft.pick = room.draft.pick
      <4>1. Lifecycle!Finish
        BY <3>1, <3>4 DEF Lifecycle!Finish, Lifecycle!LastPick, TurnOf, TableOf, Phase, Started
      <4>2. QED
        BY <4>1 DEF Lifecycle!Next
    <3>5. QED
      BY <2>7, <3>2, <3>3, <3>4 DEF ClosesPick
  <2>8. CASE EndsReview
    <3>1. /\ room.phase = "review" /\ room'.phase = "picking"
          /\ TurnOf(room') = TurnOf(room) /\ TableOf(room') = TableOf(room)
      BY <2>3, <2>8, SameTables DEF EndsReview, SameTable, Phase
    <3>2. Lifecycle!Resume
      BY <3>1 DEF Lifecycle!Resume, TurnOf, TableOf, Phase, Started
    <3>3. QED
      BY <3>2 DEF Lifecycle!Next
  <2>9. CASE Deletes
    <3>1. room.phase \in {"lobby", "complete"} /\ room'.phase = "none"
          /\ TurnOf(room') = <<0, 0>> /\ TableOf(room') = {}
      BY <2>3, <2>9 DEF Deletes, Phase
    <3>2. Lifecycle!Disappear
      BY <3>1 DEF Lifecycle!Disappear, Lifecycle!Nothing, Lifecycle!Undecided,
                  TurnOf, TableOf, Phase, Started
    <3>3. QED
      BY <3>2 DEF Lifecycle!Next
  <2>10. QED
    BY <2>1, <2>4, <2>5, <2>6, <2>7, <2>8, <2>9
<1>3. Agreed /\ Agreed' /\ [Next]_vars => [Lifecycle!Next]_(Lifecycle!vars)
  BY <1>2
<1>4. QED
  BY <1>1, <1>3, AlwaysKept, PTL DEF Spec, ImplementsLifecycle, Lifecycle!Spec

-----------------------------------------------------------------------------
(* The ledger.                                                             *)

\* Nobody sits on anybody, and the only host has spent the claim.
Apart(people) ==
    \A p, q \in DOMAIN people : p # q => people[p].seat = Rail \/ people[p].seat # people[q].seat
OneHost(people, spent) ==
    \A p, q \in DOMAIN people :
        (people[p].host => spent) /\ (people[p].host /\ people[q].host => p = q)

\* A step that may take people away, and changes nobody's seat or hosting.
SeatsStay ==
    room' # NoRoom =>
        /\ DOMAIN room'.participants \subseteq DOMAIN room.participants
        /\ \A p \in DOMAIN room'.participants :
               /\ room'.participants[p].seat = room.participants[p].seat
               /\ room'.participants[p].host = room.participants[p].host
        /\ room'.hostClaimSpent = room.hostClaimSpent

\* The ledger is sound in its two parts.
LEMMA LedgerParts ==
    LedgerSound <=> (Exists => Apart(room.participants) /\ OneHost(room.participants, room.hostClaimSpent))
BY DEF LedgerSound, Apart, OneHost

\* Taking people away, or nobody, keeps the ledger sound.
LEMMA SeatsStaySound ==
    ASSUME LedgerSound, Exists, SeatsStay
    PROVE  LedgerSound'
<1>1. Apart(room.participants) /\ OneHost(room.participants, room.hostClaimSpent)
  BY LedgerParts
<1>2. CASE room' # NoRoom
  <2> DEFINE people == room.participants
             stay == room'.participants
  <2>1. /\ DOMAIN stay \subseteq DOMAIN people
        /\ \A p \in DOMAIN stay : stay[p].seat = people[p].seat /\ stay[p].host = people[p].host
        /\ room'.hostClaimSpent = room.hostClaimSpent
    BY <1>2 DEF SeatsStay
  <2> HIDE DEF people, stay
  <2>2. Apart(people) /\ OneHost(people, room.hostClaimSpent)
    BY <1>1 DEF people
  <2>3. Apart(stay) /\ OneHost(stay, room'.hostClaimSpent)
    BY <2>1, <2>2 DEF Apart, OneHost
  <2>4. QED
    BY <2>3 DEF LedgerSound, Apart, OneHost, stay
<1>3. CASE room' = NoRoom
  BY <1>3 DEF LedgerSound, Exists
<1>4. QED
  BY <1>2, <1>3

\* The commands and events that move nobody.
LEMMA MovesNobody ==
    ASSUME Agreed, NEW k,
           \/ UpdateConfig(k) \/ RandomizeAtStart(k) \/ QueuePick(k)
           \/ Leave(k) \/ (\E p \in Person : RemoveParticipant(k, p))
    PROVE  Exists /\ SeatsStay
<1>1. Exists /\ IsRoom(room)
  BY DEF UpdateConfig, RandomizeAtStart, QueuePick, Leave, RemoveParticipant, InLobby, Member,
         Agreed, Kept, Exists
<1>2. CASE UpdateConfig(k) \/ RandomizeAtStart(k)
  BY <1>1, <1>2 DEF UpdateConfig, RandomizeAtStart, SeatsStay, IsRoom
<1>3. CASE QueuePick(k)
  BY <1>1, <1>3 DEF QueuePick, ConfirmationAfter, SeatsStay, IsRoom
<1>4. ASSUME NEW p, NEW deletesEmpty, Withdraw(p, deletesEmpty)
      PROVE  SeatsStay
  <2> DEFINE people == [q \in DOMAIN room.participants \ {p} |-> room.participants[q]]
  <2>1. CASE room' = NoRoom
    BY <2>1 DEF SeatsStay
  <2>2. CASE room' # NoRoom
    <3>1. PICK abandonIn : room' = [room EXCEPT !.participants = people, !.abandonIn = abandonIn]
      BY <1>4, <2>2 DEF Withdraw, DeleteRoom
    <3>2. DOMAIN people \subseteq DOMAIN room.participants
          /\ \A q \in DOMAIN people : people[q] = room.participants[q]
      OBVIOUS
    <3> HIDE DEF people
    <3>3. room'.participants = people /\ room'.hostClaimSpent = room.hostClaimSpent
      BY <1>1, <3>1 DEF IsRoom
    <3>4. QED
      BY <3>2, <3>3 DEF SeatsStay
  <2>3. QED
    BY <2>1, <2>2
<1>5. QED
  BY <1>1, <1>2, <1>3, <1>4 DEF Leave, RemoveParticipant

\* A closed socket moves nobody.
LEMMA ClosingMovesNobody ==
    ASSUME Agreed, NEW k, SocketClosed(k), Exists
    PROVE  SeatsStay
<1>1. IsRoom(room) /\ IsPeople(room.participants)
  BY DEF Agreed, Kept, Exists, IsRoom
<1>2. CASE SpeaksForIdentity(k)
  <2> DEFINE p == Self(k)
             people == [room.participants EXCEPT ![p].connected = FALSE]
  <2>1. p \in DOMAIN room.participants /\ NoteAbsence(p)
    BY <1>2 DEF SpeaksForIdentity, Member, Self, SocketClosed
  <2> HIDE DEF p
  <2>2. DOMAIN people = DOMAIN room.participants /\ \A q \in DOMAIN people :
            people[q] = IF q = p THEN [room.participants[q] EXCEPT !.connected = FALSE]
                        ELSE room.participants[q]
    BY <1>1, <2>1 DEF IsPeople
  <2>3. \A q \in DOMAIN people :
            people[q].seat = room.participants[q].seat /\ people[q].host = room.participants[q].host
    BY <1>1, <2>2 DEF IsPeople, Participant
  <2> HIDE DEF people
  <2>4. room'.participants = people /\ room'.hostClaimSpent = room.hostClaimSpent
    BY <1>1, <2>1 DEF NoteAbsence, ConfirmationAfter, IsRoom, people
  <2>5. QED
    BY <2>2, <2>3, <2>4 DEF SeatsStay
<1>3. CASE ~SpeaksForIdentity(k)
  BY <1>3 DEF SocketClosed, SeatsStay
<1>4. QED
  BY <1>2, <1>3

\* A wake moves nobody.
LEMMA WakesMoveNobody ==
    ASSUME Agreed, Exists, NEW slot, HandleAlarm(slot)
    PROVE  SeatsStay
<1>1. IsRoom(room) /\ IsPeople(room.participants)
  BY DEF Agreed, Kept, Exists, IsRoom
<1>2. CASE room' = room \/ room' = NoRoom
  BY <1>2 DEF SeatsStay
<1>3. CASE room' = EndReview \/ room' = ClosePick
  BY <1>1, <1>3 DEF EndReview, ClosePick, SeatsStay, IsRoom
<1>4. CASE ReconcileLiveness
  <2>1. PICK people \in SweptLedgers(room.participants) :
            room' = [room EXCEPT !.participants = people,
                                 !.abandonIn = IF Connected(people) = {} THEN AbandonTime ELSE NoTime]
    BY <1>4 DEF ReconcileLiveness
  <2>2. PICK absent \in [DOMAIN room.participants -> BOOLEAN] :
            people = [p \in DOMAIN room.participants |->
                         [room.participants[p] EXCEPT !.connected = @ /\ ~absent[p]]]
    BY <2>1 DEF SweptLedgers
  <2>3. ASSUME NEW p \in DOMAIN people
        PROVE  people[p].seat = room.participants[p].seat /\ people[p].host = room.participants[p].host
    <3>1. room.participants[p] \in Participant
      BY <1>1, <2>2 DEF IsPeople
    <3>2. QED
      BY <2>2, <3>1 DEF Participant
  <2>4. room'.participants = people /\ room'.hostClaimSpent = room.hostClaimSpent
        /\ DOMAIN people = DOMAIN room.participants
    BY <1>1, <2>1, <2>2 DEF IsRoom
  <2>5. QED
    BY <2>3, <2>4, SMTT(30) DEF SeatsStay
<1>5. QED
  BY <1>2, <1>3, <1>4 DEF HandleAlarm, LobbyAlarm, DeadlineAlarm, DeleteRoom

\* A joiner takes a seat nobody holds, and becomes host only on the claim.
LEMMA HelloSound ==
    ASSUME Agreed, LedgerSound, NEW k, NEW p, NEW claim \in BOOLEAN,
           HelloReturning(k, p, claim) \/ HelloNew(k, p, claim)
    PROVE  LedgerSound'
<1>1. Exists /\ IsRoom(room) /\ IsPeople(room.participants) /\ (claim => ~room.hostClaimSpent)
  BY DEF HelloReturning, HelloNew, Agreed, Kept, Exists, IsRoom
<1> DEFINE before == room.participants
<1>2. Apart(before) /\ OneHost(before, room.hostClaimSpent)
  BY <1>1, LedgerParts
<1>3. PICK participant \in Participant :
          /\ room'.participants = [q \in DOMAIN before \cup {p} |-> IF q = p THEN participant ELSE before[q]]
          /\ room'.hostClaimSpent = (room.hostClaimSpent \/ claim)
          /\ \/ /\ p \in DOMAIN before
                /\ participant.seat = before[p].seat /\ participant.host = (before[p].host \/ claim)
             \/ participant.seat = LowestFreeSeat(before) /\ participant.host = claim
  <2>1. CASE HelloReturning(k, p, claim)
    <3> DEFINE participant ==
                   [before[p] EXCEPT !.host = @ \/ claim, !.connected = TRUE, !.generation = @ + 1]
    <3>1. p \in DOMAIN before /\ before[p] \in Participant
      BY <1>1, <2>1 DEF HelloReturning, IsPeople
    <3>2. participant \in Participant
          /\ participant.seat = before[p].seat /\ participant.host = (before[p].host \/ claim)
      <4>1. (before[p].host \/ claim) \in BOOLEAN /\ before[p].generation + 1 \in 1..MaxGeneration
        BY <2>1, <3>1, Times DEF Participant, HelloReturning
      <4>2. QED
        BY <3>1, <4>1, Readmitted DEF Participant
    <3> HIDE DEF participant
    <3>3. /\ room'.participants = [q \in DOMAIN before \cup {p} |-> IF q = p THEN participant ELSE before[q]]
          /\ room'.hostClaimSpent = (room.hostClaimSpent \/ claim)
      BY <1>1, <2>1 DEF HelloReturning, Admit, IsRoom, participant
    <3>4. QED
      BY <3>1, <3>2, <3>3
  <2>2. CASE HelloNew(k, p, claim)
    <3> DEFINE participant == [host |-> claim, connected |-> TRUE, generation |-> 1,
                               seat |-> LowestFreeSeat(before)]
    <3>1. participant \in Participant
      BY LowestFree, Times DEF Participant
    <3>2. /\ room'.participants = [q \in DOMAIN before \cup {p} |-> IF q = p THEN participant ELSE before[q]]
          /\ room'.hostClaimSpent = (room.hostClaimSpent \/ claim)
      BY <1>1, <2>2 DEF HelloNew, Admit, IsRoom
    <3>3. QED
      BY <2>2, <3>1, <3>2
  <2>3. QED
    BY <2>1, <2>2
<1> DEFINE after == room'.participants
           free == LowestFreeSeat(before)
<1> HIDE DEF before, free
<1>4. /\ DOMAIN after = DOMAIN before \cup {p}
      /\ \A q \in DOMAIN after : after[q] = IF q = p THEN participant ELSE before[q]
  BY <1>3
<1>5. free # Rail => \A q \in DOMAIN before : before[q].seat # free
  BY LowestFree DEF free
<1> HIDE DEF after
<1>6. Apart(after)
  BY <1>2, <1>3, <1>4, <1>5 DEF Apart, free
<1>7. OneHost(after, room'.hostClaimSpent)
  BY <1>1, <1>2, <1>3, <1>4 DEF OneHost
<1>8. QED
  BY <1>6, <1>7 DEF LedgerSound, Apart, OneHost, after

\* A ledger that replaces the old one with the same hosts.
LEMMA ReseatedSound ==
    ASSUME LedgerSound, Exists, NEW people, Apart(people),
           DOMAIN people = DOMAIN room.participants,
           \A p \in DOMAIN people : people[p].host = room.participants[p].host,
           room'.participants = people, room'.hostClaimSpent = room.hostClaimSpent
    PROVE  LedgerSound'
<1>1. OneHost(room.participants, room.hostClaimSpent)
  BY LedgerParts
<1>2. OneHost(people, room.hostClaimSpent)
  BY <1>1 DEF OneHost
<1>3. QED
  BY <1>2 DEF LedgerSound, Apart, OneHost

\* A move swaps two people or takes a seat nobody holds.
LEMMA MoveSound ==
    ASSUME Agreed, LedgerSound, NEW k, NEW p, NEW seat \in Position \cup {Rail}, MoveParticipant(k, p, seat)
    PROVE  LedgerSound'
<1>1. /\ Exists /\ IsRoom(room) /\ IsPeople(room.participants) /\ p \in DOMAIN room.participants
      /\ Apart(room.participants)
  BY LedgerParts DEF MoveParticipant, InLobby, Member, Agreed, Kept, Exists, IsRoom
<1> DEFINE people == room.participants
           moved == Moved(people, p, seat)
<1>2. room' = [room EXCEPT !.config.shuffle = FALSE, !.participants = moved]
  BY DEF MoveParticipant, Moved
<1>3. room'.participants = moved /\ room'.hostClaimSpent = room.hostClaimSpent
  BY <1>1, <1>2 DEF IsRoom
<1>4. \A q \in DOMAIN people : people[q] \in Participant
  BY <1>1 DEF IsPeople
<1>5. /\ DOMAIN moved = DOMAIN people
      /\ \A q \in DOMAIN people : moved[q].host = people[q].host
      /\ \A q \in DOMAIN people :
             moved[q].seat = IF q = p THEN seat
                             ELSE IF seat # Rail /\ people[q].seat = seat THEN people[p].seat
                             ELSE people[q].seat
  BY <1>4 DEF Moved, Participant
<1> HIDE DEF moved
<1>6. Apart(moved)
  BY <1>1, <1>5 DEF Apart
<1>7. QED
  BY <1>1, <1>3, <1>5, <1>6, ReseatedSound

\* A shuffle deals the same seats, one to each.
LEMMA ShuffleApart ==
    ASSUME NEW people, IsPeople(people), Apart(people), NEW dealt \in Shuffles(people)
    PROVE  /\ Apart(dealt) /\ DOMAIN dealt = DOMAIN people
           /\ \A p \in DOMAIN people : dealt[p].host = people[p].host
<1>1. PICK f \in [Seated(people) -> {people[p].seat : p \in Seated(people)}] :
          /\ \A p, q \in Seated(people) : f[p] = f[q] => p = q
          /\ dealt = [p \in DOMAIN people |->
                         IF p \in Seated(people) THEN [people[p] EXCEPT !.seat = f[p]] ELSE people[p]]
  BY DEF Shuffles
<1>2. ASSUME NEW p \in DOMAIN people
      PROVE  /\ dealt[p].host = people[p].host
             /\ p \in Seated(people) => dealt[p].seat = f[p]
             /\ p \notin Seated(people) => dealt[p].seat = Rail
  <2>1. people[p] \in Participant
    BY DEF IsPeople
  <2>2. QED
    BY <1>1, <2>1 DEF Participant, Seated
<1>3. DOMAIN dealt = DOMAIN people
  BY <1>1
<1>4. Apart(dealt)
  BY <1>1, <1>2, <1>3, SMTT(30) DEF Apart
<1>5. QED
  BY <1>2, <1>3, <1>4

\* Shuffling, now or at the start, keeps the ledger sound.
LEMMA ShuffleSound ==
    ASSUME Agreed, LedgerSound, NEW k, RandomizeNow(k) \/ StartDraft(k)
    PROVE  LedgerSound'
<1>1. /\ Exists /\ IsRoom(room) /\ IsPeople(room.participants) /\ Apart(room.participants)
  BY LedgerParts DEF RandomizeNow, StartDraft, InLobby, Member, Agreed, Kept, Exists, IsRoom
<1>2. PICK people \in Shuffles(room.participants) \cup {room.participants} :
          room'.participants = people /\ room'.hostClaimSpent = room.hostClaimSpent
  <2>1. CASE RandomizeNow(k)
    BY <1>1, <2>1 DEF RandomizeNow, IsRoom
  <2>2. CASE StartDraft(k)
    <3>1. PICK people, draft, deadline :
              /\ people \in Shuffles(room.participants) \cup {room.participants}
              /\ room' = [room EXCEPT !.phase = "picking", !.config.shuffle = FALSE,
                                      !.participants = people, !.draft = draft, !.deadlineIn = deadline,
                                      !.accelerated = FALSE, !.abandonIn = NoTime]
      BY <2>2 DEF StartDraft
    <3>2. room'.participants = people /\ room'.hostClaimSpent = room.hostClaimSpent
      BY <1>1, <3>1 DEF IsRoom
    <3>3. QED
      BY <3>1, <3>2
  <2>3. QED
    BY <2>1, <2>2
<1>3. /\ Apart(people) /\ DOMAIN people = DOMAIN room.participants
      /\ \A p \in DOMAIN people : people[p].host = room.participants[p].host
  BY <1>1, ShuffleApart
<1>4. QED
  BY <1>1, <1>2, <1>3, ReseatedSound, SMTT(30)

(* No two people hold one position, there is one host at most, and a host  *)
(* only on a spent claim, through every join, return, swap, shuffle and    *)
(* removal.                                                                *)
THEOREM LedgerAlwaysSound == Spec => []LedgerSound
<1>1. Init => LedgerSound
  BY DEF Init, LedgerSound, Exists
<1>2. ASSUME Agreed, LedgerSound, [Next]_vars
      PROVE  LedgerSound'
  <2>1. ASSUME room' = room PROVE LedgerSound'
    BY <1>2, <2>1 DEF LedgerSound, Exists
  <2>2. CASE UNCHANGED vars
    BY <2>1, <2>2 DEF vars
  <2>3. CASE Initialize
    BY <2>3 DEF Initialize, LedgerSound
  <2>4. CASE Accept \/ Deploy
    BY <2>1, <2>4 DEF Accept, Deploy
  <2>5. ASSUME NEW k \in DOMAIN sockets, TurnAway(k) \/ Hello(k) \/ Command(k) \/ SocketClosed(k)
        PROVE  LedgerSound'
    <3>1. CASE TurnAway(k)
      BY <2>1, <3>1 DEF TurnAway
    <3>2. CASE Hello(k)
      BY <1>2, <3>2, HelloSound DEF Hello
    <3>3. CASE RandomizeNow(k) \/ StartDraft(k)
      BY <1>2, <3>3, ShuffleSound
    <3>4. CASE \E p \in Person, seat \in Position \cup {Rail} : MoveParticipant(k, p, seat)
      BY <1>2, <3>4, MoveSound
    <3>5. CASE \/ UpdateConfig(k) \/ RandomizeAtStart(k) \/ QueuePick(k)
               \/ Leave(k) \/ (\E p \in Person : RemoveParticipant(k, p))
      BY <1>2, <3>5, MovesNobody, SeatsStaySound
    <3>6. CASE SocketClosed(k)
      <4>1. CASE Exists
        BY <1>2, <3>6, <4>1, ClosingMovesNobody, SeatsStaySound
      <4>2. CASE ~Exists
        BY <2>1, <3>6, <4>2 DEF SocketClosed, SpeaksForIdentity, Member
      <4>3. QED
        BY <4>1, <4>2
    <3>7. QED
      BY <2>5, <3>1, <3>2, <3>3, <3>4, <3>5, <3>6 DEF Command
  <2>6. CASE Wake \/ RedeliverWake
    <3>1. PICK slot : HandleAlarm(slot)
      BY <2>6 DEF Wake, RedeliverWake
    <3>2. CASE Exists
      BY <1>2, <3>1, <3>2, WakesMoveNobody, SeatsStaySound
    <3>3. CASE ~Exists
      BY <2>1, <3>1, <3>3 DEF HandleAlarm
    <3>4. QED
      BY <3>2, <3>3
  <2>7. CASE Tick
    <3>1. CASE Exists
      <4>1. IsRoom(room)
        BY <1>2, <3>1 DEF Agreed, Kept, Exists
      <4>2. SeatsStay
        BY <2>7, <3>1, <4>1 DEF Tick, SeatsStay, IsRoom
      <4>3. QED
        BY <1>2, <3>1, <4>2, SeatsStaySound
    <3>2. CASE ~Exists
      BY <2>1, <2>7, <3>2 DEF Tick
    <3>3. QED
      BY <3>1, <3>2
  <2>8. QED
    BY <1>2, <2>2, <2>3, <2>4, <2>5, <2>6, <2>7 DEF Next
<1>3. QED
  BY <1>1, <1>2, AlwaysKept, PTL DEF Spec

-----------------------------------------------------------------------------
(* The open pick's deadline.                                               *)

\* What may happen to the deadline of an open pick.
DeadlineStands ==
    \/ room'.deadlineIn \in {room.deadlineIn, Elapse(room.deadlineIn)}
    \/ /\ room'.deadlineIn = ConfirmationTime
       /\ room.deadlineIn = NoTime \/ room.deadlineIn > ConfirmationTime
       /\ AllReadyQueued(room'.draft)

\* A confirmation brings a deadline forward or leaves it.
LEMMA ConfirmationStands ==
    ASSUME Agreed, Phase = "picking", NEW r, NEW g, NEW people,
           r = [room EXCEPT !.participants = people, !.abandonIn = NoTime] \/ r = room,
           room' = ConfirmationAfter(r, g)
    PROVE  DeadlineStands
<1>1. IsRoom(room)
  BY DEF Agreed, Kept, Phase, NoRoom
<1>2. r.deadlineIn = room.deadlineIn /\ r.config = room.config
      /\ \E phase, spent, there, abandonIn, draft, accelerated :
             r = [phase |-> phase, config |-> room.config, hostClaimSpent |-> spent,
                  participants |-> there, abandonIn |-> abandonIn, draft |-> draft,
                  deadlineIn |-> room.deadlineIn, accelerated |-> accelerated]
  BY <1>1, ZenonT(60) DEF IsRoom
<1>3. CASE room' = [r EXCEPT !.draft = g]
  BY <1>2, <1>3 DEF DeadlineStands
<1>4. CASE /\ room' = [r EXCEPT !.draft = g, !.deadlineIn = ConfirmationTime, !.accelerated = TRUE]
           /\ AllReadyQueued(g)
           /\ IF r.config.timers THEN r.deadlineIn > ConfirmationTime ELSE r.deadlineIn = NoTime
  <2>1. room'.deadlineIn = ConfirmationTime /\ room'.draft = g
    BY <1>2, <1>4
  <2>2. room.deadlineIn = NoTime \/ room.deadlineIn > ConfirmationTime
    BY <1>2, <1>4
  <2>3. QED
    BY <1>4, <2>1, <2>2 DEF DeadlineStands
<1>5. QED
  BY <1>3, <1>4 DEF ConfirmationAfter

(* While one pick is open nothing moves its deadline away: returning,      *)
(* queueing again, dropping out and wakes that come early or twice leave   *)
(* it or bring it forward to the confirmation.                             *)
THEOREM DeadlineOnlyComesCloser == Spec => DeadlineNeverExtended
<1>1. ASSUME Agreed, [Next]_vars, Phase = "picking", room'.phase = "picking", Turn' = Turn
      PROVE  DeadlineStands
  <2>1. Exists /\ IsRoom(room) /\ room.abandonIn = NoTime
    BY <1>1 DEF Agreed, Kept, Exists, IsRoom, NoRoom, Phase
  <2>2. ASSUME room' = room \/ room'.deadlineIn = room.deadlineIn PROVE DeadlineStands
    BY <2>2 DEF DeadlineStands
  <2>3. CASE UNCHANGED vars
    BY <2>2, <2>3 DEF vars
  <2>4. CASE Accept \/ Deploy \/ Initialize
    BY <2>1, <2>2, <2>4 DEF Accept, Deploy, Initialize
  <2>5. ASSUME NEW k \in DOMAIN sockets, TurnAway(k) \/ Hello(k) \/ Command(k) \/ SocketClosed(k)
        PROVE  DeadlineStands
    <3>1. CASE TurnAway(k)
      BY <2>2, <3>1 DEF TurnAway
    <3>2. CASE Hello(k)
      <4>1. PICK p, participant, claim, draft : Admit(k, p, participant, claim, draft)
        BY <3>2 DEF Hello, HelloReturning, HelloNew
      <4>2. room'.deadlineIn = room.deadlineIn
        BY <2>1, <4>1 DEF Admit, IsRoom
      <4>3. QED
        BY <2>2, <4>2
    <3>3. CASE QueuePick(k)
      <4>1. PICK i : room' = ConfirmationAfter(room, Progress!WithQueued(room.draft, i))
        BY <3>3 DEF QueuePick
      <4>2. QED
        BY <1>1, <4>1, ConfirmationStands
    <3>4. CASE Command(k) /\ ~QueuePick(k)
      <4>1. Phase = "lobby"
        BY <3>4 DEF Command, UpdateConfig, RandomizeNow, RandomizeAtStart, StartDraft, Leave,
                    RemoveParticipant, MoveParticipant, InLobby
      <4>2. QED
        BY <1>1, <4>1
    <3>5. CASE SocketClosed(k) /\ SpeaksForIdentity(k)
      <4> DEFINE people == [room.participants EXCEPT ![Self(k)].connected = FALSE]
                 absent == [room EXCEPT !.participants = people, !.abandonIn = NoTime]
      <4>1. NoteAbsence(Self(k))
        BY <3>5 DEF SocketClosed
      <4>2. room.draft # NoDraft
        BY <1>1, <2>1 DEF IsRoom, IsDraft, NoDraft, Phase
      <4>3. [room EXCEPT !.participants = people, !.abandonIn = room.abandonIn] = absent
        BY <2>1
      <4>4. room' = ConfirmationAfter(absent, SeatPresence(room.draft, Self(k), FALSE))
        BY <1>1, <4>1, <4>2, <4>3 DEF NoteAbsence
      <4>5. QED
        BY <1>1, <4>4, ConfirmationStands
    <3>6. CASE SocketClosed(k) /\ ~SpeaksForIdentity(k)
      BY <2>2, <3>6 DEF SocketClosed
    <3>7. QED
      BY <2>5, <3>1, <3>2, <3>3, <3>4, <3>5, <3>6
  <2>6. CASE Wake \/ RedeliverWake
    <3>1. PICK slot \in Countdown : DeadlineAlarm(slot)
      BY <1>1, <2>1, <2>6, Times DEF Wake, RedeliverWake, HandleAlarm, Agreed, Kept
    <3>2. CASE room' = room
      BY <2>2, <3>2
    <3>3. CASE room' # room
      <4>1. room.deadlineIn # NoTime /\ ~(room.deadlineIn > 0)
        BY <3>1, <3>3 DEF DeadlineAlarm
      <4>2. room.deadlineIn = 0
        BY <2>1, <4>1 DEF IsRoom, Countdown
      <4>3. room' = ClosePick /\ alarm' = IF room'.deadlineIn # NoTime THEN room'.deadlineIn ELSE slot
        BY <1>1, <3>1, <4>1 DEF DeadlineAlarm
      <4>4. ClosesPick
        BY <1>1, <2>1, <4>2, <4>3, ClosePickKept DEF Agreed
      <4>5. room.draft.round \in Nat /\ room.draft.pick \in Nat
        BY <1>1, <2>1, Times DEF IsRoom, IsDraft, Phase
      <4>6. QED
        BY <1>1, <4>4, <4>5 DEF ClosesPick, Turn
    <3>4. QED
      BY <3>2, <3>3
  <2>7. CASE Tick
    <3>1. room'.deadlineIn = Elapse(room.deadlineIn)
      BY <2>1, <2>7 DEF Tick, IsRoom
    <3>2. QED
      BY <3>1 DEF DeadlineStands
  <2>8. QED
    BY <1>1, <2>3, <2>4, <2>5, <2>6, <2>7 DEF Next
<1>2. Agreed /\ [Next]_vars =>
          [Phase = "picking" /\ room'.phase = "picking" /\ Turn' = Turn =>
              \/ room'.deadlineIn \in {room.deadlineIn, Elapse(room.deadlineIn)}
              \/ /\ room'.deadlineIn = ConfirmationTime
                 /\ room.deadlineIn = NoTime \/ room.deadlineIn > ConfirmationTime
                 /\ AllReadyQueued(room.draft)']_vars
  BY <1>1 DEF DeadlineStands, AllReadyQueued, Ready
<1>3. QED
  BY <1>2, AlwaysKept, PTL DEF Spec, DeadlineNeverExtended

=============================================================================
