------------------------- MODULE RoomPresenceProofs -------------------------
(***************************************************************************)
(* What the room says of who is there, for any people, any table and any   *)
(* number of sockets.                                                      *)
(*                                                                         *)
(* First, nobody is declared absent while their connection stands,         *)
(* whatever the platform still lists.  The argument is about generations:  *)
(* no two listed sockets carry the same identity and generation, and none  *)
(* is ahead of the ledger.                                                 *)
(*                                                                         *)
(* Then, the ring of a running draft and the ledger of the room tell the   *)
(* same story: the start ranks the occupied positions into a ring without  *)
(* losing or doubling anybody, and from then on every return and absence   *)
(* is written to both.                                                     *)
(***************************************************************************)
EXTENDS RoomProofs, FunctionTheorems, FiniteSetTheorems, SequenceTheorems

SocketState == [pid : Person \cup {Nobody}, gen : 0..MaxGeneration, open : BOOLEAN]

\* Identities are minted once, and each connection of one has its own number.
Numbered(list, r, ids) ==
    /\ list \in Seq(SocketState) /\ ids \subseteq Person
    /\ \A k \in DOMAIN list : list[k].pid # Nobody => list[k].pid \in ids
    /\ r # NoRoom =>
        /\ DOMAIN r.participants \subseteq ids
        /\ \A k \in DOMAIN list :
               list[k].pid \in DOMAIN r.participants => list[k].gen <= r.participants[list[k].pid].generation
    /\ \A k, l \in DOMAIN list :
           k # l /\ list[k].pid # Nobody /\ list[k].pid = list[l].pid => list[k].gen # list[l].gen

\* Nobody comes, and nobody's generation changes.
PeopleStay ==
    room' # NoRoom =>
        /\ Exists /\ DOMAIN room'.participants \subseteq DOMAIN room.participants
        /\ \A p \in DOMAIN room'.participants :
               room'.participants[p].generation = room.participants[p].generation

\* Nobody who is there goes absent.
NobodyDrops ==
    Exists /\ room' # NoRoom =>
        \A p \in DOMAIN room.participants \cap DOMAIN room'.participants :
            room.participants[p].connected => room'.participants[p].connected

\* Sockets that are closed are listed where they were, under the same number.
SameSockets(list, other) ==
    /\ other \in Seq(SocketState) /\ DOMAIN other = DOMAIN list
    /\ \A k \in DOMAIN list : other[k].pid = list[k].pid /\ other[k].gen = list[k].gen

-----------------------------------------------------------------------------
(* Lists of sockets.                                                       *)

\* Identities are people.
LEMMA NobodyIsNobody == Nobody \notin Person
BY RoomAssumption

\* A socket that is closed.
LEMMA ClosedSocket ==
    ASSUME NEW s \in SocketState
    PROVE  /\ [s EXCEPT !.open = FALSE] \in SocketState
           /\ [s EXCEPT !.open = FALSE].pid = s.pid /\ [s EXCEPT !.open = FALSE].gen = s.gen
BY DEF SocketState

\* close() on whichever sockets.
LEMMA ClosedSockets ==
    ASSUME NEW list \in Seq(SocketState), NEW other,
           DOMAIN other = DOMAIN list, other = [k \in DOMAIN list |-> other[k]],
           \A k \in DOMAIN list : other[k] \in {list[k], [list[k] EXCEPT !.open = FALSE]}
    PROVE  SameSockets(list, other)
<1>1. ASSUME NEW k \in DOMAIN list
      PROVE  other[k] \in SocketState /\ other[k].pid = list[k].pid /\ other[k].gen = list[k].gen
  <2>1. list[k] \in SocketState
    OBVIOUS
  <2>2. QED
    BY <2>1, ClosedSocket
<1>2. DOMAIN list = 1 .. Len(list) /\ Len(list) \in Nat
  OBVIOUS
<1>3. other \in [1 .. Len(list) -> SocketState]
  BY <1>1, <1>2
<1>4. other \in Seq(SocketState)
  BY <1>2, <1>3
<1>5. QED
  BY <1>1, <1>4 DEF SameSockets

\* A socket that is no longer listed.
LEMMA WithoutSocket ==
    ASSUME NEW list \in Seq(SocketState), NEW k \in DOMAIN list
    PROVE  /\ Without(list, k) \in Seq(SocketState)
           /\ DOMAIN Without(list, k) = 1 .. Len(list)-1
           /\ \A m \in 1 .. Len(list)-1 :
                  Without(list, k)[m] = IF m < k THEN list[m] ELSE list[m+1]
<1>1. k \in 1 .. Len(list) /\ Len(list) \in Nat
  OBVIOUS
<1> DEFINE before == SubSeq(list, 1, k-1)
           after == SubSeq(list, k+1, Len(list))
<1>2. before \in Seq(SocketState) /\ Len(before) = k-1 /\ \A m \in 1 .. k-1 : before[m] = list[m]
  BY <1>1
<1>3. after \in Seq(SocketState) /\ Len(after) = Len(list)-k
      /\ \A m \in 1 .. Len(list)-k : after[m] = list[k+m]
  BY <1>1
<1> HIDE DEF before, after
<1>4. before \o after \in Seq(SocketState) /\ Len(before \o after) = Len(list)-1
  BY <1>1, <1>2, <1>3
<1>5. ASSUME NEW m \in 1 .. Len(list)-1
      PROVE  (before \o after)[m] = IF m < k THEN list[m] ELSE list[m+1]
  <2>1. CASE m < k
    BY <1>1, <1>2, <1>3, <2>1
  <2>2. CASE ~(m < k)
    <3>1. (before \o after)[m] = after[m - (k-1)]
      <4>1. m \in 1 .. Len(before) + Len(after) /\ ~(m <= Len(before)) /\ Len(before) = k-1
        BY <1>1, <1>2, <1>3, <2>2
      <4>2. (before \o after)[m] = IF m <= Len(before) THEN before[m] ELSE after[m - Len(before)]
        BY <1>2, <1>3, <4>1, ConcatProperties
      <4>3. QED
        BY <4>1, <4>2
    <3>2. m - (k-1) \in 1 .. Len(list)-k /\ k + (m - (k-1)) = m+1
      BY <1>1, <2>2
    <3>3. QED
      BY <1>3, <2>2, <3>1, <3>2
  <2>3. QED
    BY <2>1, <2>2
<1>6. Without(list, k) = before \o after
  BY DEF Without, before, after
<1>7. DOMAIN (before \o after) = 1 .. Len(list)-1
  BY <1>4
<1>8. QED
  BY <1>4, <1>5, <1>6, <1>7

\* Steps that neither admit nor open keep the numbering.
LEMMA SocketsStayNumbered ==
    ASSUME Numbered(sockets, room, minted), PeopleStay, minted' = minted, SameSockets(sockets, sockets')
    PROVE  Numbered(sockets', room', minted')
<1> DEFINE list == sockets
           other == sockets'
<1>2. /\ other \in Seq(SocketState) /\ DOMAIN other = DOMAIN list
      /\ \A k \in DOMAIN list : other[k].pid = list[k].pid /\ other[k].gen = list[k].gen
  BY DEF SameSockets
<1> HIDE DEF list, other
<1>3. Numbered(list, room, minted)
  BY DEF list
<1>4. Numbered(other, room', minted)
  BY <1>2, <1>3 DEF Numbered, PeopleStay, Exists
<1>5. QED
  BY <1>4 DEF other

-----------------------------------------------------------------------------
(* Who is there.                                                           *)

\* What a replaced ledger means for the people in it.
LEMMA Replaced ==
    ASSUME NEW people, room' # NoRoom => room'.participants = people, Exists,
           DOMAIN people \subseteq DOMAIN room.participants,
           \A p \in DOMAIN people :
               /\ people[p].generation = room.participants[p].generation
               /\ room.participants[p].connected => people[p].connected
    PROVE  PeopleStay /\ NobodyDrops
BY DEF PeopleStay, NobodyDrops

\* Commands close no one's presence: whoever is not taken out stays.
LEMMA CommandsDropNobody ==
    ASSUME Agreed, NEW k, Command(k)
    PROVE  PeopleStay /\ NobodyDrops /\ minted' = minted
<1>1. Exists /\ IsRoom(room) /\ IsPeople(room.participants)
  BY DEF Command, UpdateConfig, RandomizeNow, RandomizeAtStart, StartDraft, QueuePick, Leave,
         RemoveParticipant, MoveParticipant, InLobby, Member, Agreed, Kept, Exists, IsRoom
<1>2. minted' = minted
  BY DEF Command, UpdateConfig, RandomizeNow, RandomizeAtStart, StartDraft, QueuePick, Leave,
         RemoveParticipant, MoveParticipant, environment
<1> DEFINE people == room.participants
<1>3. ASSUME room'.participants = people
      PROVE  PeopleStay /\ NobodyDrops
  BY <1>1, <1>3, Replaced
<1>4. ASSUME NEW dealt \in Shuffles(people), room'.participants = dealt
      PROVE  PeopleStay /\ NobodyDrops
  <2>1. PICK f : dealt = [p \in DOMAIN people |->
                             IF p \in Seated(people) THEN [people[p] EXCEPT !.seat = f[p]] ELSE people[p]]
    BY DEF Shuffles
  <2>2. ASSUME NEW p \in DOMAIN people
        PROVE  dealt[p].generation = people[p].generation /\ dealt[p].connected = people[p].connected
    <3>1. people[p] \in Participant
      BY <1>1 DEF IsPeople
    <3>2. QED
      BY <2>1, <3>1 DEF Participant
  <2>3. DOMAIN dealt = DOMAIN people
    BY <2>1
  <2>4. QED
    BY <1>1, <1>4, <2>2, <2>3, Replaced
<1>5. CASE UpdateConfig(k) \/ RandomizeAtStart(k)
  <2>1. room'.participants = people
    BY <1>1, <1>5 DEF UpdateConfig, RandomizeAtStart, IsRoom
  <2>2. QED
    BY <1>2, <1>3, <2>1
<1>6. CASE QueuePick(k)
  <2>1. room'.participants = people
    BY <1>1, <1>6 DEF QueuePick, ConfirmationAfter, IsRoom
  <2>2. QED
    BY <1>2, <1>3, <2>1
<1>7. CASE RandomizeNow(k)
  <2>1. PICK dealt \in Shuffles(people) : room'.participants = dealt
    BY <1>1, <1>7 DEF RandomizeNow, IsRoom
  <2>2. QED
    BY <1>2, <1>4, <2>1
<1>8. CASE StartDraft(k)
  <2>1. PICK dealt, draft, deadline :
            /\ dealt \in Shuffles(people) \cup {people}
            /\ room' = [room EXCEPT !.phase = "picking", !.config.shuffle = FALSE,
                                    !.participants = dealt, !.draft = draft, !.deadlineIn = deadline,
                                    !.accelerated = FALSE, !.abandonIn = NoTime]
    BY <1>8 DEF StartDraft
  <2>2. room'.participants = dealt
    BY <1>1, <2>1 DEF IsRoom
  <2>3. QED
    BY <1>2, <1>3, <1>4, <2>1, <2>2
<1>9. ASSUME NEW p, NEW seat, MoveParticipant(k, p, seat)
      PROVE  PeopleStay /\ NobodyDrops
  <2>1. room' = [room EXCEPT !.config.shuffle = FALSE, !.participants = Moved(people, p, seat)]
    BY <1>9 DEF MoveParticipant, Moved
  <2>2. room'.participants = Moved(people, p, seat)
    BY <1>1, <2>1 DEF IsRoom
  <2>3. ASSUME NEW q \in DOMAIN people
        PROVE  /\ Moved(people, p, seat)[q].generation = people[q].generation
               /\ Moved(people, p, seat)[q].connected = people[q].connected
    <3>1. people[q] \in Participant
      BY <1>1 DEF IsPeople
    <3>2. QED
      BY <3>1 DEF Moved, Participant
  <2>4. DOMAIN Moved(people, p, seat) = DOMAIN people
    BY DEF Moved
  <2>5. QED
    BY <1>1, <2>2, <2>3, <2>4, Replaced
<1>10. ASSUME NEW p, NEW deletesEmpty, Withdraw(p, deletesEmpty)
       PROVE  PeopleStay /\ NobodyDrops
  <2> DEFINE left == [q \in DOMAIN people \ {p} |-> people[q]]
  <2>1. CASE room' = NoRoom
    BY <2>1 DEF PeopleStay, NobodyDrops
  <2>2. CASE room' # NoRoom
    <3>1. PICK abandonIn : room' = [room EXCEPT !.participants = left, !.abandonIn = abandonIn]
      BY <1>10, <2>2, ZenonT(60) DEF Withdraw, DeleteRoom
    <3>2. DOMAIN left \subseteq DOMAIN people /\ \A q \in DOMAIN left : left[q] = people[q]
      OBVIOUS
    <3> HIDE DEF left
    <3>3. room'.participants = left
      BY <1>1, <3>1 DEF IsRoom
    <3>4. QED
      BY <1>1, <3>2, <3>3, Replaced
  <2>3. QED
    BY <2>1, <2>2
<1>11. QED
  BY <1>2, <1>5, <1>6, <1>7, <1>8, <1>9, <1>10, ZenonT(60) DEF Command, Leave, RemoveParticipant

\* Commands leave the sockets alone or close some.
LEMMA CommandsCloseSockets ==
    ASSUME sockets \in Seq(SocketState), NEW k, Command(k)
    PROVE  SameSockets(sockets, sockets')
<1>1. CASE sockets' = sockets
  BY <1>1 DEF SameSockets
<1>2. ASSUME NEW p, NEW deletesEmpty, Withdraw(p, deletesEmpty)
      PROVE  SameSockets(sockets, sockets')
  <2>1. /\ DOMAIN sockets' = DOMAIN sockets /\ sockets' = [m \in DOMAIN sockets |-> sockets'[m]]
        /\ \A m \in DOMAIN sockets : sockets'[m] \in {sockets[m], [sockets[m] EXCEPT !.open = FALSE]}
    BY <1>2 DEF Withdraw, DeleteRoom, Closing
  <2>2. QED
    BY <2>1, ClosedSockets
<1>3. QED
  BY <1>1, <1>2 DEF Command, UpdateConfig, RandomizeNow, RandomizeAtStart, StartDraft, QueuePick, Leave,
         RemoveParticipant, MoveParticipant

\* Of the wakes only the sweep takes presence away, and none moves a socket.
LEMMA WakesDropNobody ==
    ASSUME Agreed, sockets \in Seq(SocketState), NEW slot, HandleAlarm(slot)
    PROVE  /\ PeopleStay /\ SameSockets(sockets, sockets')
           /\ NobodyDrops \/ (Exists /\ ReconcileLiveness)
<1>1. CASE ~Exists
  <2>1. room' = room /\ sockets' = sockets
    BY <1>1 DEF HandleAlarm
  <2>2. QED
    BY <1>1, <2>1 DEF PeopleStay, NobodyDrops, SameSockets, Exists
<1>2. CASE Exists
  <2>1. IsRoom(room) /\ IsPeople(room.participants)
    BY <1>2 DEF Agreed, Kept, Exists, IsRoom
  <2>2. CASE room' = room /\ sockets' = sockets
    BY <1>2, <2>2, Replaced DEF SameSockets
  <2>3. CASE (room' = EndReview \/ room' = ClosePick) /\ sockets' = sockets
    <3>1. room'.participants = room.participants
      BY <2>1, <2>3, ZenonT(60) DEF EndReview, ClosePick, IsRoom
    <3>2. QED
      BY <1>2, <2>3, <3>1, Replaced DEF SameSockets
  <2>4. CASE DeleteRoom(slot)
    <3>1. /\ DOMAIN sockets' = DOMAIN sockets /\ sockets' = [m \in DOMAIN sockets |-> sockets'[m]]
          /\ \A m \in DOMAIN sockets : sockets'[m] \in {sockets[m], [sockets[m] EXCEPT !.open = FALSE]}
      BY <2>4 DEF DeleteRoom, Closing
    <3>2. SameSockets(sockets, sockets')
      BY <3>1, ClosedSockets, SMTT(30)
    <3>3. QED
      BY <2>4, <3>2 DEF DeleteRoom, PeopleStay, NobodyDrops
  <2>5. CASE ReconcileLiveness
    <3>1. PICK people \in SweptLedgers(room.participants) :
              room' = [room EXCEPT !.participants = people,
                                   !.abandonIn = IF Connected(people) = {} THEN AbandonTime ELSE NoTime]
      BY <2>5 DEF ReconcileLiveness
    <3>2. PICK absent : people = [p \in DOMAIN room.participants |->
                                     [room.participants[p] EXCEPT !.connected = @ /\ ~absent[p]]]
      BY <3>1 DEF SweptLedgers
    <3>3. ASSUME NEW p \in DOMAIN room.participants
          PROVE  people[p].generation = room.participants[p].generation
      <4>1. room.participants[p] \in Participant
        BY <2>1 DEF IsPeople
      <4>2. QED
        BY <3>2, <4>1 DEF Participant
    <3>4. room'.participants = people /\ DOMAIN people = DOMAIN room.participants
      BY <2>1, <3>1, <3>2 DEF IsRoom
    <3>5. QED
      BY <1>2, <2>5, <3>3, <3>4, ZenonT(60) DEF PeopleStay, SameSockets, ReconcileLiveness
  <2>6. QED
    BY <1>2, <2>2, <2>3, <2>4, <2>5 DEF HandleAlarm, LobbyAlarm, DeadlineAlarm
<1>3. QED
  BY <1>1, <1>2

-----------------------------------------------------------------------------
(* Joining and closing.                                                    *)

\* A joiner's socket gets a number no listed socket of theirs has, and nobody
\* goes absent by it.
LEMMA HelloNumbered ==
    ASSUME Agreed, Numbered(sockets, room, minted), NEW k \in DOMAIN sockets, Hello(k)
    PROVE  Numbered(sockets', room', minted') /\ NobodyDrops
<1>1. PICK p \in Person, claim \in BOOLEAN : HelloReturning(k, p, claim) \/ HelloNew(k, p, claim)
  BY DEF Hello
<1>2. Exists /\ IsRoom(room) /\ IsPeople(room.participants) /\ sockets[k].pid = Nobody
  BY <1>1 DEF HelloReturning, HelloNew, Attached, Agreed, Kept, Exists, IsRoom
<1> DEFINE before == room.participants
           list == sockets
<1>3. PICK participant, draft :
          /\ participant \in Participant
          /\ Admit(k, p, participant, claim, draft) /\ participant.connected
          /\ \A m \in DOMAIN list : list[m].pid = p => list[m].gen < participant.generation
          /\ minted' = minted \cup {p}
  <2>1. CASE HelloReturning(k, p, claim)
    <3> DEFINE participant ==
                   [before[p] EXCEPT !.host = @ \/ claim, !.connected = TRUE, !.generation = @ + 1]
    <3>1. p \in DOMAIN before /\ before[p] \in Participant
      BY <1>2, <2>1 DEF HelloReturning, IsPeople
    <3>2. participant \in Participant /\ participant.connected
          /\ participant.generation = before[p].generation + 1 /\ before[p].generation \in Int
      <4>1. (before[p].host \/ claim) \in BOOLEAN /\ before[p].generation + 1 \in 1..MaxGeneration
        BY <2>1, <3>1, Times DEF Participant, HelloReturning
      <4>2. participant \in Participant
        BY <3>1, <4>1, Readmitted
      <4>3. before[p].generation \in Int
        BY <3>1, Times DEF Participant
      <4>4. /\ participant.generation = before[p].generation + 1
            /\ participant.connected
        BY <3>1 DEF Participant
      <4>5. QED
        BY <4>2, <4>3, <4>4
    <3> HIDE DEF participant
    <3>3. \A m \in DOMAIN list : list[m].pid = p => list[m].gen < participant.generation
      <4>1. ASSUME NEW m \in DOMAIN list, list[m].pid = p
            PROVE  list[m].gen \in Int /\ list[m].gen <= before[p].generation
        <5>1. list[m] \in SocketState
          BY DEF Numbered
        <5>2. QED
          BY <1>2, <3>1, <4>1, <5>1 DEF Numbered, Exists, SocketState
      <4>2. QED
        BY <3>2, <4>1
    <3>4. Admit(k, p, participant, claim, SeatPresence(room.draft, p, TRUE))
      BY <2>1 DEF HelloReturning, participant
    <3>5. minted' = minted \cup {p}
      BY <1>2, <2>1, <3>1 DEF HelloReturning, environment, Numbered, Exists
    <3>6. QED
      BY <3>2, <3>3, <3>4, <3>5
  <2>2. CASE HelloNew(k, p, claim)
    <3> DEFINE participant == [host |-> claim, connected |-> TRUE, generation |-> 1,
                               seat |-> LowestFreeSeat(before)]
    <3>1. participant \in Participant /\ participant.connected
      BY LowestFree, Times DEF Participant
    <3>2. Admit(k, p, participant, claim, room.draft)
      BY <2>2 DEF HelloNew
    <3> HIDE DEF participant
    <3>3. p \notin minted /\ p # Nobody /\ minted' = minted \cup {p}
      BY <2>2, NobodyIsNobody DEF HelloNew
    <3>4. \A m \in DOMAIN list : list[m].pid # p
      BY <3>3 DEF Numbered
    <3>5. QED
      BY <3>1, <3>2, <3>3, <3>4
  <2>3. QED
    BY <1>1, <2>1, <2>2
<1> DEFINE after == room'.participants
           other == sockets'
           g == participant.generation
<1>4. /\ after = [q \in DOMAIN before \cup {p} |-> IF q = p THEN participant ELSE before[q]]
      /\ room' # NoRoom
  <2>1. after = [q \in DOMAIN before \cup {p} |-> IF q = p THEN participant ELSE before[q]]
        /\ room'.phase = room.phase
    BY <1>2, <1>3 DEF Admit, IsRoom
  <2>2. QED
    BY <1>2, <2>1, PhaseTells DEF IsRoom
<1>5. g \in 0..MaxGeneration /\ g \in Int /\ p # Nobody
  BY <1>3, NobodyIsNobody, Times DEF Participant
<1>6. /\ list \in Seq(SocketState) /\ DOMAIN list = 1 .. Len(list) /\ Len(list) \in Nat
      /\ \A m \in DOMAIN list : list[m] \in SocketState
  BY DEF Numbered
<1>7. /\ DOMAIN other = DOMAIN list /\ other \in Seq(SocketState)
      /\ other[k].pid = p /\ other[k].gen = g
      /\ \A m \in DOMAIN list \ {k} : other[m].pid = list[m].pid /\ other[m].gen = list[m].gen
  <2> DEFINE closed == Closing(sockets, LAMBDA s : s.pid = p /\ s.gen < participant.generation)
  <2>1. closed = [m \in DOMAIN list |->
                     IF list[m].pid = p /\ list[m].gen < participant.generation
                     THEN [list[m] EXCEPT !.open = FALSE] ELSE list[m]]
    BY DEF Closing
  <2>2. other = [closed EXCEPT ![k] = [@ EXCEPT !.pid = p, !.gen = g]]
    BY <1>3 DEF Admit
  <2> HIDE DEF closed
  <2>3. DOMAIN closed = DOMAIN list
        /\ closed = [m \in DOMAIN list |-> closed[m]]
        /\ \A m \in DOMAIN list : closed[m] \in {list[m], [list[m] EXCEPT !.open = FALSE]}
    BY <2>1
  <2>4. SameSockets(list, closed)
    BY <1>6, <2>3, ClosedSockets
  <2>5. closed[k] \in SocketState
    BY <1>6, <2>4 DEF SameSockets
  <2> DEFINE admitted == [closed[k] EXCEPT !.pid = p, !.gen = g]
  <2>6. admitted \in SocketState /\ admitted.pid = p /\ admitted.gen = g
    <3>1. admitted = [closed[k] EXCEPT !.pid = p, !.gen = g]
      OBVIOUS
    <3> HIDE DEF admitted, g
    <3>2. QED
      BY <1>5, <2>5, <3>1 DEF SocketState
  <2>7. DOMAIN other = DOMAIN closed
        /\ \A m \in DOMAIN closed : other[m] = IF m = k THEN admitted ELSE closed[m]
    BY <2>2, <2>3
  <2> HIDE DEF admitted
  <2>8. other \in Seq(SocketState)
    <3>1. \A m \in DOMAIN list : other[m] \in SocketState
      BY <1>6, <2>4, <2>6, <2>7 DEF SameSockets
    <3>2. other \in [1 .. Len(list) -> SocketState]
      BY <1>6, <2>2, <2>3, <3>1
    <3>3. QED
      BY <1>6, <3>2
  <2>9. other[k].pid = p /\ other[k].gen = g
    BY <2>3, <2>6, <2>7
  <2>10. QED
    BY <2>4, <2>7, <2>8, <2>9 DEF SameSockets
<1>8. /\ \A m \in DOMAIN list : list[m].pid # Nobody => list[m].pid \in minted
      /\ DOMAIN before \subseteq minted
      /\ \A m \in DOMAIN list :
             list[m].pid \in DOMAIN before => list[m].gen <= before[list[m].pid].generation
      /\ \A m, l \in DOMAIN list :
             m # l /\ list[m].pid # Nobody /\ list[m].pid = list[l].pid => list[m].gen # list[l].gen
  BY <1>2 DEF Numbered, Exists
<1>9. /\ \A m \in DOMAIN list : list[m].gen \in Int
      /\ \A m \in DOMAIN list : list[m].pid = p => list[m].gen < g
      /\ minted' = minted \cup {p}
  BY <1>3, <1>6 DEF SocketState
<1> HIDE DEF before, list, after, other, g
<1>10. /\ DOMAIN after = DOMAIN before \cup {p}
       /\ after[p].generation = g
       /\ \A q \in DOMAIN before \ {p} : after[q] = before[q]
  BY <1>4 DEF g
<1>11. \A m \in DOMAIN other : other[m].pid # Nobody => other[m].pid \in minted'
  BY <1>7, <1>8, <1>9
<1>12. \A m \in DOMAIN other :
           other[m].pid \in DOMAIN after => other[m].gen <= after[other[m].pid].generation
  BY <1>5, <1>7, <1>8, <1>9, <1>10
<1>13. \A m, l \in DOMAIN other :
           m # l /\ other[m].pid # Nobody /\ other[m].pid = other[l].pid => other[m].gen # other[l].gen
  BY <1>5, <1>7, <1>8, <1>9
<1>14. DOMAIN after \subseteq minted' /\ minted' \subseteq Person
  BY <1>8, <1>9, <1>10 DEF Numbered
<1>15. Numbered(other, room', minted')
  BY <1>7, <1>11, <1>12, <1>13, <1>14 DEF Numbered, after
<1>16. NobodyDrops
  BY <1>3, <1>4 DEF NobodyDrops, before, after
<1>17. QED
  BY <1>15, <1>16 DEF other

\* Nobody's absence but with a cause: their socket is gone, or an old one is
\* listed still.
HasCause ==
    Exists /\ room' # NoRoom =>
        \A p \in DOMAIN room.participants \cap DOMAIN room'.participants :
            LET generation == room'.participants[p].generation
            IN  (room.participants[p].connected /\ ~room'.participants[p].connected)
                    => \/ generation \notin Listed(p, sockets')
                       \/ sockets' = sockets /\ Listed(p, sockets) # {generation}

\* A step in which nobody drops needs no cause.
LEMMA DropsNeedCauses == NobodyDrops => HasCause
BY DEF NobodyDrops, HasCause

\* A closed socket is gone, and with it the only one of its number.
LEMMA ClosedNumbered ==
    ASSUME Agreed, Numbered(sockets, room, minted), NEW k \in DOMAIN sockets, SocketClosed(k)
    PROVE  Numbered(sockets', room', minted') /\ HasCause
<1> DEFINE list == sockets
           other == sockets'
<1>1. /\ list \in Seq(SocketState) /\ DOMAIN list = 1 .. Len(list) /\ Len(list) \in Nat /\ k \in 1 .. Len(list)
      /\ minted' = minted
  BY DEF Numbered, SocketClosed, environment
<1>2. /\ other \in Seq(SocketState) /\ DOMAIN other = 1 .. Len(list)-1
      /\ \A m \in DOMAIN other : other[m] = IF m < k THEN list[m] ELSE list[m+1]
  BY <1>1, WithoutSocket DEF SocketClosed
<1> DEFINE old(m) == IF m < k THEN m ELSE m+1
<1>3. /\ \A m \in DOMAIN other : old(m) \in DOMAIN list \ {k} /\ other[m] = list[old(m)]
      /\ \A m, l \in DOMAIN other : m # l => old(m) # old(l)
  BY <1>1, <1>2
<1>4. CASE SpeaksForIdentity(k)
  <2> DEFINE p == Self(k)
             people == [room.participants EXCEPT ![p].connected = FALSE]
  <2>1. /\ Exists /\ p \in DOMAIN room.participants /\ NoteAbsence(p) /\ p = list[k].pid /\ p # Nobody
        /\ list[k].gen = room.participants[p].generation
    BY <1>4 DEF SpeaksForIdentity, Member, Attached, Self, SocketClosed
  <2>2. IsRoom(room) /\ IsPeople(room.participants)
    BY <2>1 DEF Agreed, Kept, Exists, IsRoom
  <2> HIDE DEF p
  <2>3. DOMAIN people = DOMAIN room.participants /\ \A q \in DOMAIN people :
            people[q] = IF q = p THEN [room.participants[q] EXCEPT !.connected = FALSE]
                        ELSE room.participants[q]
    BY <2>1, <2>2 DEF IsPeople
  <2>4. \A q \in DOMAIN people : people[q].generation = room.participants[q].generation
    BY <2>2, <2>3 DEF IsPeople, Participant
  <2> HIDE DEF people
  <2>5. room'.participants = people
    BY <2>1, <2>2 DEF NoteAbsence, ConfirmationAfter, IsRoom, people
  <2>6. Numbered(other, room', minted)
    <3> HIDE DEF list, other, old
    <3>1. Numbered(list, room, minted)
      BY DEF list
    <3>2. /\ DOMAIN people \subseteq minted /\ room # NoRoom
          /\ \A m \in DOMAIN list : list[m].pid \in DOMAIN people => list[m].gen <= people[list[m].pid].generation
      BY <2>1, <2>3, <2>4, <3>1 DEF Numbered, Exists
    <3>3. \A m \in DOMAIN other : other[m].pid \in DOMAIN people => other[m].gen <= people[other[m].pid].generation
      BY <1>3, <3>2
    <3>4. \A m \in DOMAIN other : other[m].pid # Nobody => other[m].pid \in minted
      BY <1>3, <3>1 DEF Numbered
    <3>5. \A m, l \in DOMAIN other :
              m # l /\ other[m].pid # Nobody /\ other[m].pid = other[l].pid => other[m].gen # other[l].gen
      BY <1>3, <3>1 DEF Numbered
    <3>6. QED
      BY <1>2, <2>5, <3>1, <3>2, <3>3, <3>4, <3>5 DEF Numbered
  <2>7. list[k].gen \notin Listed(p, other)
    <3> HIDE DEF list, other, old
    <3>1. Numbered(list, room, minted)
      BY DEF list
    <3>2. \A m \in DOMAIN other : other[m].pid = p => other[m].gen # list[k].gen
      BY <1>1, <1>3, <2>1, <3>1 DEF Numbered
    <3>3. QED
      BY <3>2 DEF Listed
  <2>8. HasCause
    BY <2>1, <2>3, <2>4, <2>5, <2>7 DEF HasCause
  <2>9. QED
    BY <1>1, <2>6, <2>8
<1>5. CASE ~SpeaksForIdentity(k)
  <2>1. room' = room
    BY <1>5 DEF SocketClosed
  <2>2. Numbered(other, room, minted)
    <3> HIDE DEF list, other, old
    <3>1. Numbered(list, room, minted)
      BY DEF list
    <3>2. QED
      BY <1>2, <1>3, <3>1 DEF Numbered
  <2>3. HasCause
    BY <2>1 DEF HasCause
  <2>4. QED
    BY <1>1, <2>1, <2>2, <2>3
<1>6. QED
  BY <1>4, <1>5

\* Whom the sweep finds absent has no socket, or an old one, listed.
LEMMA SweptHaveCause ==
    ASSUME Agreed, Exists, ReconcileLiveness
    PROVE  HasCause
<1>1. IsRoom(room) /\ IsPeople(room.participants)
  BY DEF Agreed, Kept, Exists, IsRoom
<1>2. PICK people \in SweptLedgers(room.participants) :
          room' = [room EXCEPT !.participants = people,
                               !.abandonIn = IF Connected(people) = {} THEN AbandonTime ELSE NoTime]
  BY DEF ReconcileLiveness
<1>3. PICK absent \in [DOMAIN room.participants -> BOOLEAN] :
          /\ \A p \in DOMAIN room.participants :
                 absent[p] \in {g # room.participants[p].generation : g \in ListedGenerations(p)}
          /\ people = [p \in DOMAIN room.participants |->
                          [room.participants[p] EXCEPT !.connected = @ /\ ~absent[p]]]
  BY <1>2 DEF SweptLedgers
<1>4. room'.participants = people /\ sockets' = sockets
  BY <1>1, <1>2 DEF IsRoom, ReconcileLiveness
<1>5. ASSUME NEW p \in DOMAIN room.participants, room.participants[p].connected, ~people[p].connected
      PROVE  people[p].generation \notin Listed(p, sockets) \/ Listed(p, sockets) # {people[p].generation}
  <2>1. room.participants[p] \in Participant
    BY <1>1 DEF IsPeople
  <2>2. people[p] = [room.participants[p] EXCEPT !.connected = room.participants[p].connected /\ ~absent[p]]
    BY <1>3
  <2>3. absent[p] /\ people[p].generation = room.participants[p].generation
    <3>1. people[p].connected = (room.participants[p].connected /\ ~absent[p])
      BY <2>1, <2>2 DEF Participant
    <3>2. people[p].generation = room.participants[p].generation
      BY <2>1, <2>2 DEF Participant
    <3>3. QED
      BY <1>5, <3>1, <3>2
  <2>4. PICK g \in ListedGenerations(p) : g # room.participants[p].generation
    BY <1>3, <2>3
  <2>5. ListedGenerations(p) = IF Listed(p, sockets) = {} THEN {0} ELSE Listed(p, sockets)
    BY DEF ListedGenerations, Listed
  <2>6. QED
    BY <2>3, <2>4, <2>5
<1>6. QED
  BY <1>3, <1>4, <1>5 DEF HasCause

-----------------------------------------------------------------------------

\* Every socket has its number, in every state.
InOrder == Numbered(sockets, room, minted)

\* Each handler keeps the numbers, and gives every absence its cause.
LEMMA StepInOrder ==
    ASSUME Agreed, InOrder, [Next]_vars
    PROVE  InOrder' /\ HasCause
<1> USE DEF InOrder
<1>1. sockets \in Seq(SocketState)
  BY DEF Numbered
<1>2. ASSUME room' = room PROVE PeopleStay /\ NobodyDrops
  <2>1. CASE Exists
    BY <1>2, <2>1, Replaced
  <2>2. CASE ~Exists
    BY <1>2, <2>2 DEF PeopleStay, NobodyDrops, Exists
  <2>3. QED
    BY <2>1, <2>2
<1>3. CASE UNCHANGED vars
  BY <1>1, <1>2, <1>3, SocketsStayNumbered, DropsNeedCauses DEF vars, SameSockets
<1>4. CASE Initialize
  <2>1. room'.participants = [p \in {} |-> 0] /\ ~Exists /\ sockets' = sockets /\ minted' = minted
    BY <1>4 DEF Initialize
  <2>2. QED
    BY <2>1 DEF Numbered, HasCause
<1>5. CASE Accept
  <2> DEFINE s == [pid |-> Nobody, gen |-> 0, open |-> TRUE]
             list == sockets
             other == Append(list, s)
  <2>1. s \in SocketState /\ s.pid = Nobody
    BY Times DEF SocketState
  <2> HIDE DEF s
  <2>2. /\ other \in Seq(SocketState) /\ DOMAIN other = 1 .. Len(list)+1 /\ other[Len(list)+1] = s
        /\ DOMAIN list = 1 .. Len(list) /\ Len(list) \in Nat
        /\ \A m \in DOMAIN list : other[m] = list[m]
    BY <1>1, <2>1
  <2>3. sockets' = other /\ room' = room /\ minted' = minted /\ Exists
    BY <1>5 DEF Accept, environment, s
  <2> HIDE DEF other
  <2>4. Nobody \notin DOMAIN room.participants /\ room # NoRoom
    BY <2>3, NobodyIsNobody DEF Numbered, Exists
  <2>5. Numbered(other, room, minted)
    <3> HIDE DEF list
    <3>1. Numbered(list, room, minted)
      BY DEF list
    <3>2. QED
      BY <2>1, <2>2, <2>4, <3>1, SMTT(30) DEF Numbered
  <2>6. QED
    BY <1>2, <2>3, <2>5, DropsNeedCauses
<1>6. ASSUME NEW k \in DOMAIN sockets, TurnAway(k) \/ Hello(k) \/ Command(k) \/ SocketClosed(k)
      PROVE  InOrder' /\ HasCause
  <2>1. CASE TurnAway(k)
    <3>1. /\ DOMAIN sockets' = DOMAIN sockets /\ sockets' = [m \in DOMAIN sockets |-> sockets'[m]]
          /\ \A m \in DOMAIN sockets : sockets'[m] \in {sockets[m], [sockets[m] EXCEPT !.open = FALSE]}
      BY <1>1, <2>1 DEF TurnAway
    <3>2. SameSockets(sockets, sockets')
      BY <1>1, <3>1, ClosedSockets
    <3>3. QED
      BY <1>2, <2>1, <3>2, SocketsStayNumbered, DropsNeedCauses DEF TurnAway, environment
  <2>2. CASE Hello(k)
    BY <2>2, HelloNumbered, DropsNeedCauses
  <2>3. CASE Command(k)
    BY <1>1, <2>3, CommandsDropNobody, CommandsCloseSockets, SocketsStayNumbered, DropsNeedCauses
  <2>4. CASE SocketClosed(k)
    BY <2>4, ClosedNumbered
  <2>5. QED
    BY <1>6, <2>1, <2>2, <2>3, <2>4
<1>7. CASE Wake \/ RedeliverWake
  <2>1. PICK slot : HandleAlarm(slot)
    BY <1>7 DEF Wake, RedeliverWake
  <2>2. minted' = minted
    BY <1>7 DEF Wake, RedeliverWake
  <2>3. QED
    BY <1>1, <2>1, <2>2, WakesDropNobody, SocketsStayNumbered, SweptHaveCause, DropsNeedCauses
<1>8. CASE Tick
  <2>1. sockets' = sockets /\ minted' = minted
    BY <1>8 DEF Tick, environment
  <2>2. PeopleStay /\ NobodyDrops
    <3>1. CASE Exists
      <4>1. IsRoom(room)
        BY <3>1 DEF Agreed, Kept, Exists
      <4>2. room'.participants = room.participants
        BY <1>8, <3>1, <4>1 DEF Tick, IsRoom
      <4>3. QED
        BY <3>1, <4>2, Replaced
    <3>2. CASE ~Exists
      BY <1>2, <1>8, <3>2 DEF Tick
    <3>3. QED
      BY <3>1, <3>2
  <2>3. QED
    BY <1>1, <2>1, <2>2, SocketsStayNumbered, DropsNeedCauses DEF SameSockets
<1>9. CASE Deploy
  <2>1. sockets' = <<>> /\ room' = room /\ minted' = minted
    BY <1>9 DEF Deploy
  <2>2. <<>> \in Seq(SocketState) /\ DOMAIN <<>> = {}
    OBVIOUS
  <2>3. QED
    BY <1>2, <2>1, <2>2, DropsNeedCauses DEF Numbered
<1>10. QED
  BY <1>3, <1>4, <1>5, <1>6, <1>7, <1>8, <1>9 DEF Next

(* No two listed sockets carry one identity and generation, and none is    *)
(* ahead of the ledger.                                                    *)
THEOREM AlwaysInOrder == Spec => []InOrder
<1>1. Init => InOrder
  BY DEF Init, InOrder, Numbered
<1>2. Agreed /\ InOrder /\ [Next]_vars => InOrder'
  BY StepInOrder
<1>3. QED
  BY <1>1, <1>2, AlwaysKept, PTL DEF Spec

(* Nobody goes from connected to absent while the socket of their current  *)
(* connection is listed, however late superseded sockets close and however *)
(* many are listed still; only the sweep, which leaves the list as it is,  *)
(* may be misled, by an old socket of the same person.                     *)
THEOREM AbsenceAlwaysHasCause == Spec => AbsenceHasCause
<1>1. Agreed /\ InOrder /\ [Next]_vars =>
          [ Exists /\ room' # NoRoom =>
                \A p \in DOMAIN room.participants \cap DOMAIN room'.participants :
                    LET generation == room'.participants[p].generation
                    IN  (room.participants[p].connected /\ ~room'.participants[p].connected)
                            => \/ generation \notin Listed(p, sockets')
                               \/ sockets' = sockets /\ Listed(p, sockets) # {generation} ]_vars
  BY StepInOrder DEF HasCause
<1>2. QED
  BY <1>1, AlwaysKept, AlwaysInOrder, PTL DEF Spec, AbsenceHasCause

(* The snapshot, the sockets and the alarm slot keep their declared shapes *)
(* in every phase.                                                         *)
THEOREM AlwaysTyped == Spec => []TypeOK
<1>1. Agreed /\ InOrder => TypeOK
  <2> SUFFICES ASSUME Agreed, InOrder PROVE TypeOK
    OBVIOUS
  <2>1. alarm \in Countdown /\ minted \subseteq Person /\ sockets \in Seq(SocketState)
    BY DEF Agreed, Kept, InOrder, Numbered
  <2>2. \A k \in DOMAIN sockets : sockets[k] \in SocketState
    BY <2>1
  <2>3. CASE Exists
    <3>1. IsRoom(room) /\ DOMAIN room.participants \subseteq minted
      BY <2>3 DEF Agreed, Kept, InOrder, Numbered, Exists
    <3>2. (room.draft = NoDraft) <=> (Phase = "lobby")
      BY <3>1 DEF IsRoom, IsDraft, NoDraft, Phase
    <3>3. (Started /\ Progress!Picking(room.draft)) <=> (Phase \in {"picking", "review"})
      BY <3>1 DEF IsRoom, Started, Phase, Progress!Picking
    <3>4. QED
      BY <2>1, <2>2, <3>1, <3>2, <3>3 DEF TypeOK, SocketState, IsRoom, IsPeople, Options, Phase
  <2>4. CASE ~Exists
    BY <2>1, <2>2, <2>4 DEF TypeOK, SocketState
  <2>5. QED
    BY <2>3, <2>4
<1>2. QED
  BY <1>1, AlwaysKept, AlwaysInOrder, PTL

-----------------------------------------------------------------------------
(* The ring and the ledger.                                                *)

IsHuman(g, i) == g.seats[i].controller = "human"

\* A seat somebody of the room holds, as present as the ledger says, and one a
\* bot holds that has queued.
HumanSeat(g, people, i) ==
    /\ g.seats[i].controller = "human"
    /\ g.seats[i].occupantId \in DOMAIN people
    /\ g.seats[i].connected = people[g.seats[i].occupantId].connected

BotSeat(g, i) ==
    /\ g.seats[i].controller = "bot" /\ g.seats[i].occupantId \in Bots
    /\ g.seats[i].connected = TRUE

Mirrors(g, people) ==
    /\ \A i \in DOMAIN g.seats : HumanSeat(g, people, i) \/ (BotSeat(g, i) /\ i \in g.queued)
    /\ \A i, j \in DOMAIN g.seats :
           i # j /\ IsHuman(g, i) /\ IsHuman(g, j) => g.seats[i].occupantId # g.seats[j].occupantId

Running(r) == r # NoRoom /\ r.phase \in {"picking", "review"}

-----------------------------------------------------------------------------
(* The ranks of the people seated.                                         *)

\* The people seated are as few as the positions.
LEMMA FinitelySeated ==
    ASSUME NEW people, IsPeople(people), Apart(people)
    PROVE  IsFiniteSet(Seated(people)) /\ Cardinality(Seated(people)) \in Nat
<1> DEFINE f == [p \in Seated(people) |-> people[p].seat]
<1>1. f \in [Seated(people) -> Position]
  BY DEF IsPeople, Participant, Seated
<1>2. \A p, q \in Seated(people) : f[p] = f[q] => p = q
  BY DEF Apart, Seated
<1>3. f \in Injection(Seated(people), Position)
  BY <1>1, <1>2, Fun_IsInj
<1>4. IsFiniteSet(Position)
  <2>1. 0 \in Int /\ LobbySeatCount - 1 \in Int
    BY RoomAssumption
  <2>2. IsFiniteSet(0 .. LobbySeatCount - 1)
    BY <2>1, FS_Interval
  <2>3. QED
    BY <2>2 DEF Position
<1>5. QED
  BY <1>3, <1>4, FS_Injection, FS_CardinalityType

\* Whom the ranks count.
LEMMA RankOrder ==
    ASSUME NEW people, IsPeople(people), Apart(people),
           NEW p \in Seated(people), NEW q \in Seated(people), p # q
    PROVE  RingIndex(people, p) # RingIndex(people, q)
<1> DEFINE below(x) == {y \in Seated(people) : people[y].seat < people[x].seat}
<1>1. people[p].seat \in Nat /\ people[q].seat \in Nat /\ people[p].seat # people[q].seat
  BY DEF IsPeople, Participant, Seated, Position, Apart
<1>2. ASSUME NEW x \in Seated(people), NEW y \in Seated(people), people[x].seat < people[y].seat
      PROVE  Cardinality(below(x)) # Cardinality(below(y))
  <2>1. \A z \in Seated(people) : people[z].seat \in Int
    BY DEF IsPeople, Participant, Seated, Position
  <2>2. below(x) \subseteq below(y) /\ x \in below(y) /\ x \notin below(x)
    BY <1>2, <2>1
  <2>3. IsFiniteSet(below(y))
    BY FinitelySeated, FS_Subset
  <2> HIDE DEF below
  <2>4. QED
    BY <2>2, <2>3, FS_Subset
<1>3. QED
  BY <1>1, <1>2 DEF RingIndex

\* Every rank below their number is somebody's.
LEMMA RankFound ==
    ASSUME NEW people, IsPeople(people), Apart(people),
           NEW i \in 0 .. Cardinality(Seated(people))-1
    PROVE  AtRing(people, i) \in Seated(people) /\ RingIndex(people, AtRing(people, i)) = i
<1> DEFINE n == Cardinality(Seated(people))
           rank == [p \in Seated(people) |-> RingIndex(people, p)]
<1>1. IsFiniteSet(Seated(people)) /\ n \in Nat
  BY FinitelySeated
<1>2. ASSUME NEW p \in Seated(people)
      PROVE  RingIndex(people, p) \in 0 .. n-1
  <2> DEFINE below == {q \in Seated(people) : people[q].seat < people[p].seat}
  <2>1. below \subseteq Seated(people) /\ p \notin below
    BY DEF IsPeople, Participant, Seated, Position
  <2> HIDE DEF below
  <2>2. IsFiniteSet(below) /\ Cardinality(below) <= n /\ Cardinality(below) # n
    BY <1>1, <1>2, <2>1, FS_Subset
  <2>3. Cardinality(below) \in Nat
    BY <2>2, FS_CardinalityType
  <2>4. QED
    BY <1>1, <2>2, <2>3 DEF RingIndex, below
<1>3. rank \in [Seated(people) -> 0 .. n-1]
  BY <1>2
<1>4. \A p, q \in Seated(people) : rank[p] = rank[q] => p = q
  BY RankOrder
<1>5. rank \in Injection(Seated(people), 0 .. n-1)
  BY <1>3, <1>4, Fun_IsInj
<1>6. IsFiniteSet(0 .. n-1) /\ Cardinality(0 .. n-1) = n
  BY <1>1, FS_Interval
<1>7. rank \in Surjection(Seated(people), 0 .. n-1)
  BY <1>5, <1>6, FS_Injection
<1>8. PICK p \in Seated(people) : rank[p] = i
  BY <1>7 DEF Surjection
<1>9. RingIndex(people, p) = i
  BY <1>8
<1>10. QED
  BY <1>9 DEF AtRing

-----------------------------------------------------------------------------
(* The ring and the ledger, step by step.                                  *)

\* Bots that are seated queue.
LEMMA BotsQueue ==
    ASSUME NEW g, IsDraft(g), NEW people,
           \A i \in DOMAIN g.seats : HumanSeat(g, people, i) \/ BotSeat(g, i),
           \A i, j \in DOMAIN g.seats :
               i # j /\ IsHuman(g, i) /\ IsHuman(g, j) => g.seats[i].occupantId # g.seats[j].occupantId
    PROVE  Mirrors(Progress!WithBotsQueued(g), people)
<1> DEFINE h == Progress!WithBotsQueued(g)
<1>1. h.seats = g.seats /\ h.queued = g.queued \cup Progress!WaitingBots(g)
  BY DEF Progress!WithBotsQueued, IsDraft
<1>2. ASSUME NEW i \in DOMAIN g.seats, BotSeat(g, i)
      PROVE  i \in h.queued
  <2>1. g.seats[i].occupantId # Nobody
    BY <1>2, BotsAssumption DEF BotSeat
  <2>2. QED
    BY <1>1, <1>2, <2>1 DEF BotSeat, Progress!WaitingBots
<1> HIDE DEF h
<1>3. \A i \in DOMAIN h.seats : HumanSeat(h, people, i) \/ (BotSeat(h, i) /\ i \in h.queued)
  BY <1>1, <1>2 DEF HumanSeat, BotSeat
<1>4. Mirrors(h, people)
  BY <1>1, <1>3 DEF Mirrors, IsHuman
<1>5. QED
  BY <1>4 DEF h

\* The start seats everybody once, in the order of their positions.
LEMMA StartMirrors ==
    ASSUME NEW people, IsPeople(people), Apart(people), NEW bots
    PROVE  Mirrors(Progress!WithBotsQueued(Progress!Start(SeatSetup(people, bots))), people)
<1> DEFINE humans == Cardinality(Seated(people))
           seats == SeatSetup(people, bots)
           g == Progress!Start(seats)
<1>1. humans \in Nat
  BY FinitelySeated
<1>2. g = [status |-> "picking", round |-> 1, pick |-> 1, seats |-> seats, queued |-> {}]
  BY DEF Progress!Start
<1>3. IsRing(seats)
  BY DEF SeatSetup, IsRing
<1>4. DOMAIN seats = 0 .. (IF bots THEN LobbySeatCount ELSE humans)-1
  BY DEF SeatSetup
<1>5. ASSUME NEW i \in DOMAIN seats
      PROVE  /\ i < humans =>
                 /\ seats[i] = [controller |-> "human", occupantId |-> AtRing(people, i),
                                connected |-> people[AtRing(people, i)].connected]
                 /\ AtRing(people, i) \in Seated(people) /\ RingIndex(people, AtRing(people, i)) = i
             /\ ~(i < humans) =>
                 /\ seats[i] = [controller |-> "bot", occupantId |-> <<"bot", i>>, connected |-> TRUE]
                 /\ i \in Position
  <2>1. i \in Nat
    BY <1>1, <1>4, RoomAssumption
  <2>2. seats[i] = IF i < humans
                   THEN [controller |-> "human", occupantId |-> AtRing(people, i),
                         connected |-> people[AtRing(people, i)].connected]
                   ELSE [controller |-> "bot", occupantId |-> <<"bot", i>>, connected |-> TRUE]
    BY <1>5 DEF SeatSetup
  <2>3. CASE i < humans
    <3>1. i \in 0 .. humans-1
      BY <1>1, <2>1, <2>3
    <3>2. QED
      BY <2>2, <2>3, <3>1, RankFound
  <2>4. CASE ~(i < humans)
    <3>1. i \in Position
      BY <1>1, <1>4, <2>1, <2>4, RoomAssumption DEF Position
    <3>2. QED
      BY <2>2, <2>4, <3>1
  <2>5. QED
    BY <2>3, <2>4
<1> HIDE DEF seats, humans
<1>6. IsDraft(g) /\ g.seats = seats
  BY <1>2, <1>3, Times DEF IsDraft
<1>7. ASSUME NEW i \in DOMAIN seats
      PROVE  HumanSeat(g, people, i) \/ BotSeat(g, i)
  <2>1. CASE i < humans
    <3>1. AtRing(people, i) \in DOMAIN people
      BY <1>5, <2>1 DEF Seated
    <3>2. QED
      BY <1>5, <1>6, <2>1, <3>1 DEF HumanSeat
  <2>2. CASE ~(i < humans)
    <3>1. <<"bot", i>> \in Bots
      BY <1>5, <2>2 DEF Bots
    <3>2. QED
      BY <1>5, <1>6, <2>2, <3>1 DEF BotSeat
  <2>3. QED
    BY <2>1, <2>2
<1>8. ASSUME NEW i \in DOMAIN seats, NEW j \in DOMAIN seats, i # j, IsHuman(g, i), IsHuman(g, j)
      PROVE  seats[i].occupantId # seats[j].occupantId
  <2>1. i < humans /\ j < humans
    BY <1>5, <1>6, <1>8 DEF IsHuman
  <2>2. QED
    BY <1>5, <1>8, <2>1
<1> HIDE DEF g
<1>9. Mirrors(Progress!WithBotsQueued(g), people)
  BY <1>6, <1>7, <1>8, BotsQueue
<1>10. QED
  BY <1>9 DEF g, seats

\* The seat a person holds is theirs alone, so that noting their presence in
\* one place and the other keeps the two alike.
LEMMA PresenceMirrors ==
    ASSUME NEW g, IsDraft(g), g.status = "picking", NEW people, Mirrors(g, people),
           NEW p \in Person, NEW connected, NEW after,
           DOMAIN people \subseteq DOMAIN after, after[p].connected = connected,
           \A q \in DOMAIN people \ {p} : after[q].connected = people[q].connected
    PROVE  Mirrors(SeatPresence(g, p, connected), after)
<1> DEFINE held == SeatsOf(g, p)
<1>1. held = {i \in DOMAIN g.seats : g.seats[i].occupantId = p}
  BY DEF SeatsOf
<1>2. p \notin Bots
  BY BotsAssumption
<1>3. \A i \in held : IsHuman(g, i) /\ HumanSeat(g, people, i)
  BY <1>1, <1>2 DEF Mirrors, BotSeat, HumanSeat, IsHuman
<1> HIDE DEF held
<1>4. CASE held = {}
  <2>1. SeatPresence(g, p, connected) = g
    BY <1>4 DEF SeatPresence, held
  <2>2. \A i \in DOMAIN g.seats : g.seats[i].occupantId # p
    BY <1>1, <1>4
  <2>3. QED
    BY <2>1, <2>2 DEF Mirrors, HumanSeat, BotSeat, IsHuman
<1>5. CASE held # {}
  <2> DEFINE i == CHOOSE j \in held : TRUE
             seats == [g.seats EXCEPT ![i].connected = connected]
             h == SeatPresence(g, p, connected)
  <2>1. i \in held
    BY <1>5
  <2>2. h = [g EXCEPT !.seats = seats]
    BY <1>5 DEF SeatPresence, Progress!WithPresence, held
  <2> HIDE DEF i
  <2>3. DOMAIN seats = DOMAIN g.seats /\ \A j \in DOMAIN g.seats :
            seats[j] = IF j = i THEN [g.seats[j] EXCEPT !.connected = connected] ELSE g.seats[j]
    BY DEF IsDraft, IsRing
  <2>4. /\ seats[i].controller = g.seats[i].controller /\ seats[i].occupantId = g.seats[i].occupantId
        /\ seats[i].connected = connected
    <3>1. i \in DOMAIN g.seats
      BY <1>1, <2>1
    <3>2. PICK controller, occupant, there :
              g.seats[i] = [controller |-> controller, occupantId |-> occupant, connected |-> there]
      BY <3>1 DEF IsDraft, IsRing
    <3>3. [g.seats[i] EXCEPT !.connected = connected]
              = [controller |-> controller, occupantId |-> occupant, connected |-> connected]
      BY <3>2
    <3>4. QED
      BY <2>3, <3>1, <3>2, <3>3
  <2> HIDE DEF seats, h
  <2>5. h.seats = seats /\ h.queued = g.queued
    BY <2>2 DEF IsDraft
  <2>6. i \in DOMAIN g.seats /\ g.seats[i].occupantId = p /\ IsHuman(g, i) /\ p \in DOMAIN people
    BY <1>1, <1>3, <2>1 DEF HumanSeat
  <2>7. \A j \in DOMAIN g.seats \ {i} : g.seats[j].occupantId # p
    BY <1>1, <1>3, <2>6 DEF Mirrors
  <2>8. ASSUME NEW j \in DOMAIN seats
        PROVE  HumanSeat(h, after, j) \/ (BotSeat(h, j) /\ j \in h.queued)
    <3>1. CASE j = i
      BY <2>4, <2>5, <2>6, <3>1 DEF HumanSeat, IsHuman
    <3>2. CASE j # i
      <4>1. seats[j] = g.seats[j] /\ j \in DOMAIN g.seats /\ g.seats[j].occupantId # p
        BY <2>3, <2>7, <2>8, <3>2
      <4>2. CASE HumanSeat(g, people, j)
        <5>1. g.seats[j].occupantId \in DOMAIN people \ {p}
          BY <4>1, <4>2 DEF HumanSeat
        <5>2. QED
          BY <2>5, <4>1, <4>2, <5>1 DEF HumanSeat
      <4>3. CASE BotSeat(g, j) /\ j \in g.queued
        BY <2>5, <4>1, <4>3 DEF BotSeat
      <4>4. QED
        BY <4>1, <4>2, <4>3 DEF Mirrors
    <3>3. QED
      BY <3>1, <3>2
  <2>9. \A j \in DOMAIN seats : seats[j].controller = g.seats[j].controller
                                /\ seats[j].occupantId = g.seats[j].occupantId
    BY <2>3, <2>4
  <2>10. QED
    BY <2>3, <2>5, <2>8, <2>9 DEF Mirrors, IsHuman, h
<1>6. QED
  BY <1>4, <1>5

\* The strengthened form of RingMirrorsLedger.
Reflected == Running(room) => Mirrors(room.draft, room.participants)

\* A running room, to which the lemmas apply.
LEMMA RunningRoom ==
    ASSUME Agreed, InOrder, Running(room)
    PROVE  /\ Exists /\ IsRoom(room) /\ IsDraft(room.draft) /\ room.draft.status = "picking"
           /\ IsPeople(room.participants) /\ DOMAIN room.participants \subseteq Person /\ Phase # "lobby"
           /\ room.draft # NoDraft /\ room.abandonIn = NoTime
           /\ DOMAIN room.participants \subseteq minted
<1>1. Exists /\ IsRoom(room) /\ Phase # "lobby" /\ Phase \in {"picking", "review"}
  BY DEF Running, Agreed, Kept, Exists, Phase
<1>2. IsDraft(room.draft) /\ room.draft.status = "picking" /\ room.abandonIn = NoTime
      /\ IsPeople(room.participants)
  BY <1>1 DEF IsRoom, Phase
<1>3. room.draft # NoDraft
  BY <1>2 DEF NoDraft
<1>4. DOMAIN room.participants \subseteq minted /\ minted \subseteq Person
  BY <1>1 DEF InOrder, Numbered, Exists
<1>5. QED
  BY <1>1, <1>2, <1>3, <1>4

\* hello marks a returning person there in both, and whom it admits new is in
\* no ring yet.
LEMMA HelloReflected ==
    ASSUME Agreed, InOrder, Reflected, Running(room), NEW k, Hello(k)
    PROVE  Mirrors(room'.draft, room'.participants)
<1>1. PICK p \in Person, claim \in BOOLEAN : HelloReturning(k, p, claim) \/ HelloNew(k, p, claim)
  BY DEF Hello
<1> DEFINE before == room.participants
           g == room.draft
<1>2. /\ IsRoom(room) /\ IsDraft(g) /\ g.status = "picking" /\ Mirrors(g, before)
      /\ IsPeople(before) /\ DOMAIN before \subseteq minted
  BY RunningRoom DEF Reflected
<1>3. CASE HelloReturning(k, p, claim)
  <2>1. PICK participant \in Participant :
            /\ Admit(k, p, participant, claim, SeatPresence(g, p, TRUE))
            /\ participant.connected = TRUE
    <3> DEFINE participant ==
                   [before[p] EXCEPT !.host = @ \/ claim, !.connected = TRUE, !.generation = @ + 1]
    <3>1. before[p] \in Participant
      BY <1>2, <1>3 DEF HelloReturning, IsPeople
    <3>2. participant \in Participant
      <4>1. (before[p].host \/ claim) \in BOOLEAN /\ before[p].generation + 1 \in 1..MaxGeneration
        BY <1>3, <3>1, Times DEF HelloReturning, Participant
      <4>2. QED
        BY <3>1, <4>1, Readmitted
    <3>3. participant.connected = TRUE
      BY <3>1 DEF Participant
    <3>4. Admit(k, p, participant, claim, SeatPresence(g, p, TRUE))
      BY <1>3 DEF HelloReturning
    <3> HIDE DEF participant
    <3>5. QED
      BY <3>2, <3>3, <3>4
  <2> DEFINE after == [q \in DOMAIN before \cup {p} |-> IF q = p THEN participant ELSE before[q]]
  <2>2. room'.participants = after /\ room'.draft = SeatPresence(g, p, TRUE)
    BY <1>2, <2>1 DEF Admit, IsRoom
  <2>3. DOMAIN before \subseteq DOMAIN after /\ after[p].connected = TRUE
        /\ \A q \in DOMAIN before \ {p} : after[q].connected = before[q].connected
    BY <2>1
  <2> HIDE DEF after, before, g
  <2>4. Mirrors(SeatPresence(g, p, TRUE), after)
    <3>1. PICK connected : connected = TRUE
      OBVIOUS
    <3>2. Mirrors(SeatPresence(g, p, connected), after)
      <4>1. after[p].connected = connected
        BY <2>3, <3>1
      <4>2. QED
        BY <1>2, <2>3, <4>1, PresenceMirrors
    <3>3. QED
      BY <3>1, <3>2
  <2>5. QED
    BY <2>2, <2>4
<1>4. CASE HelloNew(k, p, claim)
  <2>1. p \notin DOMAIN before
    BY <1>2, <1>4 DEF HelloNew
  <2>2. PICK participant :
            /\ room'.participants = [q \in DOMAIN before \cup {p} |-> IF q = p THEN participant ELSE before[q]]
            /\ room'.draft = g
    BY <1>2, <1>4 DEF HelloNew, Admit, IsRoom
  <2> DEFINE after == room'.participants
  <2>3. \A q \in DOMAIN before : q \in DOMAIN after /\ after[q] = before[q]
    BY <2>1, <2>2
  <2> HIDE DEF after, before
  <2>4. Mirrors(g, after)
    BY <1>2, <2>3 DEF Mirrors, HumanSeat
  <2>5. QED
    BY <2>2, <2>4 DEF after
<1>5. QED
  BY <1>1, <1>3, <1>4

\* Whatever a confirmation does to the deadline, it leaves the draft it is
\* given and the people.
LEMMA ConfirmationLeaves ==
    ASSUME IsRoom(room), NEW people, NEW g, NEW r,
           r = [room EXCEPT !.participants = people, !.abandonIn = room.abandonIn],
           room' = ConfirmationAfter(r, g)
    PROVE  room'.draft = g /\ room'.participants = people
<1>1. r = [phase |-> room.phase, config |-> room.config, hostClaimSpent |-> room.hostClaimSpent,
           participants |-> people, abandonIn |-> room.abandonIn, draft |-> room.draft,
           deadlineIn |-> room.deadlineIn, accelerated |-> room.accelerated]
  BY DEF IsRoom
<1>2. QED
  BY <1>1 DEF ConfirmationAfter

\* A queue, and the confirmation it may start, moves nobody.
LEMMA QueuePickReflected ==
    ASSUME Agreed, InOrder, Reflected, NEW k, QueuePick(k)
    PROVE  Mirrors(room'.draft, room'.participants)
<1>1. Running(room)
  BY DEF QueuePick, Member, Running, Exists, Phase
<1>2. IsRoom(room) /\ IsDraft(room.draft) /\ Mirrors(room.draft, room.participants)
  BY <1>1, RunningRoom DEF Reflected
<1>3. PICK i : room' = ConfirmationAfter(room, Progress!WithQueued(room.draft, i))
  BY DEF QueuePick
<1>4. room = [room EXCEPT !.participants = room.participants, !.abandonIn = room.abandonIn]
  BY <1>2 DEF IsRoom
<1>5. room'.draft = Progress!WithQueued(room.draft, i) /\ room'.participants = room.participants
  BY <1>2, <1>3, <1>4, ConfirmationLeaves
<1> DEFINE g == room.draft
           h == Progress!WithQueued(g, i)
<1>6. h.seats = g.seats /\ g.queued \subseteq h.queued
  BY <1>2 DEF Progress!WithQueued, IsDraft
<1> HIDE DEF h, g
<1>7. Mirrors(g, room.participants)
  BY <1>2 DEF g
<1>8. Mirrors(h, room.participants)
  BY <1>6, <1>7 DEF Mirrors, HumanSeat, BotSeat, IsHuman
<1>9. QED
  BY <1>5, <1>8 DEF h, g

\* The close of a socket that speaks for somebody marks them gone in both; the
\* close of any other changes neither.
LEMMA SocketClosedReflected ==
    ASSUME Agreed, InOrder, Reflected, Running(room), NEW k, SocketClosed(k)
    PROVE  Mirrors(room'.draft, room'.participants)
<1> DEFINE before == room.participants
           g == room.draft
           p == Self(k)
           people == [before EXCEPT ![p].connected = FALSE]
<1>1. /\ IsRoom(room) /\ IsDraft(g) /\ g.status = "picking" /\ Mirrors(g, before)
      /\ IsPeople(before) /\ DOMAIN before \subseteq Person /\ Phase # "lobby" /\ g # NoDraft
  BY RunningRoom DEF Reflected
<1>2. CASE SpeaksForIdentity(k)
  <2>1. p \in DOMAIN before /\ NoteAbsence(p)
    BY <1>2 DEF SpeaksForIdentity, Member, Self, SocketClosed
  <2> HIDE DEF p
  <2>2. room' = ConfirmationAfter([room EXCEPT !.participants = people, !.abandonIn = room.abandonIn],
                                  SeatPresence(g, p, FALSE))
    BY <1>1, <2>1 DEF NoteAbsence
  <2>3. room'.draft = SeatPresence(g, p, FALSE) /\ room'.participants = people
    BY <1>1, <2>2, ConfirmationLeaves
  <2>4. /\ DOMAIN people = DOMAIN before
        /\ people[p] = [before[p] EXCEPT !.connected = FALSE]
        /\ \A q \in DOMAIN before \ {p} : people[q] = before[q]
    BY <1>1, <2>1 DEF IsPeople
  <2>5. people[p].connected = FALSE
    BY <1>1, <2>1, <2>4 DEF IsPeople, Participant
  <2> HIDE DEF people, before, g
  <2>6. Mirrors(SeatPresence(g, p, FALSE), people)
    <3>1. PICK connected : connected = FALSE
      OBVIOUS
    <3>2. Mirrors(SeatPresence(g, p, connected), people)
      <4>1. p \in Person /\ people[p].connected = connected
        BY <1>1, <2>1, <2>5, <3>1
      <4>2. DOMAIN before \subseteq DOMAIN people
            /\ \A q \in DOMAIN before \ {p} : people[q].connected = before[q].connected
        BY <2>4
      <4>3. QED
        BY <1>1, <4>1, <4>2, PresenceMirrors
    <3>3. QED
      BY <3>1, <3>2
  <2>7. QED
    BY <2>3, <2>6
<1>3. CASE ~SpeaksForIdentity(k)
  BY <1>1, <1>3 DEF SocketClosed
<1>4. QED
  BY <1>2, <1>3

\* A pick that closes takes the ring along, and the bots queue again.
LEMMA ClosePickReflected ==
    ASSUME Agreed, InOrder, Reflected, Running(room), room' = ClosePick, Running(room')
    PROVE  Mirrors(room'.draft, room'.participants)
<1> DEFINE g == room.draft
           committed == Progress!Committed(g)
           next == IF Progress!Picking(committed) THEN Progress!WithBotsQueued(committed) ELSE committed
<1>1. IsRoom(room) /\ IsDraft(g) /\ g.status = "picking" /\ Mirrors(g, room.participants)
  BY RunningRoom DEF Reflected
<1>2. IsDraft(committed) /\ committed.seats = g.seats
  BY <1>1, CommittedDraft
<1> HIDE DEF committed
<1>3. room'.draft = next /\ room'.participants = room.participants
      /\ (next.status = "complete" => room'.phase = "complete")
  BY <1>1 DEF ClosePick, IsRoom, committed
<1>4. Progress!Picking(committed)
  BY <1>2, <1>3 DEF Running, IsDraft, Progress!Picking
<1>5. /\ \A i \in DOMAIN committed.seats : HumanSeat(committed, room.participants, i) \/ BotSeat(committed, i)
      /\ \A i, j \in DOMAIN committed.seats :
             i # j /\ IsHuman(committed, i) /\ IsHuman(committed, j)
                 => committed.seats[i].occupantId # committed.seats[j].occupantId
  BY <1>1, <1>2 DEF Mirrors, HumanSeat, BotSeat, IsHuman
<1>6. Mirrors(Progress!WithBotsQueued(committed), room.participants)
  BY <1>2, <1>5, BotsQueue
<1>7. QED
  BY <1>3, <1>4, <1>6

\* The start, with the seats as they are or shuffled.
LEMMA StartDraftReflected ==
    ASSUME Agreed, LedgerSound, NEW k, StartDraft(k)
    PROVE  Mirrors(room'.draft, room'.participants)
<1>1. Exists /\ IsRoom(room) /\ IsPeople(room.participants) /\ Apart(room.participants)
  BY LedgerParts DEF StartDraft, InLobby, Member, Agreed, Kept, Exists, IsRoom
<1>2. PICK people, deadline :
          /\ people \in IF room.config.shuffle THEN Shuffles(room.participants) ELSE {room.participants}
          /\ room' = [room EXCEPT
                         !.phase = "picking", !.config.shuffle = FALSE, !.participants = people,
                         !.draft = Progress!WithBotsQueued(Progress!Start(SeatSetup(people, room.config.bots))),
                         !.deadlineIn = deadline, !.accelerated = FALSE, !.abandonIn = NoTime]
  BY DEF StartDraft
<1>3. IsPeople(people) /\ Apart(people)
  BY <1>1, <1>2, ShuffledPeople, ShuffleApart
<1> DEFINE g == Progress!WithBotsQueued(Progress!Start(SeatSetup(people, room.config.bots)))
<1>4. Mirrors(g, people)
  BY <1>3, StartMirrors
<1> HIDE DEF g
<1>5. room'.participants = people /\ room'.draft = g
  BY <1>1, <1>2 DEF IsRoom, g
<1>6. QED
  BY <1>4, <1>5

(* While a draft runs every human seat is held by somebody of the room and *)
(* is connected exactly when the ledger says so, and every bot has queued. *)
THEOREM RingAlwaysMirrorsLedger == Spec => []RingMirrorsLedger
<1>1. Init => Reflected
  BY DEF Init, Reflected, Running
<1>2. ASSUME Agreed, InOrder, LedgerSound, Reflected, [Next]_vars
      PROVE  Reflected'
  <2> SUFFICES ASSUME Running(room') PROVE Mirrors(room'.draft, room'.participants)
    BY DEF Reflected
  <2>1. ASSUME room' = room PROVE Mirrors(room'.draft, room'.participants)
    BY <1>2, <2>1 DEF Reflected
  <2>2. ASSUME Quiet \/ room' = NoRoom PROVE Running(room)
    BY <2>2 DEF Quiet, Running, Exists, Phase
  <2>3. CASE UNCHANGED vars
    BY <2>1, <2>3 DEF vars
  <2>4. CASE Initialize
    BY <2>4 DEF Initialize, Running
  <2>5. CASE Accept \/ Deploy
    BY <2>1, <2>5 DEF Accept, Deploy
  <2>6. ASSUME NEW k \in DOMAIN sockets, TurnAway(k) \/ Hello(k) \/ Command(k) \/ SocketClosed(k)
        PROVE  Mirrors(room'.draft, room'.participants)
    <3>1. CASE TurnAway(k)
      BY <2>1, <3>1 DEF TurnAway
    <3>2. CASE Hello(k)
      <4>1. Running(room)
        BY <1>2, <2>2, <3>2, HelloReturningKept, HelloNewKept DEF Hello, Agreed
      <4>2. QED
        BY <1>2, <3>2, <4>1, HelloReflected
    <3>3. CASE QueuePick(k)
      BY <1>2, <3>3, QueuePickReflected, SMTT(30)
    <3>4. CASE StartDraft(k)
      BY <1>2, <3>4, StartDraftReflected, SMTT(30)
    <3>5. CASE Command(k) /\ ~QueuePick(k) /\ ~StartDraft(k)
      <4>1. Exists /\ Phase = "lobby"
        BY <3>5 DEF Command, UpdateConfig, RandomizeNow, RandomizeAtStart, Leave,
                    RemoveParticipant, MoveParticipant, InLobby, Member
      <4>2. Quiet \/ room' = NoRoom
        BY <1>2, <3>5, <4>1, UpdateConfigKept, RandomizeNowKept, RandomizeAtStartKept,
           MoveParticipantKept, WithdrawKept DEF Command, Leave, RemoveParticipant, Agreed
      <4>3. QED
        BY <2>2, <4>1, <4>2, SMTT(30) DEF Running, Phase
    <3>6. CASE SocketClosed(k)
      <4>1. Running(room)
        BY <1>2, <2>2, <3>6, SocketClosedKept DEF Agreed
      <4>2. QED
        BY <1>2, <3>6, <4>1, SocketClosedReflected
    <3>7. QED
      BY <2>6, <3>1, <3>2, <3>3, <3>4, <3>5, <3>6
  <2>7. CASE Wake \/ RedeliverWake
    <3>1. PICK slot \in Countdown : HandleAlarm(slot)
      BY <1>2, <2>7, Times DEF Wake, RedeliverWake, Agreed, Kept
    <3>2. CASE ~Exists
      BY <2>1, <3>1, <3>2 DEF HandleAlarm
    <3>3. CASE Exists /\ Phase = "lobby"
      <4>1. Quiet \/ room' = NoRoom
        BY <1>2, <3>1, <3>3, LobbyAlarmKept DEF HandleAlarm, Agreed
      <4>2. QED
        BY <2>2, <3>3, <4>1 DEF Running, Phase
    <3>4. CASE Exists /\ Phase # "lobby"
      <4>1. IsRoom(room)
        BY <1>2, <3>4 DEF Agreed, Kept, Exists
      <4>2. CASE room' = room \/ room' = NoRoom
        BY <2>1, <4>2 DEF Running
      <4>3. CASE room' = EndReview /\ Phase = "review"
        <5>1. Running(room)
          BY <3>4, <4>3 DEF Running, Exists, Phase
        <5>2. room'.draft = room.draft /\ room'.participants = room.participants
          BY <4>1, <4>3 DEF EndReview, IsRoom
        <5>3. QED
          BY <1>2, <5>1, <5>2 DEF Reflected
      <4>4. CASE room' = ClosePick /\ Phase = "picking"
        <5>1. Running(room)
          BY <3>4, <4>4 DEF Running, Exists, Phase
        <5>2. QED
          BY <1>2, <4>4, <5>1, ClosePickReflected
      <4>5. QED
        BY <3>1, <3>4, <4>1, <4>2, <4>3, <4>4
           DEF HandleAlarm, DeadlineAlarm, DeleteRoom, IsRoom, Phase
    <3>5. QED
      BY <3>2, <3>3, <3>4
  <2>8. CASE Tick
    <3>1. Running(room)
      BY <1>2, <2>2, <2>8, TickKept DEF Agreed
    <3>2. IsRoom(room) /\ Exists
      BY <1>2, <3>1, RunningRoom
    <3>3. room'.draft = room.draft /\ room'.participants = room.participants
      BY <2>8, <3>2 DEF Tick, IsRoom
    <3>4. QED
      BY <1>2, <3>1, <3>3 DEF Reflected
  <2>9. QED
    BY <1>2, <2>3, <2>4, <2>5, <2>6, <2>7, <2>8 DEF Next
<1>3. Spec => []Reflected
  BY <1>1, <1>2, AlwaysKept, AlwaysInOrder, LedgerAlwaysSound, PTL DEF Spec
<1>4. Reflected => RingMirrorsLedger
  BY DEF Reflected, Running, Mirrors, HumanSeat, BotSeat, RingMirrorsLedger, NoRoom, Phase
<1>5. QED
  BY <1>3, <1>4, PTL

=============================================================================
