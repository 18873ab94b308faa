---------------------------- MODULE SessionProofs ---------------------------
(***************************************************************************)
(* What holds of Session for any number of tabs, browsers, codes, sockets  *)
(* and attempts, under every loss and order of messages.  Three arguments: *)
(* a room's claim is in one place, from the answer that carries it to the  *)
(* hello that spends it (Claims); an identity is known to one browser only *)
(* (Owners); and a hello that may still be read was sent by the connection *)
(* its driver still has (the last clauses of References), so that whoever  *)
(* supersedes it is somebody else (Partings).                              *)
(***************************************************************************)
EXTENDS Session, Functions, SequenceTheorems, FiniteSetTheorems, NaturalsInduction,
        WellFoundedInduction, TLAPS

-----------------------------------------------------------------------------
(* The shape of the state.                                                 *)

\* A sequence, of whatever it holds.
Proper(s) == s \in Seq(Range(s))

Person == [connected : BOOLEAN, host : BOOLEAN, gen : Nat \ {0}]

\* A room that exists: its identities are numbered up to minted, and nobody
\* is the host before the claim is spent, nor two ever.
IsRoom(r) ==
    /\ r \in [phase : {"lobby", "picking", "review", "complete"}, version : Nat, turn : 1 .. LastTurn + 1,
              people : {r.people}, minted : Nat, claimSpent : BOOLEAN, look : {r.look},
              config : {r.config}, options : {r.options}, ring : SUBSET (1 .. r.minted),
              queued : SUBSET (1 .. r.minted), deadline : Deadline, story : {r.story}]
    /\ r.people \in [DOMAIN r.people -> Person] /\ DOMAIN r.people \subseteq 1 .. r.minted
    /\ r.phase # "complete" => r.turn <= LastTurn
    /\ \A p \in DOMAIN r.people : r.people[p].host => r.claimSpent
    /\ \A p, q \in DOMAIN r.people : r.people[p].host /\ r.people[q].host => p = q

\* The reasons for which a driver stops, but for the two it cannot give cause for.
Cause == Reason \ {"invalid_claim", "hello_required"}

IsDriver == [code : Code, claim : BOOLEAN, password : BOOLEAN, socket : {NoSocket} \cup Link,
             last : Int, ever : BOOLEAN, status : Stages \cup Cause]

\* A socket, with whatever is on its way.
IsLink(k) ==
    /\ k \in [code : Code, driver : Driver, pid : {Nobody} \cup (Nat \ {0}), gen : Nat,
              open : BOOLEAN, heard : BOOLEAN, listed : BOOLEAN, cut : BOOLEAN,
              up : {k.up}, down : {k.down}]
    /\ Proper(k.up) /\ Proper(k.down)

Used == {l \in Link : links[l] # NoLink}

\* A request to create a room.
IsRequest == {NoRequest, [state |-> "refused"]} \cup [state : {"trying"}, attempts : Nat]
                 \cup [state : {"created"}, code : Code]
Created(q, c) == request[q] = [state |-> "created", code |-> c]

Shapes ==
    /\ home \in [Tab -> Browser]
    /\ DOMAIN rooms = Code /\ \A c \in Code : IF Exists(c) THEN IsRoom(rooms[c]) ELSE rooms[c] \in {Unmade, Deleted}
    /\ DOMAIN links = Link
    /\ drivers \in [Tab -> Seq(IsDriver)] /\ \A t \in Tab : Len(drivers[t]) <= MaxEntries
    /\ current \in [Tab -> Nat] /\ \A t \in Tab : current[t] <= Len(drivers[t])
    /\ DOMAIN pages = Tab
    /\ \A t \in Tab : IF current[t] = 0 THEN pages[t] = NoPage ELSE "self" \in DOMAIN pages[t]
    /\ request \in [Request -> IsRequest]
    /\ stored \in [Browser -> [Code -> Nat]]
    /\ shared \subseteq {c \in Code : rooms[c] # Unmade}

-----------------------------------------------------------------------------
(* What is under way on a socket.                                          *)

CommandTypes == {"resync", "queue_pick", "start_draft", "update_config", "move_participant",
                 "set_seat_randomization", "leave"}

IsHello(m) == m \in [type : {"hello"}, credential : Nat, claim : BOOLEAN, password : BOOLEAN]

\* Its hello may still be let in.
Unread(k) == k.pid = Nobody /\ k.open /\ k.up # <<>>

\* The first thing a driver says is hello, and it says it once.
Says(k) ==
    /\ \A i \in 1 .. Len(k.up) : k.up[i].type \in CommandTypes \/ (IsHello(k.up[i]) /\ i = 1 /\ k.pid = Nobody)
    /\ Unread(k) => IsHello(k.up[1])
    /\ k.pid = Nobody /\ k.open /\ ~k.cut => k.up # <<>>

\* What the room says: who somebody is, it says to them; it says goodbye once
\* it has closed, and the network says it when it carries nothing any more.
IsFrame(f, k) ==
    IF f.type = "close"
    THEN /\ f.code \in {"lost", "refused", "superseded"}
         /\ f.code = "refused" => f.reason \in Cause \ {"superseded"}
         /\ ~k.open \/ (k.up = <<>> /\ k.cut)
    ELSE /\ f.version \in Int
         /\ f.type = "hello_ack" => k.pid # Nobody /\ f.body.self = k.pid

Faultless(k) == IsLink(k) /\ Says(k) /\ \A f \in Range(k.down) : IsFrame(f, k)

Sockets == \A l \in Used : Faultless(links[l])

-----------------------------------------------------------------------------
(* Who refers to whom.                                                     *)

\* A driver and the socket it listens to name each other; a socket it has let
\* go of carries nothing any more, and unless the driver has stopped, it has
\* left no hello behind; every code in use has been shown.
References ==
    /\ \A x \in Drivers : DriverAt(x).code \in shared
    /\ \A x \in Drivers : DriverAt(x).socket # NoSocket =>
           /\ ~Stopped(DriverAt(x))
           /\ links[DriverAt(x).socket] # NoLink
           /\ links[DriverAt(x).socket].heard /\ links[DriverAt(x).socket].driver = x
    /\ \A l \in Used :
           /\ links[l].driver \in Drivers /\ links[l].code = DriverAt(links[l].driver).code
           /\ links[l].heard => DriverAt(links[l].driver).socket = l
           /\ ~links[l].heard => links[l].cut
           /\ Unread(links[l]) => links[l].heard \/ Stopped(DriverAt(links[l].driver))
    /\ \A b \in Browser, c \in Code : stored[b][c] # NoCredential => c \in shared

\* A room that is gone has closed the sockets it lists.
Doors == \A l \in Used : links[l].listed /\ links[l].open => Exists(links[l].code)

\* A driver that has been answered has no claim any more, and only such a
\* driver ever tries again.
Answers ==
    \A x \in Drivers :
        /\ DriverAt(x).ever => ~DriverAt(x).claim
        /\ DriverAt(x).status \in {"connected", "reconnecting"} => DriverAt(x).ever

-----------------------------------------------------------------------------
(* The claim.                                                              *)

\* A driver that has not yet said hello.
Unsaid(d) == d.status = "connecting" /\ d.socket = NoSocket

Spent(c) == Exists(c) /\ rooms[c].claimSpent

\* Who may still spend the claim of a room: a request, a driver that has not
\* said hello, a hello that has not been read; and only one of them.
Claims ==
    /\ \A q \in Request, c \in Code : Created(q, c) =>
           /\ rooms[c] # Unmade /\ ~Spent(c)
           /\ \A u \in Request : Created(u, c) => u = q
           /\ \A x \in Drivers : DriverAt(x).code = c => ~DriverAt(x).claim
    /\ \A x, y \in Drivers :
           DriverAt(x).code = DriverAt(y).code /\ DriverAt(x).claim /\ DriverAt(y).claim => x = y
    /\ \A x \in Drivers : DriverAt(x).claim /\ Unsaid(DriverAt(x)) =>
           ~Spent(DriverAt(x).code) /\ \A l \in Used : links[l].driver # x
    /\ \A l, k \in Used :
           links[l].driver = links[k].driver /\ DriverAt(links[l].driver).claim => l = k
    /\ \A l \in Used : Unread(links[l]) /\ links[l].up[1].claim =>
           DriverAt(links[l].driver).claim /\ ~Spent(links[l].code)

-----------------------------------------------------------------------------
(* Identities, and why drivers end.                                        *)

\* What makes browser b speak for identity p of room c, now or later.
Tells(k, b, c, p) ==
    /\ k.code = c /\ home[k.driver[1]] = b
    /\ k.pid = p \/ (Unread(k) /\ k.up[1].credential = p)
Knows(b, c, p) == stored[b][c] = p \/ \E l \in Used : Tells(links[l], b, c, p)

\* An identity is known to one browser only, once it is minted.
Owners ==
    \A c \in Code, p \in Nat \ {0}, b \in Browser : Knows(b, c, p) =>
        /\ Exists(c) => p <= rooms[c].minted
        /\ \A a \in Browser : Knows(a, c, p) => a = b

\* Another connection the browser of driver x made to its room.
HasRival(x) ==
    \E y \in Drivers \ {x} : Home(y) = Home(x) /\ DriverAt(y).code = DriverAt(x).code

IsParting(f) == f.type = "close" /\ f.code = "superseded"

Partings ==
    /\ \A x \in Drivers : DriverAt(x).status = "superseded" => HasRival(x)
    /\ \A l \in Used : \A f \in Range(links[l].down) : IsParting(f) => HasRival(links[l].driver)

SessionInv == Shapes /\ Sockets /\ References /\ Doors /\ Answers /\ Claims /\ Owners /\ Partings

-----------------------------------------------------------------------------
(* Sequences.                                                              *)

\* No frames.
LEMMA ProperEmpty == Proper(<<>>) /\ Range(<<>>) = {} /\ Len(<<>>) = 0
BY DEF Proper, Range

\* A few frames.
LEMMA ProperFew ==
    ASSUME NEW a, NEW b, NEW c
    PROVE  /\ Proper(<<a>>) /\ Range(<<a>>) = {a}
           /\ Proper(<<a, b>>) /\ Range(<<a, b>>) = {a, b}
           /\ Proper(<<a, b, c>>) /\ Range(<<a, b, c>>) = {a, b, c}
<1>1. Range(<<a>>) = {a} /\ Range(<<a, b>>) = {a, b} /\ Range(<<a, b, c>>) = {a, b, c}
  BY DEF Range
<1> QED
  BY <1>1 DEF Proper

\* A sequence is a function on its indices.
LEMMA ProperFacts ==
    ASSUME NEW s, Proper(s)
    PROVE  Len(s) \in Nat /\ DOMAIN s = 1 .. Len(s) /\ \A i \in 1 .. Len(s) : s[i] \in Range(s)
BY LenProperties DEF Proper, Range

\* A sequence over any set is a sequence.
LEMMA SeqProper ==
    ASSUME NEW S, NEW s \in Seq(S)
    PROVE  Proper(s) /\ Range(s) \subseteq S
<1>1. Len(s) \in Nat /\ s \in [1 .. Len(s) -> S] /\ DOMAIN s = 1 .. Len(s)
  BY LenProperties
<1>2. Range(s) \subseteq S
  BY <1>1 DEF Range
<1>3. s \in [1 .. Len(s) -> Range(s)]
  BY <1>1 DEF Range
<1> QED
  BY <1>1, <1>2, <1>3 DEF Proper

\* What is sent after something else.
LEMMA ProperConcat ==
    ASSUME NEW s, NEW t, Proper(s), Proper(t)
    PROVE  /\ Proper(s \o t) /\ Range(s \o t) = Range(s) \cup Range(t)
           /\ Len(s \o t) = Len(s) + Len(t)
           /\ \A i \in 1 .. Len(s) : (s \o t)[i] = s[i]
<1> DEFINE S == Range(s) \cup Range(t)
<1>1. s \in Seq(S) /\ t \in Seq(S)
  BY SeqMonotonic DEF Proper
<1>2. /\ s \o t \in Seq(S) /\ Len(s \o t) = Len(s) + Len(t)
      /\ \A i \in 1 .. Len(s) + Len(t) : (s \o t)[i] = IF i <= Len(s) THEN s[i] ELSE t[i - Len(s)]
  BY <1>1, ConcatProperties
<1>3. Proper(s \o t) /\ Range(s \o t) \subseteq S
  BY <1>2, SeqProper
<1>4. Len(s) \in Nat /\ Len(t) \in Nat /\ DOMAIN s = 1 .. Len(s) /\ DOMAIN t = 1 .. Len(t)
  BY ProperFacts
<1>5. DOMAIN (s \o t) = 1 .. Len(s) + Len(t)
  BY <1>2, <1>3, ProperFacts
<1>6. \A i \in 1 .. Len(s) : s[i] \in Range(s \o t)
  BY <1>2, <1>4, <1>5 DEF Range
<1>7. ASSUME NEW i \in 1 .. Len(t) PROVE t[i] \in Range(s \o t)
  <2>1. Len(s) + i \in 1 .. Len(s) + Len(t) /\ (s \o t)[Len(s) + i] = t[i]
    BY <1>2, <1>4
  <2> QED
    BY <2>1, <1>5 DEF Range
<1>8. S \subseteq Range(s \o t)
  BY <1>4, <1>6, <1>7 DEF Range
<1> QED
  BY <1>2, <1>3, <1>4, <1>8

\* What is appended.
LEMMA ProperAppend ==
    ASSUME NEW s, NEW m, Proper(s)
    PROVE  /\ Proper(Append(s, m)) /\ Len(Append(s, m)) = Len(s) + 1
           /\ \A i \in 1 .. Len(s) : Append(s, m)[i] = s[i]
           /\ Append(s, m)[Len(s) + 1] = m
<1>1. s \in Seq(Range(s) \cup {m})
  BY SeqMonotonic DEF Proper
<1>2. /\ Append(s, m) \in Seq(Range(s) \cup {m}) /\ Len(Append(s, m)) = Len(s) + 1
      /\ \A i \in 1 .. Len(s) : Append(s, m)[i] = s[i]
      /\ Append(s, m)[Len(s) + 1] = m
  BY <1>1, AppendProperties
<1> QED
  BY <1>2, SeqProper

\* What is left after the first.
LEMMA ProperTail ==
    ASSUME NEW s, Proper(s), s # <<>>
    PROVE  /\ Len(s) \in Nat \ {0} /\ Head(s) = s[1] /\ s[1] \in Range(s)
           /\ Proper(Tail(s)) /\ Len(Tail(s)) = Len(s) - 1 /\ Range(Tail(s)) \subseteq Range(s)
           /\ \A i \in 1 .. Len(Tail(s)) : Tail(s)[i] = s[i + 1]
<1>1. Len(s) \in Nat \ {0}
  BY EmptySeq DEF Proper
<1>2. Tail(s) \in Seq(Range(s)) /\ Len(Tail(s)) = Len(s) - 1 /\ \A i \in 1 .. Len(Tail(s)) : Tail(s)[i] = s[i + 1]
  BY HeadTailProperties DEF Proper
<1>3. Head(s) = s[1] /\ s[1] \in Range(s)
  BY <1>1, ProperFacts
<1>4. Proper(Tail(s)) /\ Range(Tail(s)) \subseteq Range(s)
  BY <1>2, SeqProper
<1> QED
  BY <1>1, <1>2, <1>3, <1>4

-----------------------------------------------------------------------------
(* Outcomes.                                                               *)

\* Frames that are neither a goodbye nor the answer to a hello.
IsTold(f) == f.type \notin {"close", "hello_ack"} /\ f.version \in Int
Told(s) == Proper(s) /\ \A f \in Range(s) : IsTold(f)

\* Nobody is let in.
Kept(r, s) == IsRoom(s) /\ s.minted = r.minted /\ s.claimSpent = r.claimSpent

\* The outcome of anything but a hello that is let in: nobody learns who they
\* are, and whoever is dismissed is told a reason.
Spoken(r, o) ==
    /\ IF o.room = Deleted THEN r = Deleted \/ o.reason = "room_closed" ELSE Kept(r, o.room)
    /\ o.self = Nobody
    /\ o.reason \in {"none", "leave", "removed", "room_closed", "wrong_password", "room_full", "spectators_disabled"}
    /\ o.reason = "none" => o.dismissed = Nobody
    /\ Told(o.reply) /\ Told(o.tell) /\ Told(o.others)

\* Nothing is said, or a few things, or some after others.
LEMMA ToldEmpty == Told(<<>>)
BY ProperEmpty DEF Told

LEMMA ToldFew ==
    ASSUME NEW a, NEW b, NEW c, IsTold(a)
    PROVE  /\ Told(<<a>>)
           /\ IsTold(b) => Told(<<a, b>>)
           /\ IsTold(b) /\ IsTold(c) => Told(<<a, b, c>>)
BY ProperFew DEF Told

LEMMA ToldConcat == ASSUME NEW s, NEW t, Told(s), Told(t) PROVE Told(s \o t)
BY ProperConcat DEF Told

\* A room's version is on every frame.
LEMMA FrameTold ==
    ASSUME NEW r, IsRoom(r), NEW type, type \notin {"close", "hello_ack"}, NEW body
    PROVE  IsTold(Frame(r, type, body))
BY DEF IsTold, Frame, IsRoom

LEMMA CommonFrames ==
    ASSUME NEW r, IsRoom(r)
    PROVE  /\ IsTold(Ack(r)) /\ IsTold(Refusal(r)) /\ IsTold(Snapshot(r))
           /\ IsTold(PeopleChanged(r)) /\ IsTold(ConfigChanged(r)) /\ IsTold(FeedAppended(r))
           /\ \A body : IsTold(Frame(r, "seat_layout_changed", body)) /\ IsTold(Frame(r, "ack", body))
                        /\ IsTold(Frame(r, "queue_status_changed", body))
BY FrameTold DEF Ack, Refusal, Snapshot, PeopleChanged, ConfigChanged, FeedAppended

LEMMA PhaseTold ==
    ASSUME NEW r, IsRoom(r)
    PROVE  Told(AnnouncePhase(r))
<1>1. IsTold(Frame(r, "phase_changed", Spread([phase |-> r.phase], PublicDraft(r))))
  BY FrameTold
<1>2. IsTold(Frame(r, "deadline_changed", [deadline |-> r.deadline]))
  BY FrameTold
<1> QED
  BY <1>1, <1>2, ToldFew DEF AnnouncePhase

LEMMA ViewTold ==
    ASSUME NEW r, IsRoom(r), NEW p
    PROVE  Told(PrivateView(r, p))
<1>1. IsTold(Frame(r, "private_pack_pool", [view |-> [turn |-> r.turn, queued |-> p \in r.queued]]))
  BY FrameTold
<1> QED
  BY <1>1, ToldFew, ToldEmpty DEF PrivateView

\* A room that exists is no room that is gone.
LEMMA RoomExists == ASSUME NEW r, IsRoom(r) PROVE r # Deleted /\ r # Unmade /\ r.phase \notin {"unmade", "gone"}
BY DEF IsRoom, Deleted, Unmade

\* A change of what no identity depends on.
LEMMA Changed ==
    ASSUME NEW r, IsRoom(r), NEW s,
           s \in [phase : {"lobby", "picking", "review", "complete"}, version : Nat, turn : 1 .. LastTurn + 1,
                  people : {r.people}, minted : {r.minted}, claimSpent : {r.claimSpent}, look : {s.look},
                  config : {s.config}, options : {s.options}, ring : SUBSET (1 .. r.minted),
                  queued : SUBSET (1 .. r.minted), deadline : Deadline, story : {s.story}],
           s.phase # "complete" => s.turn <= LastTurn
    PROVE  Kept(r, s)
BY DEF IsRoom, Kept

LEMMA NewVersionKept == ASSUME NEW r, IsRoom(r) PROVE Kept(r, NewVersion(r))
<1> DEFINE s == NewVersion(r)
<1>1. s \in [phase : {"lobby", "picking", "review", "complete"}, version : Nat, turn : 1 .. LastTurn + 1,
                  people : {r.people}, minted : {r.minted}, claimSpent : {r.claimSpent}, look : {s.look},
                  config : {s.config}, options : {s.options}, ring : SUBSET (1 .. r.minted),
                  queued : SUBSET (1 .. r.minted), deadline : Deadline, story : {s.story}]
  BY DEF IsRoom, NewVersion
<1>2. s.phase # "complete" => s.turn <= LastTurn
  BY DEF IsRoom, NewVersion
<1> HIDE DEF s
<1> QED
  BY <1>1, <1>2, Changed DEF s

LEMMA WithStoryKept ==
    ASSUME NEW r, IsRoom(r)
    PROVE  Kept(r, WithStory(r)) /\ WithStory(r).people = r.people /\ WithStory(r).turn = r.turn
<1>1. NewVersion(r).people = r.people /\ NewVersion(r).turn = r.turn
  BY DEF IsRoom, NewVersion
<1> QED
  BY <1>1, NewVersionKept DEF IsRoom, Kept, WithStory

\* An error, or an acknowledgement with what is announced.
LEMMA RefusedSpoken == ASSUME NEW r, IsRoom(r) PROVE Spoken(r, Refused(r))
<1>1. Kept(r, r) /\ r # Deleted
  BY RoomExists DEF Kept
<1>2. Told(<<Refusal(r)>>)
  BY CommonFrames, ToldFew
<1> QED
  BY <1>1, <1>2, ToldEmpty DEF Spoken, Refused, Outcome

LEMMA CommitSpoken ==
    ASSUME NEW r, NEW s, Kept(r, s), NEW frames, Told(frames)
    PROVE  Spoken(r, Commit(s, frames))
<1>1. Told(<<Ack(s)>>) /\ s # Deleted
  BY CommonFrames, ToldFew, RoomExists DEF Kept
<1> QED
  BY <1>1, ToldEmpty DEF Spoken, Commit, Outcome

LEMMA DeletionSpoken == ASSUME NEW r, NEW frames, Told(frames) PROVE Spoken(r, Deletion(frames))
BY ToldEmpty DEF Spoken, Deletion, Outcome

\* The lobby's commands.
LEMMA UpdateConfigSpoken ==
    ASSUME NEW r, IsRoom(r), NEW p, NEW bots
    PROVE  Spoken(r, UpdateConfig(r, p, bots))
<1> DEFINE s == [NewVersion(r) EXCEPT !.config.bots = bots]
<1>1. Kept(r, s)
  BY NewVersionKept DEF Kept, IsRoom
<1>2. Told(<<ConfigChanged(s)>>)
  BY <1>1, CommonFrames, ToldFew DEF Kept
<1> HIDE DEF s
<1>3. Spoken(r, Commit(s, <<ConfigChanged(s)>>))
  BY <1>1, <1>2, CommitSpoken
<1> QED
  BY <1>3, RefusedSpoken DEF UpdateConfig, s

LEMMA MoveParticipantSpoken ==
    ASSUME NEW r, IsRoom(r), NEW p
    PROVE  Spoken(r, MoveParticipant(r, p))
<1> DEFINE s == [WithStory(r) EXCEPT !.look = ~@, !.config.shuffle = FALSE]
           frames == << Frame(s, "seat_layout_changed", Layout(s)) >>
                     \o (IF r.config.shuffle THEN <<ConfigChanged(s)>> ELSE <<>>)
                     \o <<FeedAppended(s)>>
<1>1. Kept(r, s)
  <2> DEFINE q == WithStory(r)
  <2>1. Kept(r, q)
    BY WithStoryKept
  <2> HIDE DEF q
  <2>2. Kept(q, [q EXCEPT !.look = ~@, !.config.shuffle = FALSE])
    BY <2>1 DEF Kept, IsRoom
  <2> QED
    BY <2>1, <2>2 DEF Kept, q
<1> HIDE DEF s
<1>2. /\ Told(<< Frame(s, "seat_layout_changed", Layout(s)) >>)
      /\ Told(IF r.config.shuffle THEN <<ConfigChanged(s)>> ELSE <<>>)
      /\ Told(<<FeedAppended(s)>>)
  BY <1>1, CommonFrames, ToldFew, ToldEmpty DEF Kept
<1>3. Told(frames)
  BY <1>2, ToldConcat
<1>4. Spoken(r, Commit(s, frames))
  BY <1>1, <1>3, CommitSpoken
<1> QED
  BY <1>4, RefusedSpoken DEF MoveParticipant, s

LEMMA RandomizeNowSpoken ==
    ASSUME NEW r, IsRoom(r), NEW p, NEW o \in RandomizeNow(r, p)
    PROVE  Spoken(r, o)
<1> DEFINE s(look) == [WithStory(r) EXCEPT !.look = look, !.config.shuffle = FALSE]
           frames(look) == << Frame(s(look), "seat_layout_changed", Layout(s(look))),
                              ConfigChanged(s(look)), FeedAppended(s(look)) >>
<1>1. ASSUME NEW look PROVE Spoken(r, Commit(s(look), frames(look)))
  <2>1. Kept(r, s(look))
    BY WithStoryKept, ZenonT(60) DEF Kept, IsRoom
  <2> HIDE DEF s
  <2>2. Told(frames(look))
    BY <2>1, CommonFrames, ToldFew DEF Kept
  <2> QED
    BY <2>1, <2>2, CommitSpoken
<1>2. PICK look \in BOOLEAN : o = IF r.people[p].host THEN Commit(s(look), frames(look)) ELSE Refused(r)
  BY DEF RandomizeNow
<1> QED
  BY <1>1, <1>2, RefusedSpoken

\* Who is left when somebody leaves.
LEMMA LeaveSpoken ==
    ASSUME NEW r, IsRoom(r), NEW p
    PROVE  Spoken(r, Leave(r, p))
<1> DEFINE people == [q \in DOMAIN r.people \ {p} |-> r.people[q]]
           s == [WithStory(r) EXCEPT !.people = people]
           frames == <<PeopleChanged(s), FeedAppended(s)>>
<1>1. Kept(r, s)
  BY WithStoryKept DEF Kept, IsRoom
<1>2. Told(<<Ack(NewVersion(r))>>)
  BY NewVersionKept, CommonFrames, ToldFew DEF Kept
<1> HIDE DEF s
<1>3. Told(frames)
  BY <1>1, CommonFrames, ToldFew DEF Kept
<1>4. Spoken(r, Commit(s, frames)) /\ Spoken(r, Deletion(<<Ack(NewVersion(r))>>))
  BY <1>1, <1>2, <1>3, CommitSpoken, DeletionSpoken
<1>5. Spoken(r, [Commit(s, frames) EXCEPT !.dismissed = p, !.below = r.people[p].gen + 1, !.reason = "leave"])
  BY <1>4, <1>1, RoomExists DEF Spoken, Commit, Outcome, Kept
<1> QED
  BY <1>4, <1>5 DEF Leave, s

\* The draft.
LEMMA StartDraftSpoken ==
    ASSUME NEW r, IsRoom(r), r.phase = "lobby", NEW p, NEW expected
    PROVE  Spoken(r, StartDraft(r, p, expected))
<1> DEFINE s == [WithStory(r) EXCEPT !.phase = "picking", !.ring = DOMAIN r.people,
                                     !.config.shuffle = FALSE, !.deadline = PickDeadline(r)]
           frames == <<FeedAppended(s)>> \o AnnouncePhase(s)
<1>1. PickDeadline(r) \in Deadline
  BY DEF PickDeadline, Deadline
<1>2. Kept(r, s)
  <2> DEFINE w == WithStory(r)
  <2>1. IsRoom(w) /\ w.minted = r.minted /\ w.claimSpent = r.claimSpent /\ DOMAIN r.people \subseteq 1 .. w.minted
    BY WithStoryKept DEF Kept, IsRoom
  <2>2. w.turn <= LastTurn
    BY WithStoryKept DEF IsRoom
  <2> HIDE DEF w
  <2>3. s.phase = "picking" /\ s.turn = w.turn
    BY <2>1 DEF w, IsRoom
  <2>4. s \in [phase : {"lobby", "picking", "review", "complete"}, version : Nat, turn : 1 .. LastTurn + 1,
                  people : {w.people}, minted : {w.minted}, claimSpent : {w.claimSpent}, look : {s.look},
                  config : {s.config}, options : {s.options}, ring : SUBSET (1 .. w.minted),
                  queued : SUBSET (1 .. w.minted), deadline : Deadline, story : {s.story}]
    BY <1>1, <2>1 DEF w, IsRoom
  <2> HIDE DEF s
  <2>5. Kept(w, s)
    BY <2>1, <2>2, <2>3, <2>4, Changed
  <2> QED
    BY <2>1, <2>5 DEF Kept
<1> HIDE DEF s
<1>3. Told(frames)
  <2>1. Told(<<FeedAppended(s)>>) /\ Told(AnnouncePhase(s))
    BY <1>2, CommonFrames, ToldFew, PhaseTold DEF Kept
  <2> QED
    BY <2>1, ToldConcat
<1>4. Spoken(r, Commit(s, frames))
  BY <1>2, <1>3, CommitSpoken
<1>5. Spoken(r, [Commit(s, frames) EXCEPT !.views = TRUE])
  BY <1>4 DEF Spoken, Commit, Outcome
<1> QED
  BY <1>5, RefusedSpoken DEF StartDraft, s

LEMMA ConfirmationKept ==
    ASSUME NEW r, NEW s, Kept(r, s), NEW u \in ConfirmationAfter(s)
    PROVE  Kept(r, u)
<1>1. Kept(r, [s EXCEPT !.deadline = "soon"])
  BY DEF Kept, IsRoom, Deadline
<1>2. u \in {s, [s EXCEPT !.deadline = "soon"]}
  BY DEF ConfirmationAfter
<1> QED
  BY <1>1, <1>2

LEMMA QueuePickSpoken ==
    ASSUME NEW r, IsRoom(r), NEW p \in DOMAIN r.people, NEW turn, NEW o \in QueuePick(r, p, turn)
    PROVE  Spoken(r, o)
<1> DEFINE s == [NewVersion(r) EXCEPT !.queued = @ \cup {p}]
           ack(u) == <<Frame(u, "ack", [queued |-> TRUE])>>
           mark(u) == <<Frame(u, "queue_status_changed", [seat |-> p])>>
<1>1. Kept(r, s)
  BY NewVersionKept DEF Kept, IsRoom
<1>2. ASSUME NEW u \in ConfirmationAfter(s)
      PROVE  Spoken(r, [Outcome(u) EXCEPT !.reply = ack(u), !.tell = mark(u)])
  <2>1. Kept(r, u) /\ u # Deleted
    BY <1>1, ConfirmationKept, RoomExists DEF Kept
  <2>2. Told(ack(u)) /\ Told(mark(u))
    BY <2>1, CommonFrames, ToldFew DEF Kept
  <2> HIDE DEF s, ack, mark
  <2> QED
    BY <2>1, <2>2, ToldEmpty DEF Spoken, Outcome
<1>3. CASE p \notin r.ring \/ turn # r.turn
  BY <1>3, RefusedSpoken DEF QueuePick
<1>4. CASE ~(p \notin r.ring \/ turn # r.turn)
  <2>1. PICK u \in ConfirmationAfter(s) : o = [Outcome(u) EXCEPT !.reply = ack(u), !.tell = mark(u)]
    BY <1>4 DEF QueuePick
  <2> QED
    BY <1>2, <2>1
<1> QED
  BY <1>3, <1>4

\* A command of somebody, whoever they are to the room.
LEMMA CommandSpoken ==
    ASSUME NEW r, IsRoom(r), NEW p, NEW m, m.type \in CommandTypes, NEW o \in HandleCommand(r, p, m)
    PROVE  Spoken(r, o)
<1>1. CASE p \notin DOMAIN r.people
  <2>1. Kept(r, r) /\ r # Deleted
    BY RoomExists DEF Kept
  <2> QED
    BY <1>1, <2>1, ToldEmpty DEF HandleCommand, Spoken, Outcome
<1>2. CASE p \in DOMAIN r.people /\ m.type = "resync"
  <2>1. Kept(r, r) /\ r # Deleted
    BY RoomExists DEF Kept
  <2>2. Told(<<Snapshot(r)>> \o PrivateView(r, p))
    BY CommonFrames, ToldFew, ViewTold, ToldConcat
  <2>3. Spoken(r, Resync(r, p))
    BY <2>1, <2>2, ToldEmpty DEF Resync, Spoken, Outcome
  <2> QED
    BY <1>2, <2>3 DEF HandleCommand
<1>3. CASE p \in DOMAIN r.people /\ m.type = "queue_pick"
  BY <1>3, QueuePickSpoken, RefusedSpoken DEF HandleCommand
<1>4. CASE p \in DOMAIN r.people /\ m.type \notin {"resync", "queue_pick"} /\ r.phase # "lobby"
  BY <1>4, RefusedSpoken DEF HandleCommand
<1>5. CASE p \in DOMAIN r.people /\ m.type \notin {"resync", "queue_pick"} /\ r.phase = "lobby"
  <2>1. CASE m.type = "start_draft"
    BY <1>5, <2>1, StartDraftSpoken DEF HandleCommand
  <2>2. CASE m.type = "update_config"
    BY <1>5, <2>2, UpdateConfigSpoken DEF HandleCommand
  <2>3. CASE m.type = "move_participant"
    BY <1>5, <2>3, MoveParticipantSpoken DEF HandleCommand
  <2>4. CASE m.type = "set_seat_randomization"
    BY <1>5, <2>4, RandomizeNowSpoken DEF HandleCommand
  <2>5. CASE m.type = "leave"
    BY <1>5, <2>5, LeaveSpoken DEF HandleCommand
  <2> QED
    BY <1>5, <2>1, <2>2, <2>3, <2>4, <2>5 DEF CommandTypes
<1> QED
  BY <1>1, <1>2, <1>3, <1>4, <1>5

\* A close, a sweep and a deadline.
LEMMA AbsentSpoken ==
    ASSUME NEW r, IsRoom(r), NEW p \in DOMAIN r.people, NEW o \in Absent(r, p)
    PROVE  Spoken(r, o)
<1> DEFINE w == WithStory(r)
           people == [r.people EXCEPT ![p] = [r.people[p] EXCEPT !.connected = FALSE]]
           s == [w EXCEPT !.people = people]
           frames(u) == <<PeopleChanged(u), FeedAppended(u)>>
<1>1. IsRoom(w) /\ w.people = r.people /\ Kept(r, w)
  BY WithStoryKept DEF Kept
<1> HIDE DEF w
<1>2. /\ people \in [DOMAIN r.people -> Person]
      /\ \A q \in DOMAIN r.people : people[q].host = r.people[q].host
  BY ZenonT(40) DEF IsRoom, Person
<1>3. [w EXCEPT !.people[p].connected = FALSE] = s
  BY <1>1
<1> HIDE DEF people, s
<1>4. Kept(r, s)
  <2>1. DOMAIN people = DOMAIN r.people
    BY <1>2
  <2> QED
    BY <1>1, <1>2, <2>1 DEF Kept, IsRoom, s
<1>5. PICK u \in ConfirmationAfter(s) : o = [Outcome(u) EXCEPT !.tell = frames(u)]
  BY <1>3 DEF Absent, w
<1>6. Kept(r, u) /\ u # Deleted
  BY <1>4, ConfirmationKept, RoomExists DEF Kept
<1>7. Told(frames(u))
  BY <1>6, CommonFrames, ToldFew DEF Kept
<1> QED
  BY <1>5, <1>6, <1>7, ToldEmpty DEF Spoken, Outcome

LEMMA ReconciledSpoken ==
    ASSUME NEW r, IsRoom(r), NEW live
    PROVE  Spoken(r, Reconciled(r, live))
<1> DEFINE w == NewVersion(r)
           there(p) == r.people[p].connected /\ p \in live
           people == [p \in DOMAIN r.people |-> [r.people[p] EXCEPT !.connected = there(p)]]
           s == [w EXCEPT !.people = people]
<1>1. Kept(r, w) /\ IsRoom(w) /\ w.people = r.people
  BY NewVersionKept DEF Kept, NewVersion, IsRoom
<1>2. \A p : there(p) \in BOOLEAN
  OBVIOUS
<1>3. Reconciled(r, live) = [Outcome(s) EXCEPT !.tell = <<PeopleChanged(s)>>]
  BY DEF Reconciled
<1> HIDE DEF there, w
<1>4. /\ people \in [DOMAIN r.people -> Person]
      /\ \A q \in DOMAIN r.people : people[q].host = r.people[q].host
  BY <1>1, <1>2 DEF IsRoom, Person
<1> HIDE DEF people
<1>5. Kept(r, s) /\ s # Deleted
  <2>1. DOMAIN people = DOMAIN r.people
    BY <1>4
  <2> QED
    BY <1>1, <1>4, <2>1, RoomExists DEF Kept, IsRoom
<1> HIDE DEF s
<1>6. Told(<<PeopleChanged(s)>>)
  BY <1>5, CommonFrames, ToldFew DEF Kept
<1> QED
  BY <1>3, <1>5, <1>6, ToldEmpty DEF Spoken, Outcome

LEMMA AdvancedSpoken ==
    ASSUME NEW r, IsRoom(r), NEW phase \in {"picking", "review", "complete"},
           r.phase # "review" => r.turn <= LastTurn /\ (phase # "complete" => r.turn < LastTurn),
           r.phase = "review" => phase = "picking"
    PROVE  Spoken(r, Advanced(r, phase))
<1> DEFINE w == NewVersion(r)
           deadline == CASE phase = "complete" -> "ttl" [] phase = "review" -> "review" [] OTHER -> PickDeadline(r)
           turn == IF r.phase = "review" THEN w.turn ELSE w.turn + 1
           queued == IF r.phase = "review" THEN w.queued ELSE {}
           story == IF phase = "picking" THEN w.story ELSE w.story + 1
           s == [w EXCEPT !.phase = phase, !.turn = turn, !.queued = queued,
                          !.story = story, !.deadline = deadline]
           frames == AnnouncePhase(s) \o (IF phase = "picking" THEN <<>> ELSE <<FeedAppended(s)>>)
<1>1. Kept(r, w) /\ IsRoom(w) /\ w.turn = r.turn /\ w.phase = r.phase
  BY NewVersionKept DEF Kept, NewVersion, IsRoom
<1>2. deadline \in Deadline
  BY DEF PickDeadline, Deadline
<1>3. turn \in 1 .. LastTurn + 1 /\ (phase # "complete" => turn <= LastTurn)
  <2>1. w.turn \in 1 .. LastTurn + 1
    BY <1>1 DEF IsRoom
  <2>2. r.phase = "review" => w.turn <= LastTurn
    BY <1>1 DEF IsRoom
  <2> QED
    BY <1>1, <2>1, <2>2, BoundsAssumption
<1>4. queued \subseteq 1 .. w.minted
  BY <1>1 DEF IsRoom
<1>5. Advanced(r, phase) = [Outcome(s) EXCEPT !.tell = frames, !.views = TRUE]
  BY DEF Advanced
<1> HIDE DEF w, deadline, turn, queued, story
<1>6. s \in [phase : {"lobby", "picking", "review", "complete"}, version : Nat, turn : 1 .. LastTurn + 1,
             people : {w.people}, minted : {w.minted}, claimSpent : {w.claimSpent}, look : {s.look},
             config : {s.config}, options : {s.options}, ring : SUBSET (1 .. w.minted),
             queued : SUBSET (1 .. w.minted), deadline : Deadline, story : {s.story}]
  BY <1>1, <1>2, <1>3, <1>4 DEF IsRoom
<1>7. s.phase = phase /\ s.turn = turn
  BY <1>1 DEF IsRoom
<1> HIDE DEF s
<1>8. Kept(w, s)
  BY <1>1, <1>3, <1>6, <1>7, Changed
<1>9. Kept(r, s) /\ s # Deleted
  BY <1>1, <1>8, RoomExists DEF Kept
<1>10. Told(frames)
  <2>1. Told(AnnouncePhase(s)) /\ Told(IF phase = "picking" THEN <<>> ELSE <<FeedAppended(s)>>)
    BY <1>9, CommonFrames, PhaseTold, ToldFew, ToldEmpty DEF Kept
  <2> QED
    BY <2>1, ToldConcat
<1> HIDE DEF frames
<1> QED
  BY <1>5, <1>9, <1>10, ToldEmpty DEF Spoken, Outcome

LEMMA AlarmSpoken ==
    ASSUME NEW r, IsRoom(r), r.phase # "lobby", NEW o \in DeadlineAlarm(r)
    PROVE  Spoken(r, o)
<1>1. r.turn \in 1 .. LastTurn + 1 /\ (r.phase # "complete" => r.turn <= LastTurn)
      /\ r.phase \in {"lobby", "picking", "review", "complete"}
  BY DEF IsRoom
<1>2. CASE r.phase = "complete"
  BY <1>2, ToldEmpty, DeletionSpoken DEF DeadlineAlarm
<1>3. CASE r.phase = "review"
  <2>1. Spoken(r, Advanced(r, "picking"))
    BY <1>3, AdvancedSpoken
  <2> QED
    BY <1>3, <2>1 DEF DeadlineAlarm
<1>4. CASE r.phase = "picking" /\ r.turn = LastTurn
  <2>1. Spoken(r, Advanced(r, "complete"))
    BY <1>1, <1>4, AdvancedSpoken
  <2> QED
    BY <1>4, <2>1 DEF DeadlineAlarm
<1>5. CASE r.phase = "picking" /\ r.turn # LastTurn
  <2>1. Spoken(r, Advanced(r, "picking")) /\ Spoken(r, Advanced(r, "review"))
    BY <1>1, <1>5, AdvancedSpoken, BoundsAssumption
  <2> QED
    BY <1>5, <2>1 DEF DeadlineAlarm
<1> QED
  BY <1>1, <1>2, <1>3, <1>4, <1>5

\* A hello that is let in: a returning identity, or one nobody had; the claim
\* it carries had not been spent.
Welcomed(r, m, o) ==
    /\ IsRoom(o.room)
    /\ o.self \in DOMAIN o.room.people
    /\ \/ o.self = m.credential /\ o.room.minted = r.minted
       \/ o.self = r.minted + 1 /\ o.room.minted = r.minted + 1
    /\ o.room.claimSpent = (r.claimSpent \/ m.claim) /\ (m.claim => ~r.claimSpent)
    /\ o.reason = "superseded" /\ o.dismissed = o.self /\ o.below = o.room.people[o.self].gen
    /\ Proper(o.reply) /\ Told(o.tell) /\ Told(o.others)
    /\ \A f \in Range(o.reply) : IsTold(f) \/ (f.type = "hello_ack" /\ f.version \in Int /\ f.body.self = o.self)

\* The room after a hello, and its people.
WithNewcomer(r, p, self, minted, claim) ==
    [WithStory(r) EXCEPT !.people = [q \in DOMAIN @ \cup {p} |-> IF q = p THEN self ELSE @[q]],
                         !.minted = minted, !.claimSpent = @ \/ claim]

LEMMA Newcomer ==
    ASSUME NEW r, IsRoom(r), NEW p \in Nat, NEW self \in Person, NEW minted \in Nat, NEW claim \in BOOLEAN,
           p \in 1 .. minted, r.minted <= minted,
           claim => ~r.claimSpent,
           self.host => claim \/ (p \in DOMAIN r.people /\ r.people[p].host)
    PROVE  LET s == WithNewcomer(r, p, self, minted, claim)
           IN  /\ IsRoom(s) /\ p \in DOMAIN s.people /\ s.minted = minted
               /\ s.claimSpent = (r.claimSpent \/ claim)
<1> DEFINE w == WithStory(r)
           people == [q \in DOMAIN r.people \cup {p} |-> IF q = p THEN self ELSE r.people[q]]
           spent == r.claimSpent \/ claim
           s == [w EXCEPT !.people = people, !.minted = minted, !.claimSpent = spent]
<1>1. IsRoom(w) /\ w.people = r.people /\ w.minted = r.minted /\ w.claimSpent = r.claimSpent
  BY WithStoryKept DEF Kept
<1>2. WithNewcomer(r, p, self, minted, claim) = s
  BY <1>1 DEF WithNewcomer
<1>3. spent \in BOOLEAN
  OBVIOUS
<1>4. /\ DOMAIN people = DOMAIN r.people \cup {p}
      /\ \A q \in DOMAIN people : people[q] = IF q = p THEN self ELSE r.people[q]
      /\ people = [q \in DOMAIN people |-> people[q]]
  OBVIOUS
<1>5. people \in [DOMAIN people -> Person]
  BY <1>4 DEF IsRoom
<1>6. DOMAIN people \subseteq 1 .. minted
  BY <1>4 DEF IsRoom
<1>7. /\ \A q \in DOMAIN people : people[q].host => spent
      /\ \A q, t \in DOMAIN people : people[q].host /\ people[t].host => q = t
  BY <1>4 DEF IsRoom
<1>8. r.ring \cup r.queued \subseteq 1 .. minted /\ w.ring = r.ring /\ w.queued = r.queued
  BY DEF IsRoom, WithStory, NewVersion
<1> HIDE DEF people, spent, w
<1>9. IsRoom(s) /\ DOMAIN s.people = DOMAIN people /\ s.minted = minted /\ s.claimSpent = spent
  BY <1>1, <1>3, <1>5, <1>6, <1>7, <1>8 DEF IsRoom
<1> HIDE DEF s
<1>10. p \in DOMAIN people
  BY <1>4
<1>11. s.claimSpent = (r.claimSpent \/ claim)
  BY <1>9 DEF spent
<1> QED
  BY <1>2, <1>9, <1>10, <1>11

LEMMA TurnedAwaySpoken ==
    ASSUME NEW r, IsRoom(r), NEW why \in {"wrong_password", "room_full", "spectators_disabled"}
    PROVE  LET o == TurnedAway(r, why)
           IN  Spoken(r, o) /\ o.reason # "none" /\ o.dismissed = Nobody
<1> DEFINE error == [type |-> "error", version |-> 0, body |-> Nothing]
<1>1. IsTold(error)
  BY DEF IsTold
<1>2. Told(<<error>>) /\ Kept(r, r) /\ r # Deleted
  BY <1>1, ToldFew, RoomExists DEF Kept
<1> QED
  BY <1>2, ToldEmpty DEF Spoken, TurnedAway, Outcome

LEMMA WelcomeSays ==
    ASSUME NEW s, IsRoom(s), NEW p \in DOMAIN s.people, NEW minted
    PROVE  LET o == Welcome(s, p, minted)
           IN  /\ o.room = s /\ o.self = p /\ o.reason = "superseded" /\ o.dismissed = p
               /\ o.below = s.people[p].gen
               /\ Proper(o.reply) /\ Told(o.tell) /\ Told(o.others)
               /\ \A f \in Range(o.reply) :
                      IsTold(f) \/ (f.type = "hello_ack" /\ f.version \in Int /\ f.body.self = p)
<1> DEFINE ack == Frame(s, "hello_ack", [self |-> p, minted |-> minted])
           o == Welcome(s, p, minted)
<1>1. ack.type = "hello_ack" /\ ack.version \in Int /\ ack.body.self = p
  BY DEF Frame, IsRoom
<1> HIDE DEF ack
<1>2. Proper(<<ack, Snapshot(s)>>) /\ Range(<<ack, Snapshot(s)>>) = {ack, Snapshot(s)}
  BY ProperFew
<1>3. Told(PrivateView(s, p)) /\ IsTold(Snapshot(s)) /\ Told(<<PeopleChanged(s), FeedAppended(s)>>)
  BY ViewTold, CommonFrames, ToldFew
<1>4. /\ Proper(<<ack, Snapshot(s)>> \o PrivateView(s, p))
      /\ Range(<<ack, Snapshot(s)>> \o PrivateView(s, p)) = {ack, Snapshot(s)} \cup Range(PrivateView(s, p))
  BY <1>2, <1>3, ProperConcat DEF Told
<1>5. /\ o.room = s /\ o.self = p /\ o.reason = "superseded" /\ o.dismissed = p /\ o.below = s.people[p].gen
      /\ o.reply = <<ack, Snapshot(s)>> \o PrivateView(s, p)
      /\ o.others = <<PeopleChanged(s), FeedAppended(s)>> /\ o.tell = <<>>
  BY DEF Welcome, Outcome, ack
<1> HIDE DEF o
<1>6. \A f \in Range(o.reply) : IsTold(f) \/ (f.type = "hello_ack" /\ f.version \in Int /\ f.body.self = p)
  BY <1>1, <1>3, <1>4, <1>5 DEF Told
<1> QED
  BY <1>3, <1>4, <1>5, <1>6, ToldEmpty DEF o

\* Somebody who returns.
LEMMA Rejoining ==
    ASSUME NEW x \in Person, NEW host \in BOOLEAN
    PROVE  LET self == [x EXCEPT !.connected = TRUE, !.host = host, !.gen = @ + 1]
           IN  self \in Person /\ self.host = host
<1>1. x.gen + 1 \in Nat \ {0}
  BY DEF Person
<1>2. \A gen \in Nat \ {0} : [x EXCEPT !.connected = TRUE, !.host = host, !.gen = gen] \in Person
  BY DEF Person
<1>3. [x EXCEPT !.connected = TRUE, !.host = host, !.gen = x.gen + 1].host = host
  BY DEF Person
<1> QED
  BY <1>1, <1>2, <1>3

\* A hello, while the claim it may carry is not spent.
LEMMA HelloSpoken ==
    ASSUME NEW r, IsRoom(r), NEW m, IsHello(m), m.claim => ~r.claimSpent
    PROVE  LET o == Hello(r, m)
           IN  (Spoken(r, o) /\ o.reason # "none" /\ o.dismissed = Nobody) \/ Welcomed(r, m, o)
<1> DEFINE returning == m.credential \in DOMAIN r.people
           p == IF returning THEN m.credential ELSE r.minted + 1
           host == IF returning THEN r.people[p].host \/ m.claim ELSE m.claim
           self == IF returning
                   THEN [r.people[p] EXCEPT !.connected = TRUE, !.host = host, !.gen = @ + 1]
                   ELSE [connected |-> TRUE, host |-> host, gen |-> 1]
           minted == IF returning THEN WithStory(r).minted ELSE WithStory(r).minted + 1
           s == WithNewcomer(r, p, self, minted, m.claim)
           o == Welcome(s, p, ~returning)
<1>1. m.credential \in Nat /\ m.claim \in BOOLEAN
  BY DEF IsHello
<1>2. r.minted \in Nat /\ DOMAIN r.people \subseteq 1 .. r.minted /\ WithStory(r).minted = r.minted
  BY WithStoryKept DEF IsRoom, Kept
<1>3. p \in Nat /\ minted \in Nat /\ p \in 1 .. minted /\ r.minted <= minted
  BY <1>1, <1>2
<1>4. host \in BOOLEAN
  BY <1>1 DEF IsRoom, Person
<1>5. self \in Person /\ self.host = host
  <2> HIDE DEF host
  <2>1. CASE returning
    <3>1. r.people[p] \in Person
      BY <2>1 DEF IsRoom
    <3> HIDE DEF p, returning
    <3> QED
      BY <1>4, <2>1, <3>1, Rejoining
  <2>2. CASE ~returning
    BY <1>4, <2>2 DEF Person
  <2> QED
    BY <2>1, <2>2
<1>6. host => m.claim \/ (p \in DOMAIN r.people /\ r.people[p].host)
  OBVIOUS
<1>7. IsRoom(s) /\ p \in DOMAIN s.people /\ s.minted = minted /\ s.claimSpent = (r.claimSpent \/ m.claim)
  <2> HIDE DEF p, self, minted, host, returning
  <2> QED
    BY <1>1, <1>3, <1>5, <1>6, Newcomer
<1>8. Hello(r, m) = o \/ \E why \in {"wrong_password", "room_full", "spectators_disabled"} : Hello(r, m) = TurnedAway(r, why)
  BY DEF Hello, WithNewcomer
<1>9. /\ \/ p = m.credential /\ minted = r.minted
         \/ p = r.minted + 1 /\ minted = r.minted + 1
      /\ m.claim => ~r.claimSpent
  BY <1>2
<1>10. Welcomed(r, m, o)
  <2> HIDE DEF p, self, minted, host, returning, s
  <2> QED
    BY <1>7, <1>9, WelcomeSays DEF Welcomed
<1> QED
  BY <1>8, <1>10, TurnedAwaySpoken

-----------------------------------------------------------------------------
(* Sockets.                                                                *)

\* What stays of a socket that hears something.
SameLink(k, h) ==
    /\ h.code = k.code /\ h.driver = k.driver /\ h.heard = k.heard /\ h.listed = k.listed
    /\ h.cut = k.cut /\ h.up = k.up

LEMMA SentFacts ==
    ASSUME NEW k, IsLink(k), NEW frames, Proper(frames)
    PROVE  LET h == Sent(k, frames)
           IN  /\ IsLink(h) /\ SameLink(k, h) /\ h.pid = k.pid /\ h.gen = k.gen /\ h.open = k.open
               /\ Range(h.down) = Range(k.down) \cup (IF k.open /\ ~k.cut THEN Range(frames) ELSE {})
<1>1. Proper(k.down \o frames) /\ Range(k.down \o frames) = Range(k.down) \cup Range(frames)
  BY ProperConcat DEF IsLink
<1>2. CASE k.open /\ ~k.cut
  <2> DEFINE down == k.down \o frames
             h == [k EXCEPT !.down = down]
  <2> HIDE DEF down
  <2>1. IsLink(h) /\ SameLink(k, h) /\ h.pid = k.pid /\ h.gen = k.gen /\ h.open = k.open /\ h.down = down
    BY <1>1 DEF IsLink, SameLink, down
  <2> QED
    BY <1>1, <1>2, <2>1 DEF Sent, down
<1>3. CASE ~(k.open /\ ~k.cut)
  BY <1>3 DEF Sent, SameLink
<1> QED
  BY <1>2, <1>3

LEMMA ClosedFacts ==
    ASSUME NEW k, IsLink(k), NEW code, NEW reason
    PROVE  LET h == ClosedByRoom(k, code, reason)
           IN  /\ IsLink(h) /\ SameLink(k, h) /\ h.pid = k.pid /\ h.gen = k.gen /\ ~h.open
               /\ Range(h.down) = Range(k.down)
                                  \cup (IF k.open /\ ~k.cut THEN {CloseFrame(code, reason)} ELSE {})
<1> DEFINE s == Sent(k, <<CloseFrame(code, reason)>>)
           h == [s EXCEPT !.open = FALSE]
<1>1. Proper(<<CloseFrame(code, reason)>>) /\ Range(<<CloseFrame(code, reason)>>) = {CloseFrame(code, reason)}
  BY ProperFew
<1>2. /\ IsLink(s) /\ SameLink(k, s) /\ s.pid = k.pid /\ s.gen = k.gen
      /\ Range(s.down) = Range(k.down) \cup (IF k.open /\ ~k.cut THEN {CloseFrame(code, reason)} ELSE {})
  BY <1>1, SentFacts
<1> HIDE DEF s
<1>3. IsLink(h) /\ SameLink(s, h) /\ h.pid = s.pid /\ h.gen = s.gen /\ h.open = FALSE /\ h.down = s.down
  BY <1>2 DEF IsLink, SameLink
<1> QED
  BY <1>2, <1>3 DEF ClosedByRoom, s, SameLink

\* An outcome whose frames are what they should be.
Speech(o) ==
    /\ o.room = Deleted \/ IsRoom(o.room)
    /\ o.self # Nobody => IsRoom(o.room) /\ o.self \in DOMAIN o.room.people
    /\ Proper(o.reply) /\ Told(o.tell) /\ Told(o.others)
    /\ \A f \in Range(o.reply) :
           IsTold(f) \/ (f.type = "hello_ack" /\ f.version \in Int /\ o.self # Nobody /\ f.body.self = o.self)

LEMMA SpokenSpeech ==
    ASSUME NEW r, NEW o, Spoken(r, o)
    PROVE  Speech(o)
BY DEF Spoken, Speech, Told, Kept

LEMMA WelcomedSpeech ==
    ASSUME NEW r, NEW m, NEW o, Welcomed(r, m, o)
    PROVE  Speech(o) /\ o.self # Nobody /\ o.room # Deleted
<1>1. o.self # Nobody
  BY NobodyAssumption DEF Welcomed, IsRoom
<1>2. o.room # Deleted
  BY RoomExists DEF Welcomed
<1> QED
  BY <1>1, <1>2 DEF Welcomed, Speech

\* Whom an outcome closes: a socket h that heard it, of those it is told to.
Dismisses(o, h, l, from) ==
    \/ o.room = Deleted
    \/ o.reason # "none" /\ o.dismissed = Nobody /\ l = from
    \/ o.dismissed # Nobody /\ h.pid = o.dismissed /\ h.gen < o.below

LEMMA HearsFacts ==
    ASSUME NEW l \in Link, IsLink(links[l]), NEW from, NEW o, Speech(o)
    PROVE  LET k == links[l]
               h == Hears(o, l, from)
               code == IF o.reason = "superseded" THEN "superseded" ELSE "refused"
           IN  /\ IsLink(h) /\ SameLink(k, h)
               /\ h.pid = IF l = from /\ o.self # Nobody THEN o.self ELSE k.pid
               /\ h.gen = IF l = from /\ o.self # Nobody THEN o.room.people[o.self].gen ELSE k.gen
               /\ h.open <=> k.open /\ ~Dismisses(o, h, l, from)
               /\ \A f \in Range(h.down) :
                      \/ f \in Range(k.down)
                      \/ IsTold(f)
                      \/ f.type = "hello_ack" /\ f.version \in Int /\ o.self # Nobody /\ l = from /\ f.body.self = o.self
                      \/ f = CloseFrame(code, o.reason) /\ Dismisses(o, h, l, from) /\ k.open /\ ~k.cut
<1> DEFINE k == links[l]
           h == Hears(o, l, from)
           code == IF o.reason = "superseded" THEN "superseded" ELSE "refused"
           attached == IF l = from /\ o.self # Nobody
                       THEN [k EXCEPT !.pid = o.self, !.gen = o.room.people[o.self].gen] ELSE k
           replied == IF l = from THEN Sent(attached, o.reply) ELSE attached
           dismissed == Dismisses(o, attached, l, from)
           said == o.tell \o (IF l = from THEN <<>> ELSE o.others)
                          \o (IF o.views THEN PrivateView(o.room, attached.pid) ELSE <<>>)
<1>1. h = IF dismissed THEN ClosedByRoom(replied, code, o.reason)
          ELSE IF attached.pid = Nobody THEN replied ELSE Sent(replied, said)
  BY DEF Hears, Dismisses
<1>2. /\ IsLink(attached) /\ SameLink(k, attached) /\ attached.open = k.open /\ attached.down = k.down
      /\ attached.pid = IF l = from /\ o.self # Nobody THEN o.self ELSE k.pid
      /\ attached.gen = IF l = from /\ o.self # Nobody THEN o.room.people[o.self].gen ELSE k.gen
  <2>1. o.self # Nobody => o.self \in Nat \ {0} /\ o.room.people[o.self].gen \in Nat
    BY DEF Speech, IsRoom, Person
  <2> QED
    BY <2>1 DEF IsLink, SameLink
<1> HIDE DEF attached
<1>3. /\ IsLink(replied) /\ SameLink(k, replied) /\ replied.open = k.open
      /\ replied.pid = attached.pid /\ replied.gen = attached.gen
      /\ \A f \in Range(replied.down) : f \in Range(k.down) \/ (l = from /\ f \in Range(o.reply))
  BY <1>2, SentFacts DEF Speech, SameLink
<1> HIDE DEF replied
<1>4. o.room # Deleted => Told(said)
  <2>1. Told(IF l = from THEN <<>> ELSE o.others)
    BY ToldEmpty DEF Speech
  <2>2. o.room # Deleted => Told(IF o.views THEN PrivateView(o.room, attached.pid) ELSE <<>>)
    BY ToldEmpty, ViewTold DEF Speech
  <2> QED
    BY <2>1, <2>2, ToldConcat DEF Speech
<1> HIDE DEF said
<1>5. CASE dismissed
  <2>1. h = ClosedByRoom(replied, code, o.reason)
    BY <1>1, <1>5
  <2> HIDE DEF h, code
  <2>2. /\ IsLink(h) /\ SameLink(replied, h) /\ h.pid = replied.pid /\ h.gen = replied.gen /\ ~h.open
        /\ Range(h.down) = Range(replied.down)
                           \cup (IF replied.open /\ ~replied.cut THEN {CloseFrame(code, o.reason)} ELSE {})
    BY <1>3, <2>1, ClosedFacts
  <2>3. Dismisses(o, h, l, from)
    BY <1>3, <1>5, <2>2 DEF Dismisses
  <2>4. SameLink(k, h)
    BY <1>2, <1>3, <2>2 DEF SameLink
  <2>5. ASSUME NEW f \in Range(h.down)
        PROVE  \/ f \in Range(k.down)
               \/ IsTold(f)
               \/ f.type = "hello_ack" /\ f.version \in Int /\ o.self # Nobody /\ l = from /\ f.body.self = o.self
               \/ f = CloseFrame(code, o.reason) /\ Dismisses(o, h, l, from) /\ k.open /\ ~k.cut
    <3>1. CASE f \in Range(replied.down)
      BY <1>3, <3>1 DEF Speech
    <3>2. CASE f = CloseFrame(code, o.reason) /\ replied.open /\ ~replied.cut
      BY <1>3, <2>3, <3>2 DEF SameLink
    <3> QED
      BY <2>2, <3>1, <3>2
  <2> QED
    BY <1>2, <1>3, <2>2, <2>3, <2>4, <2>5 DEF h, code
<1>6. CASE ~dismissed
  <2>1. h = IF attached.pid = Nobody THEN replied ELSE Sent(replied, said)
    BY <1>1, <1>6
  <2> HIDE DEF h, code
  <2>2. o.room # Deleted
    BY <1>6 DEF Dismisses
  <2>3. /\ IsLink(h) /\ SameLink(replied, h) /\ h.pid = replied.pid /\ h.gen = replied.gen /\ h.open = replied.open
        /\ \A f \in Range(h.down) : f \in Range(replied.down) \/ IsTold(f)
    BY <1>3, <1>4, <2>1, <2>2, SentFacts DEF SameLink, Told
  <2>4. ~Dismisses(o, h, l, from)
    BY <1>3, <1>6, <2>3 DEF Dismisses
  <2>5. SameLink(k, h)
    BY <1>2, <1>3, <2>3 DEF SameLink
  <2>6. \A f \in Range(h.down) :
            \/ f \in Range(k.down)
            \/ IsTold(f)
            \/ f.type = "hello_ack" /\ f.version \in Int /\ o.self # Nobody /\ l = from /\ f.body.self = o.self
    BY <1>3, <2>3 DEF Speech
  <2> QED
    BY <1>2, <1>3, <2>3, <2>4, <2>5, <2>6 DEF h, code
<1> QED
  BY <1>5, <1>6

-----------------------------------------------------------------------------
(* What may become of a socket.                                            *)

\* The socket goes on, or fades: its hello is read or lost, it closes, it is
\* taken off the room's list; and nobody new says goodbye for a rival.
Follows(k, h) ==
    /\ h.code = k.code /\ h.driver = k.driver
    /\ h.open => k.open
    /\ h.listed => k.listed
    /\ k.cut => h.cut
    /\ Unread(h) => Unread(k) /\ h.up[1] = k.up[1]

Stays(k, h) ==
    /\ Follows(k, h) /\ h.pid = k.pid
    /\ \A f \in Range(h.down) : IsParting(f) => f \in Range(k.down)

LEMMA StaysSame == ASSUME NEW k PROVE Stays(k, k)
BY DEF Stays, Follows

\* Settled forgets a socket that neither end keeps.
LEMMA SettledFacts ==
    ASSUME NEW k
    PROVE  Settled(k) = k \/ (Settled(k) = NoLink /\ ~k.heard /\ ~k.listed)
BY DEF Settled

\* A socket is no NoLink.
LEMMA LinkUsed == ASSUME NEW k, IsLink(k) PROVE k # NoLink
<1>1. k.code \in Code
  BY DEF IsLink
<1>2. k.code # "none"
  BY <1>1, SessionAssumption
<1> QED
  BY <1>2 DEF NoLink

\* The driver lets go.
LEMMA AbandonedFacts ==
    ASSUME NEW k, Faultless(k)
    PROVE  LET h == Abandoned(k)
           IN  h # NoLink => Faultless(h) /\ Stays(k, h) /\ ~h.heard /\ h.cut
<1> DEFINE a == [k EXCEPT !.heard = FALSE, !.cut = TRUE, !.down = <<>>]
<1>1. Proper(<<>>) /\ Range(<<>>) = {}
  BY ProperEmpty
<1>2. /\ IsLink(a) /\ a.code = k.code /\ a.driver = k.driver /\ a.pid = k.pid /\ a.open = k.open
      /\ a.listed = k.listed /\ a.up = k.up /\ a.down = <<>> /\ ~a.heard /\ a.cut
  BY <1>1 DEF Faultless, IsLink
<1> HIDE DEF a
<1>3. Faultless(a)
  BY <1>1, <1>2 DEF Faultless, Says, Unread
<1>4. Stays(k, a)
  BY <1>1, <1>2 DEF Stays, Follows, Unread
<1> QED
  BY <1>2, <1>3, <1>4, SettledFacts DEF Abandoned, a

\* A command goes into it.
LEMMA WithCommandFacts ==
    ASSUME NEW k, Faultless(k), NEW m, m.type \in CommandTypes
    PROVE  LET h == WithCommand(k, m)
           IN  /\ Faultless(h) /\ Stays(k, h) /\ h.heard = k.heard /\ h.cut = k.cut /\ h.down = k.down
               /\ h.open = k.open /\ h.listed = k.listed
<1>1. CASE k.cut
  BY <1>1, StaysSame DEF WithCommand
<1>2. CASE ~k.cut
  <2> DEFINE up == Append(k.up, m)
             h == [k EXCEPT !.up = up]
  <2>1. /\ Proper(up) /\ Len(up) = Len(k.up) + 1 /\ up[Len(k.up) + 1] = m
        /\ \A i \in 1 .. Len(k.up) : up[i] = k.up[i]
    BY ProperAppend DEF Faultless, IsLink
  <2>2. Proper(k.up) /\ Len(k.up) \in Nat /\ (k.up # <<>> => Len(k.up) >= 1)
    BY ProperFacts, ProperTail DEF Faultless, IsLink
  <2>3. h = WithCommand(k, m)
    BY <1>2 DEF WithCommand
  <2> HIDE DEF up
  <2>4. /\ IsLink(h) /\ h.code = k.code /\ h.driver = k.driver /\ h.pid = k.pid /\ h.open = k.open
        /\ h.listed = k.listed /\ h.heard = k.heard /\ h.cut = k.cut /\ h.up = up /\ h.down = k.down
    BY <2>1 DEF Faultless, IsLink
  <2> HIDE DEF h
  <2>5. Unread(h) => Unread(k) /\ h.up[1] = k.up[1]
    BY <1>2, <2>1, <2>2, <2>4 DEF Faultless, Says, Unread
  <2>6. Says(h)
    <3>1. ASSUME NEW i \in 1 .. Len(up)
          PROVE  up[i].type \in CommandTypes \/ (IsHello(up[i]) /\ i = 1 /\ k.pid = Nobody)
      <4>1. i \in 1 .. Len(k.up) \/ i = Len(k.up) + 1
        BY <2>1, <2>2
      <4> QED
        BY <2>1, <4>1 DEF Faultless, Says
    <3>2. up # <<>>
      BY <2>1, <2>2, ProperEmpty
    <3> QED
      BY <2>4, <2>5, <3>1, <3>2 DEF Says, Faultless
  <2>7. Faultless(h)
    BY <1>2, <2>4, <2>6 DEF Faultless, IsFrame
  <2>8. Stays(k, h)
    BY <2>4, <2>5 DEF Stays, Follows
  <2> QED
    BY <2>3, <2>4, <2>7, <2>8
<1> QED
  BY <1>1, <1>2

\* The room reads what came first, by which somebody may have been let in.
LEMMA ReadFacts ==
    ASSUME NEW k, IsLink(k), k.up # <<>>, k.pid = Nobody => ~k.open,
           \A i \in 2 .. Len(k.up) : k.up[i].type \in CommandTypes,
           \A f \in Range(k.down) : IsFrame(f, k)
    PROVE  LET h == [k EXCEPT !.up = Tail(@)]
           IN  Faultless(h) /\ Stays(k, h) /\ h.heard = k.heard /\ h.open = k.open /\ ~Unread(h)
<1> DEFINE up == Tail(k.up)
           h == [k EXCEPT !.up = up]
<1>1. /\ Proper(up) /\ Len(up) = Len(k.up) - 1 /\ Len(k.up) \in Nat \ {0}
      /\ \A i \in 1 .. Len(up) : up[i] = k.up[i + 1]
  BY ProperTail DEF IsLink
<1> HIDE DEF up
<1>2. /\ IsLink(h) /\ h.code = k.code /\ h.driver = k.driver /\ h.pid = k.pid /\ h.open = k.open
      /\ h.listed = k.listed /\ h.heard = k.heard /\ h.cut = k.cut /\ h.up = up /\ h.down = k.down
  BY <1>1 DEF IsLink
<1> HIDE DEF h
<1>3. ~Unread(h)
  BY <1>2 DEF Unread
<1>4. \A i \in 1 .. Len(up) : up[i].type \in CommandTypes
  <2> SUFFICES ASSUME NEW i \in 1 .. Len(up) PROVE k.up[i + 1].type \in CommandTypes
    BY <1>1
  <2>1. i + 1 \in 2 .. Len(k.up)
    BY <1>1
  <2> QED
    BY <2>1
<1>5. Says(h)
  BY <1>2, <1>3, <1>4 DEF Says
<1>6. \A f \in Range(k.down) : IsFrame(f, h)
  BY <1>2 DEF IsFrame
<1>7. Faultless(h)
  BY <1>2, <1>5, <1>6 DEF Faultless
<1>8. Stays(k, h)
  BY <1>2, <1>3 DEF Stays, Follows
<1> QED
  BY <1>2, <1>3, <1>7, <1>8 DEF h, up

\* An outcome reaches a socket: whoever it dismisses is told a reason, and
\* only somebody who was nobody learns who they are.
LEMMA HearsLink ==
    ASSUME NEW l \in Link, Faultless(links[l]), NEW from, NEW o, Speech(o),
           o.reason \in Cause \cup {"none"},
           links[l].open /\ o.reason = "none" => o.room # Deleted /\ o.dismissed = Nobody,
           l = from /\ o.self # Nobody => links[l].pid = Nobody
    PROVE  LET k == links[l]
               h == Hears(o, l, from)
           IN  /\ IsLink(h) /\ SameLink(k, h)
               /\ h.pid = IF l = from /\ o.self # Nobody THEN o.self ELSE k.pid
               /\ h.gen = IF l = from /\ o.self # Nobody THEN o.room.people[o.self].gen ELSE k.gen
               /\ h.open <=> k.open /\ ~Dismisses(o, h, l, from)
               /\ \A f \in Range(h.down) : IsFrame(f, h)
               /\ \A f \in Range(h.down) : IsParting(f) =>
                      \/ f \in Range(k.down)
                      \/ o.reason = "superseded" /\ Dismisses(o, h, l, from) /\ k.open /\ ~k.cut
               /\ ~(l = from /\ o.self # Nobody) => Faultless(h) /\ Follows(k, h)
<1> DEFINE k == links[l]
           h == Hears(o, l, from)
           code == IF o.reason = "superseded" THEN "superseded" ELSE "refused"
<1>1. /\ IsLink(h) /\ SameLink(k, h)
      /\ h.pid = IF l = from /\ o.self # Nobody THEN o.self ELSE k.pid
      /\ h.gen = IF l = from /\ o.self # Nobody THEN o.room.people[o.self].gen ELSE k.gen
      /\ h.open <=> k.open /\ ~Dismisses(o, h, l, from)
      /\ \A f \in Range(h.down) :
             \/ f \in Range(k.down)
             \/ IsTold(f)
             \/ f.type = "hello_ack" /\ f.version \in Int /\ o.self # Nobody /\ l = from /\ f.body.self = o.self
             \/ f = CloseFrame(code, o.reason) /\ Dismisses(o, h, l, from) /\ k.open /\ ~k.cut
  BY HearsFacts DEF Faultless
<1> HIDE DEF h
<1>2. Dismisses(o, h, l, from) /\ k.open => o.reason \in Cause
  BY DEF Dismisses
<1>3. ASSUME NEW f \in Range(h.down)
      PROVE  /\ IsFrame(f, h)
             /\ IsParting(f) => \/ f \in Range(k.down)
                                \/ o.reason = "superseded" /\ Dismisses(o, h, l, from) /\ k.open /\ ~k.cut
  <2>1. CASE f \in Range(k.down)
    <3>1. IsFrame(f, k)
      BY <2>1 DEF Faultless
    <3>2. f.type = "hello_ack" => ~(l = from /\ o.self # Nobody)
      BY <3>1 DEF IsFrame
    <3> QED
      BY <1>1, <2>1, <3>1, <3>2 DEF IsFrame, SameLink
  <2>2. CASE IsTold(f)
    BY <2>2 DEF IsTold, IsFrame, IsParting
  <2>3. CASE f.type = "hello_ack" /\ f.version \in Int /\ o.self # Nobody /\ l = from /\ f.body.self = o.self
    BY <1>1, <2>3 DEF IsFrame, IsParting
  <2>4. CASE f = CloseFrame(code, o.reason) /\ Dismisses(o, h, l, from) /\ k.open /\ ~k.cut
    BY <1>1, <1>2, <2>4 DEF IsFrame, IsParting, CloseFrame
  <2> QED
    BY <1>1, <2>1, <2>2, <2>3, <2>4
<1>4. ~(l = from /\ o.self # Nobody) => Says(h) /\ Follows(k, h)
  BY <1>1 DEF SameLink, Faultless, Says, Unread, Follows
<1> QED
  BY <1>1, <1>3, <1>4 DEF h, Faultless

\* The driver takes the first frame.
LEMMA TakenFacts ==
    ASSUME NEW k, Faultless(k), k.down # <<>>
    PROVE  LET h == [k EXCEPT !.down = Tail(@)]
           IN  /\ Faultless(h) /\ Stays(k, h) /\ h.heard = k.heard /\ h.cut = k.cut
               /\ h.open = k.open /\ h.listed = k.listed
               /\ Head(k.down) \in Range(k.down)
<1> DEFINE down == Tail(k.down)
           h == [k EXCEPT !.down = down]
<1>1. Proper(down) /\ Range(down) \subseteq Range(k.down) /\ Head(k.down) \in Range(k.down)
  BY ProperTail DEF Faultless, IsLink
<1> HIDE DEF down
<1>2. /\ IsLink(h) /\ h.code = k.code /\ h.driver = k.driver /\ h.pid = k.pid /\ h.open = k.open
      /\ h.listed = k.listed /\ h.heard = k.heard /\ h.cut = k.cut /\ h.up = k.up /\ h.down = down
  BY <1>1 DEF Faultless, IsLink
<1> HIDE DEF h
<1>3. Faultless(h)
  BY <1>1, <1>2 DEF Faultless, Says, Unread, IsFrame
<1>4. Stays(k, h)
  BY <1>1, <1>2 DEF Stays, Follows, Unread
<1> QED
  BY <1>1, <1>2, <1>3, <1>4 DEF h, down

\* The network cuts it.
LEMMA CutFacts ==
    ASSUME NEW k, Faultless(k), NEW listed \in {k.listed, FALSE}
    PROVE  LET h == Settled([k EXCEPT !.cut = TRUE, !.listed = listed, !.up = <<>>,
                                      !.down = IF k.heard THEN <<CloseFrame("lost", "none")>> ELSE <<>>])
           IN  IF h = NoLink THEN ~k.heard ELSE Faultless(h) /\ Stays(k, h) /\ h.heard = k.heard
<1> DEFINE down == IF k.heard THEN <<CloseFrame("lost", "none")>> ELSE <<>>
           h == [k EXCEPT !.cut = TRUE, !.listed = listed, !.up = <<>>, !.down = down]
<1>1. Proper(down) /\ Range(down) \subseteq {CloseFrame("lost", "none")}
  BY ProperFew, ProperEmpty
<1>2. Proper(<<>>) /\ Len(<<>>) = 0
  BY ProperEmpty
<1> HIDE DEF down
<1>3. /\ IsLink(h) /\ h.code = k.code /\ h.driver = k.driver /\ h.pid = k.pid /\ h.open = k.open
      /\ h.listed = listed /\ h.heard = k.heard /\ h.cut /\ h.up = <<>> /\ h.down = down
  BY <1>1, <1>2 DEF Faultless, IsLink
<1> HIDE DEF h
<1>4. Faultless(h)
  <2>1. Says(h)
    BY <1>2, <1>3 DEF Says, Unread
  <2>2. \A f \in Range(down) : IsFrame(f, h)
    BY <1>1, <1>3 DEF IsFrame, CloseFrame
  <2> QED
    BY <1>3, <2>1, <2>2 DEF Faultless
<1>5. Stays(k, h)
  <2>1. ~Unread(h)
    BY <1>3 DEF Unread
  <2>2. \A f \in Range(down) : ~IsParting(f)
    BY <1>1 DEF IsParting, CloseFrame
  <2> QED
    BY <1>3, <2>1, <2>2 DEF Stays, Follows
<1>6. h # NoLink
  BY <1>3, LinkUsed
<1>7. Settled(h) = h \/ (Settled(h) = NoLink /\ ~h.heard)
  BY SettledFacts
<1> QED
  BY <1>3, <1>4, <1>5, <1>6, <1>7 DEF h, down

\* The room takes it off its list.
LEMMA UnlistedFacts ==
    ASSUME NEW k, Faultless(k)
    PROVE  LET h == Settled([k EXCEPT !.listed = FALSE])
           IN  IF h = NoLink THEN ~k.heard ELSE Faultless(h) /\ Stays(k, h) /\ h.heard = k.heard
<1> DEFINE h == [k EXCEPT !.listed = FALSE]
<1>1. /\ IsLink(h) /\ h.code = k.code /\ h.driver = k.driver /\ h.pid = k.pid /\ h.open = k.open
      /\ h.listed = FALSE /\ h.heard = k.heard /\ h.cut = k.cut /\ h.up = k.up /\ h.down = k.down
  BY DEF Faultless, IsLink
<1> HIDE DEF h
<1>2. Faultless(h)
  BY <1>1 DEF Faultless, Says, Unread, IsFrame
<1>3. Stays(k, h)
  BY <1>1 DEF Stays, Follows, Unread
<1>4. h # NoLink
  BY <1>1, LinkUsed DEF Faultless
<1>5. Settled(h) = h \/ (Settled(h) = NoLink /\ ~h.heard)
  BY SettledFacts
<1> QED
  BY <1>1, <1>2, <1>3, <1>4, <1>5 DEF h

-----------------------------------------------------------------------------
(* What may become of the claim, of identities and of drivers.             *)

\* A driver goes on: it gets no claim, and never says hello with one again.
GoesOn(d, e) ==
    /\ e.code = d.code
    /\ e.claim => d.claim
    /\ e.claim /\ Unsaid(e) => Unsaid(d)

\* No new driver and no new socket.
NobodyNew ==
    /\ Drivers' = Drivers
    /\ \A x \in Drivers : GoesOn(DriverAt(x), DriverAt(x)')
    /\ \A l \in Used' : l \in Used /\ Follows(links[l], links'[l])

\* A claim is spent by the hello that carries it.
SpentByHello(c) ==
    \E l \in Used : /\ Unread(links[l]) /\ links[l].up[1].claim /\ links[l].code = c
                    /\ l \in Used' => ~Unread(links'[l])

\* A driver that loses its claim has no hello left to be read.
LosesClaim(x) == \A l \in Used' : links'[l].driver = x => ~Unread(links'[l])

LEMMA ClaimsKept ==
    ASSUME References, Claims, NobodyNew,
           \A q \in Request, c \in Code : Created(q, c)' => Created(q, c),
           \A c \in Code : rooms[c] # Unmade => rooms'[c] # Unmade,
           \A c \in Code : Spent(c)' => Spent(c) \/ SpentByHello(c),
           \A x \in Drivers : DriverAt(x).code \in Code,
           \A x \in Drivers : DriverAt(x).claim => DriverAt(x)'.claim \/ LosesClaim(x)
    PROVE  Claims'
<1> USE DEF NobodyNew, GoesOn, Follows
<1>1. ASSUME NEW c, SpentByHello(c)
      PROVE  /\ \E l \in Used : /\ DriverAt(links[l].driver).claim /\ DriverAt(links[l].driver).code = c
                                /\ links[l].driver \in Drivers
             /\ \A x \in Drivers : DriverAt(x).claim /\ DriverAt(x).code = c =>
                    ~Unsaid(DriverAt(x)) /\ LosesClaim(x)
  <2>1. PICK l \in Used : /\ Unread(links[l]) /\ links[l].up[1].claim /\ links[l].code = c
                          /\ l \in Used' => ~Unread(links'[l])
    BY <1>1 DEF SpentByHello
  <2>2. links[l].driver \in Drivers /\ DriverAt(links[l].driver).claim /\ DriverAt(links[l].driver).code = c
    BY <2>1 DEF References, Claims
  <2>3. ASSUME NEW x \in Drivers, DriverAt(x).claim, DriverAt(x).code = c
        PROVE  ~Unsaid(DriverAt(x)) /\ LosesClaim(x)
    <3>1. x = links[l].driver
      BY <2>2, <2>3 DEF Claims
    <3>2. ~Unsaid(DriverAt(x))
      BY <2>3, <3>1 DEF Claims
    <3>3. \A k \in Used' : links'[k].driver = x => k = l
      BY <2>3, <3>1 DEF Claims
    <3> QED
      BY <2>1, <3>2, <3>3 DEF LosesClaim
  <2> QED
    BY <2>2, <2>3
<1>2. ASSUME NEW q \in Request, NEW c \in Code, Created(q, c)'
      PROVE  /\ rooms'[c] # Unmade /\ ~Spent(c)'
             /\ \A u \in Request : Created(u, c)' => u = q
             /\ \A x \in Drivers' : DriverAt(x)'.code = c => ~DriverAt(x)'.claim
  <2>1. Created(q, c)
    BY <1>2
  <2>2. ~SpentByHello(c)
    BY <1>1, <2>1 DEF Claims
  <2> QED
    BY <2>1, <2>2 DEF Claims
<1>3. \A x, y \in Drivers' :
          DriverAt(x)'.code = DriverAt(y)'.code /\ DriverAt(x)'.claim /\ DriverAt(y)'.claim => x = y
  BY DEF Claims
<1>4. ASSUME NEW x \in Drivers', DriverAt(x)'.claim, Unsaid(DriverAt(x))'
      PROVE  ~Spent(DriverAt(x).code)' /\ \A l \in Used' : links'[l].driver # x
  <2>1. x \in Drivers /\ DriverAt(x).claim /\ Unsaid(DriverAt(x)) /\ DriverAt(x)'.code = DriverAt(x).code
    BY <1>4
  <2>2. ~SpentByHello(DriverAt(x).code)
    BY <1>1, <2>1
  <2>3. ~Spent(DriverAt(x).code)'
    BY <2>1, <2>2 DEF Claims
  <2> QED
    BY <2>1, <2>3 DEF Claims
<1>5. \A l, k \in Used' :
          links'[l].driver = links'[k].driver /\ DriverAt(links[l].driver)'.claim => l = k
  BY DEF Claims, References
<1>6. ASSUME NEW l \in Used', Unread(links'[l]), links'[l].up[1].claim
      PROVE  DriverAt(links[l].driver)'.claim /\ ~Spent(links[l].code)'
  <2> DEFINE x == links[l].driver
  <2>1. /\ l \in Used /\ Unread(links[l]) /\ links[l].up[1].claim
        /\ links'[l].driver = x /\ links'[l].code = links[l].code
    BY <1>6
  <2>2. x \in Drivers /\ DriverAt(x).claim /\ links[l].code = DriverAt(x).code /\ ~Spent(links[l].code)
    BY <2>1 DEF References, Claims
  <2>3. DriverAt(x)'.claim
    BY <1>6, <2>1, <2>2 DEF LosesClaim
  <2>4. ~SpentByHello(links[l].code)
    BY <1>1, <1>6, <2>1, <2>2 DEF LosesClaim
  <2> QED
    BY <2>1, <2>2, <2>3, <2>4
<1> QED
  BY <1>2, <1>3, <1>4, <1>5, <1>6 DEF Claims

\* Nobody learns anybody's identity, but for browser n that becomes i.
OnlyLearns(n, i) ==
    \A b \in Browser, c \in Code, p \in Nat \ {0} : Knows(b, c, p)' =>
        \/ Knows(b, c, p) /\ (Exists(c)' => Exists(c) /\ rooms'[c].minted >= rooms[c].minted)
        \/ /\ b = n /\ p = i /\ \A a \in Browser : Knows(a, c, p)' => a = n
           /\ Exists(c)' => i <= rooms'[c].minted

LEMMA OwnersKept ==
    ASSUME Owners, NEW n, NEW i, OnlyLearns(n, i),
           \A c \in Code : Exists(c) => rooms[c].minted \in Nat,
           \A c \in Code : Exists(c)' => rooms'[c].minted \in Nat
    PROVE  Owners'
<1> SUFFICES ASSUME NEW c \in Code, NEW p \in Nat \ {0}, NEW b \in Browser, Knows(b, c, p)'
             PROVE  /\ Exists(c)' => p <= rooms'[c].minted
                    /\ \A a \in Browser : Knows(a, c, p)' => a = b
  BY DEF Owners
<1> USE DEF OnlyLearns
<1>1. CASE b = n /\ p = i /\ (\A a \in Browser : Knows(a, c, p)' => a = n)
           /\ (Exists(c)' => i <= rooms'[c].minted)
  BY <1>1
<1>2. CASE Knows(b, c, p) /\ (Exists(c)' => Exists(c) /\ rooms'[c].minted >= rooms[c].minted)
  <2>1. (Exists(c) => p <= rooms[c].minted) /\ \A a \in Browser : Knows(a, c, p) => a = b
    BY <1>2 DEF Owners
  <2>2. Exists(c)' => p <= rooms'[c].minted
    BY <1>2, <2>1
  <2>3. \A a \in Browser : Knows(a, c, p)' => a = b
    BY <1>2, <2>1
  <2> QED
    BY <2>2, <2>3
<1> QED
  BY <1>1, <1>2

\* What is known when nobody is let in.
LEMMA KnownBefore ==
    ASSUME NEW b, NEW c, NEW p, Knows(b, c, p)',
           stored'[b][c] = p => Knows(b, c, p),
           home' = home,
           \A l \in Used' : l \in Used /\ Follows(links[l], links'[l]) /\ links'[l].pid = links[l].pid
    PROVE  Knows(b, c, p)
BY DEF Knows, Tells, Follows

\* Whoever steps aside has a rival.
LEMMA PartingsKept ==
    ASSUME Partings, References, home' = home, Drivers \subseteq Drivers',
           \A x \in Drivers : DriverAt(x)'.code = DriverAt(x).code,
           \A x \in Drivers' : DriverAt(x)'.status = "superseded" =>
               x \in Drivers /\ (DriverAt(x).status = "superseded" \/ HasRival(x)),
           \A l \in Used' : \A f \in Range(links'[l].down) : IsParting(f) =>
               /\ l \in Used /\ links'[l].driver = links[l].driver
               /\ f \in Range(links[l].down) \/ HasRival(links[l].driver)
    PROVE  Partings'
<1>1. \A x \in Drivers : HasRival(x) => HasRival(x)'
  BY DEF HasRival, Home
<1>2. \A x \in Drivers' : DriverAt(x)'.status = "superseded" => HasRival(x)'
  BY <1>1 DEF Partings
<1>3. ASSUME NEW l \in Used', NEW f \in Range(links'[l].down), IsParting(f)
      PROVE  HasRival(links[l].driver)'
  <2>1. l \in Used /\ links'[l].driver = links[l].driver /\ HasRival(links[l].driver)
    BY <1>3 DEF Partings
  <2>2. links[l].driver \in Drivers
    BY <2>1 DEF References
  <2> QED
    BY <1>1, <2>1, <2>2
<1> QED
  BY <1>2, <1>3 DEF Partings

\* A driver and its socket stay together, or let go of each other.
Together(x, l) ==
    LET d == DriverAt(x)
    IN  \/ /\ l \in Used' /\ links'[l].heard
           /\ d'.socket = l /\ ~Stopped(d')
        \/ /\ d'.socket = NoSocket
           /\ l \in Used' => /\ ~links'[l].heard /\ links'[l].cut
                             /\ Unread(links'[l]) => Stopped(d')

LEMMA ReferencesKept ==
    ASSUME References, NobodyNew, shared' = shared,
           \A x \in Drivers : /\ DriverAt(x).socket \in {NoSocket} \cup Link
                              /\ DriverAt(x)'.socket \in {DriverAt(x).socket, NoSocket},
           \A x \in Drivers : Stopped(DriverAt(x)) => Stopped(DriverAt(x)'),
           \A l \in Used : ~links[l].heard /\ l \in Used' => ~links'[l].heard,
           \A x \in Drivers, l \in Used : links[l].heard /\ links[l].driver = x => Together(x, l),
           \A b \in Browser, c \in Code : stored'[b][c] # NoCredential => c \in shared
    PROVE  References'
<1> USE DEF NobodyNew, GoesOn, Follows
<1>1. \A x \in Drivers' : DriverAt(x)'.code \in shared'
  BY DEF References
<1>2. ASSUME NEW x \in Drivers', DriverAt(x)'.socket # NoSocket
      PROVE  /\ ~Stopped(DriverAt(x))'
             /\ links'[DriverAt(x)'.socket] # NoLink
             /\ links'[DriverAt(x)'.socket].heard /\ links'[DriverAt(x)'.socket].driver = x
  <2> DEFINE l == DriverAt(x).socket
  <2>1. DriverAt(x)'.socket = l /\ l # NoSocket
    BY <1>2
  <2>2. links[l] # NoLink /\ links[l].heard /\ links[l].driver = x
    BY <2>1 DEF References
  <2>3. l \in Used
    BY <2>1, <2>2 DEF Used, References
  <2>4. Together(x, l)
    BY <2>2, <2>3
  <2>5. l \in Used' /\ links'[l].heard /\ ~Stopped(DriverAt(x))'
    BY <2>1, <2>2, <2>4 DEF Together
  <2>6. links'[l].driver = x /\ links'[l] # NoLink
    BY <2>2, <2>5 DEF Used
  <2> QED
    BY <2>1, <2>5, <2>6
<1>3. ASSUME NEW l \in Used'
      PROVE  /\ links'[l].driver \in Drivers' /\ links'[l].code = DriverAt(links[l].driver)'.code
             /\ links'[l].heard => DriverAt(links[l].driver)'.socket = l
             /\ ~links'[l].heard => links'[l].cut
             /\ Unread(links'[l]) => links'[l].heard \/ Stopped(DriverAt(links[l].driver))'
  <2>1. l \in Used /\ links'[l].driver = links[l].driver /\ links'[l].code = links[l].code
    BY <1>3
  <2>2. links[l].driver \in Drivers /\ links[l].code = DriverAt(links[l].driver).code
    BY <2>1 DEF References
  <2>3. CASE links[l].heard
    BY <1>3, <2>1, <2>2, <2>3 DEF Together
  <2>4. CASE ~links[l].heard
    <3>1. ~links'[l].heard /\ links'[l].cut
      BY <1>3, <2>1, <2>4 DEF References
    <3>2. Unread(links'[l]) => Stopped(DriverAt(links[l].driver))
      BY <1>3, <2>1, <2>4 DEF References
    <3>3. Unread(links'[l]) => Stopped(DriverAt(links[l].driver))'
      BY <2>1, <2>2, <3>2
    <3> QED
      BY <2>1, <2>2, <3>1, <3>3
  <2> QED
    BY <2>1, <2>2, <2>3, <2>4
<1> QED
  BY <1>1, <1>2, <1>3 DEF References

-----------------------------------------------------------------------------
(* The steps.                                                              *)

\* What the invariant says of one room, and of drivers.
LEMMA RoomShape ==
    ASSUME Shapes, NEW c \in Code
    PROVE  /\ rooms[c] \in {Unmade, Deleted} => ~Exists(c) /\ ~Spent(c)
           /\ Exists(c) => IsRoom(rooms[c]) /\ rooms[c].minted \in Nat /\ rooms[c] # Deleted /\ rooms[c] # Unmade
           /\ rooms[c] # Deleted /\ rooms[c] # Unmade => Exists(c)
<1>1. Unmade.phase = "unmade" /\ Deleted.phase = "gone"
  BY DEF Unmade, Deleted
<1>2. rooms[c] \in {Unmade, Deleted} => ~Exists(c) /\ ~Spent(c)
  BY <1>1 DEF Exists, Spent
<1>3. IF Exists(c) THEN IsRoom(rooms[c]) ELSE rooms[c] \in {Unmade, Deleted}
  BY DEF Shapes
<1>4. IsRoom(rooms[c]) => rooms[c].minted \in Nat
  BY DEF IsRoom
<1> QED
  BY <1>2, <1>3, <1>4, RoomExists

LEMMA DriverShape ==
    ASSUME Shapes, NEW x \in Drivers
    PROVE  /\ x \in Driver /\ x[1] \in Tab /\ x[2] \in 1 .. Len(drivers[x[1]]) /\ x = <<x[1], x[2]>>
           /\ DriverAt(x) \in IsDriver /\ DriverAt(x).code \in Code
<1>1. x \in Driver /\ x[1] \in Tab /\ x[2] \in 1 .. MaxEntries /\ x = <<x[1], x[2]>> /\ x[2] <= Len(drivers[x[1]])
  BY DEF Drivers, Driver
<1>2. drivers[x[1]] \in Seq(IsDriver)
  BY <1>1 DEF Shapes
<1>3. x[2] \in 1 .. Len(drivers[x[1]]) /\ DriverAt(x) \in IsDriver
  BY <1>1, <1>2, ElementOfSeq, LenProperties DEF DriverAt
<1> QED
  BY <1>1, <1>3 DEF IsDriver

\* A room goes on, or is deleted with its sockets; sockets fade; nobody new
\* comes in.
LEMMA RoomGoesOn ==
    ASSUME SessionInv, UNCHANGED <<home, drivers, current, pages, request, stored, shared>>,
           DOMAIN rooms' = Code, DOMAIN links' = Link,
           \A c \in Code : \/ rooms'[c] = rooms[c]
                           \/ Exists(c) /\ (rooms'[c] = Deleted \/ Kept(rooms[c], rooms'[c])),
           \A l \in Used' :
               /\ l \in Used /\ Faultless(links'[l]) /\ Stays(links[l], links'[l])
               /\ links'[l].heard = links[l].heard
               /\ links'[l].listed /\ links'[l].open => rooms'[links[l].code] # Deleted,
           \A l \in Used : links[l].heard => l \in Used'
    PROVE  SessionInv'
<1> USE DEF SessionInv
<1>1. /\ Drivers' = Drivers /\ \A x : DriverAt(x)' = DriverAt(x) /\ Home(x)' = Home(x)
  BY DEF Drivers, DriverAt, Home
<1>2. ASSUME NEW c \in Code
      PROVE  /\ IF Exists(c)' THEN IsRoom(rooms'[c]) ELSE rooms'[c] \in {Unmade, Deleted}
             /\ Exists(c)' => Exists(c) /\ rooms'[c].minted = rooms[c].minted /\ rooms[c].minted \in Nat
             /\ Spent(c)' => Spent(c)
             /\ rooms[c] # Unmade => rooms'[c] # Unmade
             /\ Exists(c) /\ rooms'[c] # Deleted => Exists(c)'
  <2>1. CASE rooms'[c] = rooms[c]
    BY <2>1, RoomShape DEF Exists, Spent, Shapes
  <2>2. CASE Exists(c) /\ rooms'[c] = Deleted
    BY <2>2 DEF Exists, Spent, Deleted, Unmade
  <2>3. CASE Exists(c) /\ Kept(rooms[c], rooms'[c])
    BY <2>3, RoomShape, RoomExists DEF Exists, Spent, Kept
  <2> QED
    BY <2>1, <2>2, <2>3
<1>3. Shapes'
  BY <1>2 DEF Shapes
<1>4. Sockets'
  BY DEF Sockets
<1>5. NobodyNew
  BY <1>1 DEF NobodyNew, GoesOn, Stays
<1>6. References'
  <2>1. \A x \in Drivers : DriverAt(x).socket \in {NoSocket} \cup Link
    BY DriverShape DEF IsDriver
  <2>2. ASSUME NEW x \in Drivers, NEW l \in Used, links[l].heard, links[l].driver = x PROVE Together(x, l)
    <3>1. l \in Used' /\ links'[l].heard
      BY <2>2
    <3>2. DriverAt(x).socket = l /\ l # NoSocket
      BY <2>2 DEF References, Used, Link, NoSocket
    <3>3. ~Stopped(DriverAt(x))
      BY <3>2 DEF References
    <3>4. DriverAt(x)'.socket = l /\ ~Stopped(DriverAt(x)')
      BY <1>1, <3>2, <3>3
    <3> QED
      BY <3>1, <3>4 DEF Together
  <2>3. \A b \in Browser, c \in Code : stored'[b][c] # NoCredential => c \in shared
    BY DEF References
  <2> QED
    BY <1>1, <1>5, <2>1, <2>2, <2>3, ReferencesKept
<1>7. Doors'
  <2> SUFFICES ASSUME NEW l \in Used', links'[l].listed /\ links'[l].open PROVE Exists(links[l].code)'
    BY DEF Doors
  <2>1. l \in Used /\ links'[l].code = links[l].code /\ links[l].listed /\ links[l].open
    BY DEF Stays, Follows
  <2>2. Exists(links[l].code) /\ links[l].code \in Code /\ rooms'[links[l].code] # Deleted
    BY <2>1 DEF Doors, Sockets, Faultless, IsLink
  <2> QED
    BY <1>2, <2>1, <2>2
<1>8. Answers'
  BY <1>1 DEF Answers
<1>9. Claims'
  <2>1. \A q \in Request, c \in Code : Created(q, c)' => Created(q, c)
    BY DEF Created
  <2>2. \A c \in Code : Spent(c)' => Spent(c) \/ SpentByHello(c)
    BY <1>2
  <2>3. \A x \in Drivers : DriverAt(x).code \in Code
    BY DriverShape
  <2> QED
    BY <1>1, <1>2, <1>5, <2>1, <2>2, <2>3, ClaimsKept
<1>10. Owners'
  <2>1. ASSUME NEW b \in Browser, NEW c \in Code, NEW p \in Nat \ {0}, Knows(b, c, p)'
        PROVE  Knows(b, c, p) /\ (Exists(c)' => Exists(c) /\ rooms'[c].minted >= rooms[c].minted)
    <3>1. stored'[b][c] = p => Knows(b, c, p)
      BY DEF Knows
    <3>2. \A l \in Used' : l \in Used /\ Follows(links[l], links'[l]) /\ links'[l].pid = links[l].pid
      BY DEF Stays
    <3> QED
      BY <1>2, <2>1, <3>1, <3>2, KnownBefore
  <2>2. \A c \in Code : Exists(c) => rooms[c].minted \in Nat
    BY RoomShape
  <2>3. \A c \in Code : Exists(c)' => rooms'[c].minted \in Nat
    BY <1>2
  <2>4. OnlyLearns(0, 0)
    BY <2>1 DEF OnlyLearns
  <2> QED
    BY <2>2, <2>3, <2>4, OwnersKept
<1>11. Partings'
  <2>1. \A l \in Used' : \A f \in Range(links'[l].down) : IsParting(f) =>
            /\ l \in Used /\ links'[l].driver = links[l].driver
            /\ f \in Range(links[l].down) \/ HasRival(links[l].driver)
    BY DEF Stays, Follows
  <2> QED
    BY <1>1, <2>1, PartingsKept
<1> QED
  BY <1>3, <1>4, <1>6, <1>7, <1>8, <1>9, <1>10, <1>11

LEMMA StaysOn ==
    ASSUME NEW j, NEW k, NEW h, Stays(j, k), Stays(k, h)
    PROVE  Stays(j, h)
BY DEF Stays, Follows

\* A room's socket hears of an outcome that lets nobody in.
LEMMA HeardOutcome ==
    ASSUME SessionInv, NEW c \in Code, NEW o, Spoken(rooms[c], o), NEW from,
           NEW l \in Used, links[l].code = c, links[l].listed
    PROVE  LET h == Hears(o, l, from)
           IN  /\ Faultless(h) /\ Stays(links[l], h) /\ SameLink(links[l], h) /\ h.pid = links[l].pid
               /\ h.open => o.room # Deleted
               /\ l = from /\ o.reason # "none" /\ o.dismissed = Nobody => ~h.open
<1> DEFINE k == links[l]
           h == Hears(o, l, from)
<1>1. l \in Link /\ Faultless(links[l]) /\ Speech(o)
  BY SpokenSpeech DEF SessionInv, Sockets, Used
<1>2. o.reason \in Cause \cup {"none"}
  BY DEF Spoken, Cause, Reason
<1>3. links[l].open /\ o.reason = "none" => o.room # Deleted /\ o.dismissed = Nobody
  <2>1. links[l].open => rooms[c] # Deleted
    BY RoomShape DEF SessionInv, Doors
  <2> QED
    BY <2>1 DEF Spoken
<1>4. o.self = Nobody
  BY DEF Spoken
<1>5. /\ SameLink(k, h) /\ h.pid = k.pid
      /\ h.open <=> k.open /\ ~Dismisses(o, h, l, from)
      /\ \A f \in Range(h.down) : IsParting(f) =>
             \/ f \in Range(k.down)
             \/ o.reason = "superseded" /\ Dismisses(o, h, l, from) /\ k.open /\ ~k.cut
      /\ Faultless(h) /\ Follows(k, h)
  BY <1>1, <1>2, <1>3, <1>4, HearsLink
<1> HIDE DEF h
<1>6. Stays(k, h)
  BY <1>5 DEF Stays, Spoken
<1>7. h.open => o.room # Deleted
  BY <1>5 DEF Dismisses
<1>8. l = from /\ o.reason # "none" /\ o.dismissed = Nobody => ~h.open
  BY <1>5 DEF Dismisses
<1> QED
  BY <1>5, <1>6, <1>7, <1>8 DEF h

\* A room does something, by which nobody is let in, and says so.
LEMMA RoomSays ==
    ASSUME SessionInv, UNCHANGED <<home, drivers, current, pages, request, stored, shared>>,
           NEW c \in Code, NEW o, Spoken(rooms[c], o), NEW from,
           Exists(c) \/ o.room = rooms[c],
           rooms' = [rooms EXCEPT ![c] = o.room],
           DOMAIN links' = Link,
           \A l \in Link : LET h == Announced(c, o, from)[l]
                           IN  \/ links'[l] = h
                               \/ links'[l] = NoLink /\ ~h.heard
                               \/ /\ l \in Used /\ Faultless(links'[l]) /\ Stays(h, links'[l])
                                  /\ links'[l].heard = h.heard
    PROVE  SessionInv'
<1> DEFINE H(l) == Announced(c, o, from)[l]
<1>1. ASSUME NEW l \in Used
      PROVE  /\ Faultless(H(l)) /\ Stays(links[l], H(l)) /\ H(l).heard = links[l].heard
             /\ H(l).listed /\ H(l).open => rooms'[links[l].code] # Deleted
  <2>1. l \in Link /\ Faultless(links[l])
    BY DEF Used, SessionInv, Sockets
  <2>2. CASE links[l].code = c /\ links[l].listed
    <3>1. H(l) = Hears(o, l, from)
      BY <2>1, <2>2 DEF Announced
    <3> HIDE DEF H
    <3>2. rooms'[links[l].code] = o.room
      BY <2>2 DEF SessionInv, Shapes
    <3> QED
      BY <2>2, <3>1, <3>2, HeardOutcome DEF SameLink
  <2>3. CASE ~(links[l].code = c /\ links[l].listed)
    <3>1. H(l) = links[l]
      BY <2>1, <2>3 DEF Announced
    <3> HIDE DEF H
    <3>2. links[l].listed /\ links[l].open => rooms'[links[l].code] # Deleted
      <4> SUFFICES ASSUME links[l].listed, links[l].open PROVE rooms'[links[l].code] # Deleted
        OBVIOUS
      <4>1. links[l].code \in Code /\ links[l].code # c /\ Exists(links[l].code)
        BY <2>1, <2>3 DEF SessionInv, Doors, Faultless, IsLink
      <4>2. rooms'[links[l].code] = rooms[links[l].code]
        BY <4>1 DEF SessionInv, Shapes
      <4> QED
        BY <4>1, <4>2, RoomShape DEF SessionInv
    <3> QED
      BY <2>1, <3>1, <3>2, StaysSame
  <2> QED
    BY <2>2, <2>3
<1>2. ASSUME NEW l \in Link, l \notin Used PROVE H(l) = NoLink
  <2>1. links[l] = NoLink /\ links[l].code # c
    BY <1>2, SessionAssumption DEF Used, NoLink
  <2> QED
    BY <2>1 DEF Announced
<1> HIDE DEF H
<1>3. \A b \in Code : \/ rooms'[b] = rooms[b]
                      \/ Exists(b) /\ (rooms'[b] = Deleted \/ Kept(rooms[b], rooms'[b]))
  BY DEF SessionInv, Shapes, Spoken
<1>4. ASSUME NEW l \in Used'
      PROVE  /\ l \in Used /\ Faultless(links'[l]) /\ Stays(links[l], links'[l])
             /\ links'[l].heard = links[l].heard
             /\ links'[l].listed /\ links'[l].open => rooms'[links[l].code] # Deleted
  <2>1. l \in Link /\ links'[l] # NoLink
    BY DEF Used
  <2>2. \/ links'[l] = H(l)
        \/ l \in Used /\ Faultless(links'[l]) /\ Stays(H(l), links'[l]) /\ links'[l].heard = H(l).heard
    BY <2>1 DEF H
  <2>3. l \in Used
    BY <1>2, <2>1, <2>2
  <2>4. /\ Faultless(links'[l]) /\ Stays(H(l), links'[l]) /\ links'[l].heard = H(l).heard
    BY <1>1, <2>2, <2>3, StaysSame
  <2>5. Stays(links[l], links'[l])
    BY <1>1, <2>3, <2>4, StaysOn
  <2>6. links'[l].listed /\ links'[l].open => H(l).listed /\ H(l).open
    BY <2>4 DEF Stays, Follows
  <2> QED
    BY <1>1, <2>3, <2>4, <2>5, <2>6
<1>5. ASSUME NEW l \in Used, links[l].heard PROVE l \in Used'
  <2>1. l \in Link /\ H(l).heard
    BY <1>1, <1>5 DEF Used
  <2>2. links'[l] = H(l) \/ Faultless(links'[l])
    BY <2>1 DEF H
  <2>3. links'[l] # NoLink
    BY <1>1, <2>2, LinkUsed DEF Faultless
  <2> QED
    BY <2>1, <2>3 DEF Used
<1>6. DOMAIN rooms' = Code
  BY DEF SessionInv, Shapes
<1> QED
  BY <1>3, <1>4, <1>5, <1>6, RoomGoesOn

LEMMA CodedUsed == ASSUME NEW l \in Link, links[l].code # "none" PROVE l \in Used
BY DEF Used, NoLink

\* The network cuts a socket.
LEMMA CutKeeps == ASSUME SessionInv, NEW l \in Link, IsCut(l) PROVE SessionInv'
<1>1. PICK listed \in {links[l].listed, FALSE} :
          links' = [links EXCEPT ![l] =
               Settled([@ EXCEPT !.cut = TRUE, !.listed = listed, !.up = <<>>,
                                 !.down = IF links[l].heard THEN <<CloseFrame("lost", "none")>> ELSE <<>>])]
  BY DEF IsCut
<1> DEFINE h == Settled([links[l] EXCEPT !.cut = TRUE, !.listed = listed, !.up = <<>>,
                                         !.down = IF links[l].heard THEN <<CloseFrame("lost", "none")>> ELSE <<>>])
<1>2. l \in Used /\ Faultless(links[l])
  BY CodedUsed DEF IsCut, SessionInv, Sockets
<1>3. IF h = NoLink THEN ~links[l].heard ELSE Faultless(h) /\ Stays(links[l], h) /\ h.heard = links[l].heard
  BY <1>2, CutFacts
<1>4. links' = [links EXCEPT ![l] = h]
  BY <1>1
<1> HIDE DEF h
<1>5. DOMAIN links' = Link /\ links'[l] = h /\ \A k \in Link \ {l} : links'[k] = links[k]
  BY <1>4 DEF SessionInv, Shapes
<1>6. /\ UNCHANGED <<home, rooms, drivers, current, pages, request, stored, shared>>
      /\ DOMAIN rooms' = Code
  BY DEF IsCut, SessionInv, Shapes
<1>7. ASSUME NEW k \in Used'
      PROVE  /\ k \in Used /\ Faultless(links'[k]) /\ Stays(links[k], links'[k])
             /\ links'[k].heard = links[k].heard
             /\ links'[k].listed /\ links'[k].open => rooms'[links[k].code] # Deleted
  <2>1. k \in Used /\ Faultless(links[k])
    BY <1>2, <1>5 DEF Used, SessionInv, Sockets
  <2>2. Faultless(links'[k]) /\ Stays(links[k], links'[k]) /\ links'[k].heard = links[k].heard
    BY <1>3, <1>5, <2>1, StaysSame DEF Used
  <2>3. links'[k].listed /\ links'[k].open => links[k].listed /\ links[k].open
    BY <2>2 DEF Stays, Follows
  <2>4. links[k].listed /\ links[k].open => rooms[links[k].code] # Deleted
    BY <2>1, RoomShape DEF SessionInv, Doors, Faultless, IsLink
  <2> QED
    BY <1>6, <2>1, <2>2, <2>3, <2>4
<1>8. \A k \in Used : links[k].heard => k \in Used'
  BY <1>3, <1>5 DEF Used
<1> QED
  BY <1>5, <1>6, <1>7, <1>8, RoomGoesOn

\* A control is used.
LEMMA ControlKeeps == ASSUME SessionInv, NEW t \in Tab, UsesControl(t) PROVE SessionInv'
<1> DEFINE l == drivers[t][current[t]].socket
<1>1. PICK m \in Commands(t) : links' = [links EXCEPT ![l] = WithCommand(@, m)]
  BY DEF UsesControl
<1>2. m.type \in CommandTypes
  BY DEF Commands, LobbyCommands, CommandTypes
<1>3. l \in Used /\ links[l].heard
  <2>1. current[t] \in 1 .. Len(drivers[t]) /\ Len(drivers[t]) \in Nat /\ Len(drivers[t]) <= MaxEntries
    BY LenProperties DEF UsesControl, SessionInv, Shapes
  <2>2. <<t, current[t]>> \in Drivers /\ DriverAt(<<t, current[t]>>).socket = l
    BY <2>1, SessionAssumption DEF Drivers, Driver, DriverAt
  <2>3. DriverAt(<<t, current[t]>>) \in IsDriver
    BY <2>2, DriverShape DEF SessionInv
  <2>4. l \in Link
    BY <2>2, <2>3 DEF IsDriver, UsesControl
  <2> QED
    BY <2>2, <2>4 DEF UsesControl, SessionInv, References, Used
<1>4. l \in Link /\ Faultless(links[l])
  BY <1>3, SMTT(30) DEF SessionInv, Sockets, Used
<1> DEFINE h == WithCommand(links[l], m)
<1>5. /\ Faultless(h) /\ Stays(links[l], h) /\ h.heard = links[l].heard
      /\ h.open = links[l].open /\ h.listed = links[l].listed
  BY <1>2, <1>4, WithCommandFacts
<1>6. links' = [links EXCEPT ![l] = h]
  BY <1>1
<1>7. h # NoLink
  BY <1>5, LinkUsed DEF Faultless
<1> HIDE DEF h, l
<1>8. DOMAIN links' = Link /\ links'[l] = h /\ \A k \in Link \ {l} : links'[k] = links[k]
  BY <1>4, <1>6 DEF SessionInv, Shapes
<1>9. /\ UNCHANGED <<home, rooms, drivers, current, pages, request, stored, shared>>
      /\ DOMAIN rooms' = Code
  BY DEF UsesControl, SessionInv, Shapes
<1>10. Used' = Used
  BY <1>3, <1>7, <1>8 DEF Used
<1>11. ASSUME NEW k \in Used'
      PROVE  /\ k \in Used /\ Faultless(links'[k]) /\ Stays(links[k], links'[k])
             /\ links'[k].heard = links[k].heard
             /\ links'[k].listed /\ links'[k].open => rooms'[links[k].code] # Deleted
  <2>1. k \in Used /\ k \in Link /\ Faultless(links[k])
    BY <1>10 DEF Used, SessionInv, Sockets
  <2>2. Faultless(links'[k]) /\ Stays(links[k], links'[k]) /\ links'[k].heard = links[k].heard
        /\ links'[k].listed = links[k].listed /\ links'[k].open = links[k].open
    BY <1>5, <1>8, <2>1, StaysSame
  <2>3. links[k].listed /\ links[k].open => rooms[links[k].code] # Deleted
    BY <2>1, RoomShape DEF SessionInv, Doors, Faultless, IsLink
  <2> QED
    BY <1>9, <2>1, <2>2, <2>3
<1> QED
  BY <1>8, <1>9, <1>10, <1>11, RoomGoesOn

\* A room that says nothing says so as well.
LEMMA SilenceSpoken == ASSUME NEW r, IsRoom(r) PROVE Spoken(r, Outcome(r))
BY RoomExists, ToldEmpty DEF Spoken, Outcome, Kept

LEMMA SweptSpoken ==
    ASSUME NEW r, IsRoom(r), r.phase = "lobby", Connected(r) = {}
    PROVE  Spoken(r, Deletion(<<>>))
BY DeletionSpoken, ToldEmpty

\* A room's alarm fires.
LEMMA AlarmKeeps == ASSUME SessionInv, NEW c \in Code, AlarmFires(c) PROVE SessionInv'
<1>1. Exists(c) /\ IsRoom(rooms[c])
  BY RoomShape DEF AlarmFires, SessionInv
<1>2. PICK o : Spoken(rooms[c], o) /\ Takes(c, o, 0)
  <2>1. PICK o \in IF rooms[c].phase # "lobby" THEN DeadlineAlarm(rooms[c])
                   ELSE IF Connected(rooms[c]) = {} THEN {Deletion(<<>>)}
                   ELSE {Reconciled(rooms[c], live) : live \in
                            {s \in Live(c) : ~(Connected(rooms[c]) \subseteq s)}} : Takes(c, o, 0)
    BY DEF AlarmFires
  <2>2. Spoken(rooms[c], o)
    BY <1>1, <2>1, AlarmSpoken, SweptSpoken, ReconciledSpoken
  <2> QED
    BY <2>1, <2>2
<1>3. links' = Announced(c, o, 0) /\ rooms' = [rooms EXCEPT ![c] = o.room]
  BY <1>2 DEF Takes
<1>4. DOMAIN links' = Link
  BY <1>3 DEF Announced
<1>5. UNCHANGED <<home, drivers, current, pages, request, stored, shared>>
  BY DEF AlarmFires
<1> QED
  BY <1>1, <1>2, <1>3, <1>4, <1>5, RoomSays

\* A room hears that a socket is closed.
LEMMA CloseKeeps == ASSUME SessionInv, NEW l \in Link, RoomHearsClose(l) PROVE SessionInv'
<1> DEFINE c == links[l].code
           unlisted(k) == Settled([k EXCEPT !.listed = FALSE])
<1>1. l \in Used /\ Faultless(links[l]) /\ c \in Code
  BY CodedUsed DEF RoomHearsClose, SessionInv, Sockets, Faultless, IsLink
<1>2. PICK o \in IF SpeaksFor(links[l]) THEN Absent(rooms[c], links[l].pid) ELSE {Outcome(rooms[c])} :
          rooms' = [rooms EXCEPT ![c] = o.room] /\ links' = [Announced(c, o, 0) EXCEPT ![l] = unlisted(@)]
  BY DEF RoomHearsClose
<1>3. IsRoom(rooms[c]) \/ (rooms[c] = Deleted /\ o = Outcome(Deleted))
  <2>1. c \in shared
    BY <1>1 DEF SessionInv, References
  <2>2. rooms[c] # Unmade
    BY <2>1 DEF SessionInv, Shapes
  <2>3. CASE Exists(c)
    BY <1>1, <2>3, RoomShape DEF SessionInv
  <2>4. CASE ~Exists(c)
    BY <1>1, <1>2, <2>2, <2>4 DEF SessionInv, Shapes, SpeaksFor
  <2> QED
    BY <2>3, <2>4
<1>4. Spoken(rooms[c], o) /\ (Exists(c) \/ o.room = rooms[c])
  <2>1. CASE rooms[c] = Deleted /\ o = Outcome(Deleted)
    BY <2>1, ToldEmpty DEF Spoken, Outcome
  <2>2. CASE IsRoom(rooms[c])
    BY <1>2, <2>2, AbsentSpoken, SilenceSpoken, RoomExists DEF SpeaksFor, Exists
  <2> QED
    BY <1>3, <2>1, <2>2
<1>5. UNCHANGED <<home, drivers, current, pages, request, stored, shared>>
  BY DEF RoomHearsClose
<1> DEFINE h == Announced(c, o, 0)[l]
<1>6. Faultless(h) /\ Stays(links[l], h)
  <2>1. links[l].listed
    BY DEF RoomHearsClose
  <2>2. h = Hears(o, l, 0)
    BY <2>1 DEF Announced
  <2> HIDE DEF h, c
  <2> QED
    BY <1>1, <1>4, <2>1, <2>2, HeardOutcome DEF c
<1>7. IF unlisted(h) = NoLink THEN ~h.heard
      ELSE Faultless(unlisted(h)) /\ Stays(h, unlisted(h)) /\ unlisted(h).heard = h.heard
  <2> HIDE DEF h
  <2> QED
    BY <1>6, UnlistedFacts
<1>8. /\ DOMAIN links' = Link
      /\ links'[l] = unlisted(h)
      /\ \A k \in Link \ {l} : links'[k] = Announced(c, o, 0)[k]
  <2>1. DOMAIN Announced(c, o, 0) = Link
    BY DEF Announced
  <2> HIDE DEF c, unlisted
  <2> QED
    BY <1>2, <2>1
<1> HIDE DEF unlisted
<1>9. \A k \in Link : LET g == Announced(c, o, 0)[k]
                      IN  \/ links'[k] = g
                          \/ links'[k] = NoLink /\ ~g.heard
                          \/ /\ k \in Used /\ Faultless(links'[k]) /\ Stays(g, links'[k])
                             /\ links'[k].heard = g.heard
  BY <1>1, <1>7, <1>8
<1> HIDE DEF c, h
<1> QED
  BY <1>1, <1>2, <1>4, <1>5, <1>8, <1>9, RoomSays

\* A hello is let in: its socket is somebody's now, older sockets of theirs
\* are told goodbye, and those are not of the driver that said hello.
LEMMA WelcomeHeard ==
    ASSUME SessionInv, NEW l \in Used, Unread(links[l]), NEW c, c = links[l].code, Exists(c), links[l].listed,
           NEW o, Welcomed(rooms[c], links[l].up[1], o),
           NEW k \in Used, links[k].code = c, links[k].listed
    PROVE  LET h == Hears(o, k, l)
               g == IF k = l THEN [h EXCEPT !.up = Tail(@)] ELSE h
           IN  /\ Faultless(g) /\ Follows(links[k], g) /\ g.heard = links[k].heard
               /\ g.pid = IF k = l THEN o.self ELSE links[k].pid
               /\ k = l => ~Unread(g)
               /\ \A f \in Range(g.down) : IsParting(f) => f \in Range(links[k].down) \/ HasRival(links[k].driver)
<1> DEFINE h == Hears(o, k, l)
           p == o.self
           x == links[l].driver
<1>1. /\ l \in Link /\ k \in Link /\ Faultless(links[l]) /\ Faultless(links[k])
      /\ links[l].pid = Nobody /\ links[l].open /\ links[l].up # <<>>
  BY DEF Used, SessionInv, Sockets, Unread
<1>2. Speech(o) /\ p # Nobody /\ o.room # Deleted
  BY WelcomedSpeech
<1>3. o.reason = "superseded" /\ o.dismissed = p /\ o.below = o.room.people[p].gen /\ "superseded" \in Cause
  BY DEF Welcomed, Cause, Reason
<1>4. p \in Nat \ {0} /\ o.room.people[p].gen \in Nat
  BY DEF Welcomed, IsRoom, Person
<1>5. /\ IsLink(h) /\ SameLink(links[k], h)
      /\ h.pid = IF k = l THEN p ELSE links[k].pid
      /\ h.gen = IF k = l THEN o.room.people[p].gen ELSE links[k].gen
      /\ h.open <=> links[k].open /\ ~Dismisses(o, h, k, l)
      /\ \A f \in Range(h.down) : IsFrame(f, h)
      /\ \A f \in Range(h.down) : IsParting(f) =>
             \/ f \in Range(links[k].down)
             \/ Dismisses(o, h, k, l) /\ links[k].open /\ ~links[k].cut
      /\ k # l => Faultless(h) /\ Follows(links[k], h)
  BY <1>1, <1>2, <1>3, HearsLink
<1> HIDE DEF h
<1>6. CASE k = l
  <2> DEFINE g == [h EXCEPT !.up = Tail(@)]
  <2>1. ~Dismisses(o, h, k, l) /\ h.open /\ h.pid = p
    BY <1>1, <1>2, <1>3, <1>4, <1>5, <1>6 DEF Dismisses
  <2>2. h.up = links[l].up /\ \A i \in 2 .. Len(h.up) : h.up[i].type \in CommandTypes
    BY <1>1, <1>5, <1>6 DEF SameLink, Faultless, Says
  <2>3. Faultless(g) /\ Stays(h, g) /\ g.heard = h.heard /\ ~Unread(g)
    BY <1>1, <1>2, <1>5, <2>1, <2>2, ReadFacts
  <2> HIDE DEF g
  <2>4. Follows(links[k], g) /\ g.pid = p /\ g.heard = links[k].heard
    BY <1>1, <1>5, <1>6, <2>1, <2>3 DEF Stays, Follows, SameLink
  <2>5. \A f \in Range(g.down) : IsParting(f) => f \in Range(links[k].down)
    BY <1>5, <2>1, <2>3 DEF Stays
  <2> QED
    BY <1>6, <2>3, <2>4, <2>5 DEF g, h
<1>7. CASE k # l
  <2>1. ASSUME Dismisses(o, h, k, l), links[k].open, ~links[k].cut
        PROVE  HasRival(links[k].driver)
    <3> DEFINE y == links[k].driver
    <3>1. links[k].pid = p
      BY <1>2, <1>3, <1>5, <1>7, <2>1 DEF Dismisses
    <3>2. /\ x \in Drivers /\ DriverAt(x).code = c /\ y \in Drivers /\ DriverAt(y).code = c
      BY DEF SessionInv, References
    <3>3. c \in Code /\ Home(x) \in Browser /\ Home(y) \in Browser
      BY <3>2, DriverShape, SMTT(30) DEF SessionInv, Shapes, Home
    <3>4. Knows(Home(y), c, p)
      BY <3>1 DEF Knows, Tells, Home
    <3>5. p <= rooms[c].minted /\ \A a \in Browser : Knows(a, c, p) => a = Home(y)
      BY <1>4, <3>3, <3>4 DEF SessionInv, Owners
    <3>6. p = links[l].up[1].credential
      BY <3>3, <3>5, RoomShape DEF Welcomed, SessionInv
    <3>7. Knows(Home(x), c, p)
      BY <3>6 DEF Knows, Tells, Home
    <3>8. Home(x) = Home(y)
      BY <3>3, <3>5, <3>7
    <3>9. x # y
      <4> SUFFICES ASSUME x = y PROVE FALSE
        OBVIOUS
      <4>1. links[k].heard /\ DriverAt(y).socket = k
        BY <2>1 DEF SessionInv, References
      <4>2. k # NoSocket
        BY <1>1 DEF Link, NoSocket
      <4>3. ~Stopped(DriverAt(y))
        BY <3>2, <4>1, <4>2 DEF SessionInv, References
      <4>4. links[l].heard => DriverAt(y).socket = l
        BY DEF SessionInv, References
      <4>5. links[l].heard \/ Stopped(DriverAt(y))
        BY DEF SessionInv, References
      <4> QED
        BY <1>7, <4>1, <4>3, <4>4, <4>5
    <3> QED
      BY <3>2, <3>8, <3>9 DEF HasRival
  <2> QED
    BY <1>5, <1>7, <2>1 DEF h, SameLink
<1> QED
  BY <1>6, <1>7

LEMMA WelcomeKeeps ==
    ASSUME SessionInv, UNCHANGED <<home, drivers, current, pages, request, stored, shared>>,
           NEW l \in Used, Unread(links[l]), NEW c \in Code, c = links[l].code, Exists(c), links[l].listed,
           NEW o, Welcomed(rooms[c], links[l].up[1], o),
           rooms' = [rooms EXCEPT ![c] = o.room],
           links' = [Announced(c, o, l) EXCEPT ![l].up = Tail(@)]
    PROVE  SessionInv'
<1> DEFINE m == links[l].up[1]
           p == o.self
<1>1. DOMAIN links' = Link /\ l \in Link /\ DOMAIN rooms' = Code /\ rooms'[c] = o.room
      /\ \A b \in Code \ {c} : rooms'[b] = rooms[b]
  BY DEF Announced, Used, SessionInv, Shapes
<1>2. ASSUME NEW k \in Link
      PROVE  links'[k] = LET h == IF links[k].code = c /\ links[k].listed THEN Hears(o, k, l) ELSE links[k]
                         IN  IF k = l THEN [h EXCEPT !.up = Tail(@)] ELSE h
  BY DEF Announced
<1>3. ASSUME NEW k \in Used
      PROVE  /\ Faultless(links'[k]) /\ Follows(links[k], links'[k]) /\ links'[k].heard = links[k].heard
             /\ links'[k].pid = IF k = l THEN p ELSE links[k].pid
             /\ k = l => ~Unread(links'[k])
             /\ \A f \in Range(links'[k].down) : IsParting(f) =>
                    f \in Range(links[k].down) \/ HasRival(links[k].driver)
  <2>1. k \in Link /\ Faultless(links[k])
    BY DEF Used, SessionInv, Sockets
  <2>2. CASE links[k].code = c /\ links[k].listed
    <3> DEFINE h == Hears(o, k, l)
    <3>1. links'[k] = IF k = l THEN [h EXCEPT !.up = Tail(@)] ELSE h
      BY <1>2, <2>1, <2>2
    <3> DEFINE g == IF k = l THEN [h EXCEPT !.up = Tail(@)] ELSE h
    <3>2. /\ Faultless(g) /\ Follows(links[k], g) /\ g.heard = links[k].heard
          /\ g.pid = IF k = l THEN p ELSE links[k].pid
          /\ k = l => ~Unread(g)
          /\ \A f \in Range(g.down) : IsParting(f) => f \in Range(links[k].down) \/ HasRival(links[k].driver)
      BY <2>2, WelcomeHeard, ZenonT(60)
    <3>3. links'[k] = g
      BY <3>1
    <3> HIDE DEF g
    <3> QED
      BY <3>2, <3>3
  <2>3. CASE ~(links[k].code = c /\ links[k].listed)
    <3>1. links'[k] = links[k] /\ k # l
      BY <1>2, <2>1, <2>3, ZenonT(60)
    <3> QED
      BY <2>1, <3>1, StaysSame, SMTT(30) DEF Stays
  <2> QED
    BY <2>2, <2>3
<1>4. Used' = Used
  <2>1. ASSUME NEW k \in Used PROVE links'[k] # NoLink
    BY <1>3, LinkUsed DEF Faultless
  <2>2. ASSUME NEW k \in Link, links[k] = NoLink PROVE links'[k] = NoLink
    <3>1. links[k].code # c /\ k # l
      BY <2>2, SessionAssumption DEF NoLink, Used
    <3> QED
      BY <1>2, <2>2, <3>1
  <2> QED
    BY <2>1, <2>2, SMTT(30) DEF Used
<1>5. /\ Drivers' = Drivers /\ \A x : DriverAt(x)' = DriverAt(x) /\ Home(x)' = Home(x)
  BY DEF Drivers, DriverAt, Home
<1>6. IsRoom(rooms[c]) /\ IsRoom(o.room) /\ rooms[c].minted \in Nat /\ o.room.minted \in Nat
      /\ rooms[c].minted <= o.room.minted
  <2>1. IsRoom(rooms[c]) /\ IsRoom(o.room)
    BY RoomShape DEF SessionInv, Welcomed
  <2>2. rooms[c].minted \in Nat /\ o.room.minted \in Nat
    BY <2>1, SMTT(30) DEF IsRoom
  <2>3. o.room.minted = rooms[c].minted \/ o.room.minted = rooms[c].minted + 1
    BY DEF Welcomed
  <2> QED
    BY <2>1, <2>2, <2>3, SMTT(30)
<1>7. \A b \in Code : Exists(b) <=> Exists(b)'
  BY <1>1, <1>6, RoomExists DEF Exists
<1>8. Shapes'
  <2>1. \A b \in Code : IF Exists(b)' THEN IsRoom(rooms'[b]) ELSE rooms'[b] \in {Unmade, Deleted}
    BY <1>1, <1>6, <1>7, SMTT(30) DEF SessionInv, Shapes
  <2>2. \A b \in Code : rooms[b] # Unmade => rooms'[b] # Unmade
    BY <1>1, <1>6, RoomExists, SMTT(30)
  <2> QED
    BY <1>1, <2>1, <2>2 DEF SessionInv, Shapes
<1>9. Sockets'
  BY <1>3, <1>4 DEF Sockets
<1>10. NobodyNew
  BY <1>3, <1>4, <1>5 DEF NobodyNew, GoesOn
<1>11. References'
  <2>1. \A x \in Drivers : DriverAt(x).socket \in {NoSocket} \cup Link
    BY DriverShape DEF IsDriver, SessionInv
  <2>2. ASSUME NEW x \in Drivers, NEW k \in Used, links[k].heard, links[k].driver = x PROVE Together(x, k)
    <3>1. k \in Used' /\ links'[k].heard
      BY <1>3, <1>4, <2>2
    <3>2. DriverAt(x).socket = k /\ k # NoSocket
      BY <2>2 DEF SessionInv, References, Used, Link, NoSocket
    <3>3. ~Stopped(DriverAt(x))
      BY <3>2 DEF SessionInv, References
    <3>4. DriverAt(x)'.socket = k /\ ~Stopped(DriverAt(x)')
      BY <1>5, <3>2, <3>3
    <3> QED
      BY <3>1, <3>4, SMTT(30) DEF Together
  <2>3. \A b \in Browser, d \in Code : stored'[b][d] # NoCredential => d \in shared
    BY DEF SessionInv, References
  <2> QED
    BY <1>3, <1>5, <1>10, <2>1, <2>2, <2>3, ReferencesKept DEF SessionInv
<1>12. Doors'
  <2> SUFFICES ASSUME NEW k \in Used', links'[k].listed /\ links'[k].open PROVE Exists(links[k].code)'
    BY DEF Doors
  <2>1. k \in Used /\ links'[k].code = links[k].code /\ links[k].listed /\ links[k].open
    BY <1>3, <1>4 DEF Follows
  <2>2. Exists(links[k].code) /\ links[k].code \in Code
    BY <2>1 DEF SessionInv, Doors, Sockets, Faultless, IsLink
  <2> QED
    BY <1>7, <2>1, <2>2
<1>13. Answers'
  BY <1>5 DEF SessionInv, Answers
<1>14. Claims'
  <2>1. \A q \in Request, d \in Code : Created(q, d)' => Created(q, d)
    BY DEF Created
  <2>2. ASSUME NEW d \in Code, Spent(d)' PROVE Spent(d) \/ SpentByHello(d)
    <3>1. CASE d # c
      BY <1>1, <1>7, <2>2, <3>1, SMTT(30) DEF Spent
    <3>2. CASE d = c /\ ~m.claim
      BY <1>1, <2>2, <3>2 DEF Spent, Welcomed
    <3>3. CASE d = c /\ m.claim
      BY <1>3, <3>3 DEF SpentByHello
    <3> QED
      BY <3>1, <3>2, <3>3
  <2>3. \A x \in Drivers : DriverAt(x).code \in Code
    BY DriverShape DEF SessionInv
  <2>4. \A d \in Code : rooms[d] # Unmade => rooms'[d] # Unmade
    BY <1>1, <1>6, RoomExists
  <2> QED
    BY <1>5, <1>10, <2>1, <2>2, <2>3, <2>4, ClaimsKept DEF SessionInv
<1>15. Owners'
  <2> DEFINE x == links[l].driver
             n == Home(x)
  <2>1. x \in Drivers /\ n \in Browser
    BY DriverShape DEF SessionInv, References, Shapes, Home
  <2>2. Knows(n, c, m.credential)
    BY DEF Knows, Tells, Home
  <2>3. p \in 1 .. o.room.minted /\ (p = m.credential \/ p = rooms[c].minted + 1)
    BY DEF Welcomed, IsRoom
  <2>4. ASSUME NEW b \in Browser, NEW d \in Code, NEW q \in Nat \ {0}, Knows(b, d, q)'
        PROVE  Knows(b, d, q) \/ (b = n /\ d = c /\ q = p)
    <3>1. CASE stored'[b][d] = q
      BY <3>1 DEF Knows
    <3>2. ASSUME NEW k \in Used', Tells(links[k], b, d, q)', k # l
          PROVE  Knows(b, d, q)
      <4>1. /\ k \in Used /\ links'[k].pid = links[k].pid /\ links'[k].code = links[k].code
            /\ links'[k].driver = links[k].driver
            /\ Unread(links'[k]) => Unread(links[k]) /\ links'[k].up[1] = links[k].up[1]
        BY <1>3, <1>4, <3>2 DEF Follows
      <4>2. Tells(links[k], b, d, q)
        BY <3>2, <4>1, SMTT(30) DEF Tells
      <4> QED
        BY <4>1, <4>2, SMTT(30) DEF Knows
    <3>3. CASE Tells(links[l], b, d, q)'
      <4>1. links'[l].code = c /\ links'[l].driver = x /\ ~Unread(links'[l]) /\ links'[l].pid = p
        BY <1>3 DEF Follows
      <4> HIDE DEF p, x
      <4>2. b = home[x[1]] /\ d = c /\ q = p
        BY <3>3, <4>1 DEF Tells
      <4> QED
        BY <4>2, SMTT(30) DEF Home
    <3> QED
      BY <2>4, <3>1, <3>2, <3>3 DEF Knows
  <2>5. p = rooms[c].minted + 1 => \A a \in Browser : ~Knows(a, c, p)
    BY <1>6, <2>3 DEF SessionInv, Owners
  <2>6. \A d \in Code : Exists(d)' => Exists(d) /\ rooms'[d].minted >= rooms[d].minted
    BY <1>1, <1>6, <1>7, RoomShape DEF SessionInv
  <2>7. \A d \in Code : Exists(d) => rooms[d].minted \in Nat
    BY RoomShape DEF SessionInv
  <2>8. \A d \in Code : Exists(d)' => rooms'[d].minted \in Nat
    BY <1>1, <1>6, <1>7, <2>7
  <2> HIDE DEF n, p, m
  <2>9. ASSUME NEW b \in Browser, NEW d \in Code, NEW q \in Nat \ {0}, Knows(b, d, q)'
        PROVE  \/ Knows(b, d, q) /\ (Exists(d)' => Exists(d) /\ rooms'[d].minted >= rooms[d].minted)
               \/ /\ b = n /\ q = p /\ \A a \in Browser : Knows(a, d, q)' => a = n
                  /\ Exists(d)' => p <= rooms'[d].minted
    <3>1. CASE Knows(b, d, q)
      BY <2>6, <3>1
    <3>2. CASE ~Knows(b, d, q)
      <4>1. b = n /\ d = c /\ q = p
        BY <2>4, <2>9, <3>2
      <4>2. \A a \in Browser : ~Knows(a, c, p)
        BY <2>2, <2>3, <2>5, <3>2, <4>1
      <4>3. \A a \in Browser : Knows(a, d, q)' => a = n
        BY <2>4, <2>9, <4>1, <4>2
      <4>4. p <= rooms'[d].minted
        BY <1>1, <1>6, <2>3, <4>1
      <4> QED
        BY <4>1, <4>3, <4>4
    <3> QED
      BY <3>1, <3>2
  <2>10. OnlyLearns(n, p)
    BY <2>9 DEF OnlyLearns
  <2> QED
    BY <2>7, <2>8, <2>10, OwnersKept DEF SessionInv
<1>16. Partings'
  <2>1. \A k \in Used' : \A f \in Range(links'[k].down) : IsParting(f) =>
            /\ k \in Used /\ links'[k].driver = links[k].driver
            /\ f \in Range(links[k].down) \/ HasRival(links[k].driver)
    BY <1>3, <1>4 DEF Follows
  <2> QED
    BY <1>5, <2>1, PartingsKept, SMTT(30) DEF SessionInv
<1> QED
  BY <1>8, <1>9, <1>11, <1>12, <1>13, <1>14, <1>15, <1>16 DEF SessionInv

\* A room has read what nobody was let in by.
LEMMA ReadKeeps ==
    ASSUME SessionInv, UNCHANGED <<home, drivers, current, pages, request, stored, shared>>,
           NEW l \in Used, NEW c \in Code, c = links[l].code, links[l].listed, links[l].up # <<>>,
           NEW o, Spoken(rooms[c], o), Exists(c) \/ o.room = rooms[c],
           Unread(links[l]) => o.reason # "none" /\ o.dismissed = Nobody,
           rooms' = [rooms EXCEPT ![c] = o.room],
           links' = [Announced(c, o, l) EXCEPT ![l].up = Tail(@)]
    PROVE  SessionInv'
<1> DEFINE h == Announced(c, o, l)[l]
           g == [h EXCEPT !.up = Tail(@)]
<1>1. l \in Link /\ Faultless(links[l])
  BY DEF Used, SessionInv, Sockets
<1>2. h = Hears(o, l, l)
  BY <1>1 DEF Announced
<1>3. /\ DOMAIN links' = Link
      /\ links'[l] = g
      /\ \A k \in Link \ {l} : links'[k] = Announced(c, o, l)[k]
  <2>1. DOMAIN Announced(c, o, l) = Link
    BY DEF Announced
  <2> QED
    BY <1>1, <2>1
<1> HIDE DEF h
<1>4. /\ Faultless(h) /\ Stays(links[l], h) /\ SameLink(links[l], h) /\ h.pid = links[l].pid
      /\ o.reason # "none" /\ o.dismissed = Nobody => ~h.open
  BY <1>2, HeardOutcome
<1>5. h.pid = Nobody => ~h.open
  BY <1>4 DEF Unread, Stays, Follows
<1>6. h.up = links[l].up /\ \A i \in 2 .. Len(h.up) : h.up[i].type \in CommandTypes
  BY <1>1, <1>4 DEF SameLink, Faultless, Says
<1>7. IsLink(h) /\ \A f \in Range(h.down) : IsFrame(f, h)
  BY <1>4 DEF Faultless
<1>8. Faultless(g) /\ Stays(h, g) /\ g.heard = h.heard
  BY <1>5, <1>6, <1>7, ReadFacts, SMTT(30)
<1> HIDE DEF g
<1>9. \A k \in Link : LET j == Announced(c, o, l)[k]
                      IN  \/ links'[k] = j
                          \/ links'[k] = NoLink /\ ~j.heard
                          \/ /\ k \in Used /\ Faultless(links'[k]) /\ Stays(j, links'[k])
                             /\ links'[k].heard = j.heard
  <2> SUFFICES ASSUME NEW k \in Link
               PROVE  LET j == Announced(c, o, l)[k]
                      IN  \/ links'[k] = j
                          \/ links'[k] = NoLink /\ ~j.heard
                          \/ /\ k \in Used /\ Faultless(links'[k]) /\ Stays(j, links'[k])
                             /\ links'[k].heard = j.heard
    OBVIOUS
  <2>1. CASE k = l
    BY <1>3, <1>8, <2>1 DEF h
  <2>2. CASE k # l
    BY <1>3, <2>2
  <2> QED
    BY <2>1, <2>2, SMTT(30)
<1> QED
  BY <1>3, <1>9, RoomSays, ZenonT(40)

\* A room reads a message.
LEMMA ReadsKeep == ASSUME SessionInv, NEW l \in Link, RoomReads(l) PROVE SessionInv'
<1> DEFINE k == links[l]
           m == k.up[1]
           outcomes(c) == IF ~Exists(c) THEN {[Outcome(rooms[c]) EXCEPT !.reason = "room_closed"]}
                          ELSE IF k.pid # Nobody THEN HandleCommand(rooms[c], k.pid, m)
                          ELSE IF ~k.open THEN {Outcome(rooms[c])}
                          ELSE IF m.type # "hello" THEN {TurnedAway(rooms[c], "hello_required")}
                          ELSE {Hello(rooms[c], m)}
<1>1. l \in Used /\ Faultless(k) /\ k.code \in Code /\ k.listed /\ k.up # <<>>
  BY CodedUsed DEF RoomReads, SessionInv, Sockets, Faultless, IsLink
<1>2. Head(k.up) = m /\ Len(k.up) \in Nat \ {0}
  BY <1>1, ProperTail DEF Faultless, IsLink
<1>3. PICK c \in Code : c = k.code
  BY <1>1
<1>4. PICK o \in outcomes(c) :
          /\ rooms' = [rooms EXCEPT ![c] = o.room]
          /\ links' = [Announced(c, o, l) EXCEPT ![l].up = Tail(@)]
  BY <1>2, <1>3 DEF RoomReads
<1>5. UNCHANGED <<home, drivers, current, pages, request, stored, shared>>
  BY DEF RoomReads
<1>6. CASE ~Exists(c)
  <2>1. c \in shared
    BY <1>1, <1>3 DEF SessionInv, References
  <2>2. rooms[c] = Deleted
    BY <1>6, <2>1 DEF SessionInv, Shapes
  <2>3. o = [Outcome(Deleted) EXCEPT !.reason = "room_closed"]
    BY <1>4, <1>6, <2>2
  <2>4. Spoken(rooms[c], o) /\ o.room = rooms[c] /\ o.reason = "room_closed" /\ o.dismissed = Nobody
    BY <2>2, <2>3, ToldEmpty DEF Spoken, Outcome
  <2> QED
    BY <1>1, <1>3, <1>4, <1>5, <2>4, ReadKeeps
<1>7. CASE Exists(c) /\ ~Unread(k)
  <2>1. IsRoom(rooms[c])
    BY <1>7, RoomShape DEF SessionInv
  <2>2. k.pid # Nobody => m.type \in CommandTypes
    BY <1>1, <1>2 DEF Faultless, Says
  <2>3. Spoken(rooms[c], o)
    BY <1>1, <1>4, <1>7, <2>1, <2>2, CommandSpoken, SilenceSpoken DEF Unread
  <2> QED
    BY <1>1, <1>3, <1>4, <1>5, <1>7, <2>3, ReadKeeps
<1>8. CASE Exists(c) /\ Unread(k)
  <2>1. IsRoom(rooms[c])
    BY <1>8, RoomShape DEF SessionInv
  <2>2. IsHello(m) /\ m.type = "hello"
    BY <1>1, <1>8 DEF Faultless, Says, IsHello
  <2>3. m.claim => ~rooms[c].claimSpent
    BY <1>1, <1>3, <1>8 DEF SessionInv, Claims, Spent
  <2>4. o = Hello(rooms[c], m)
    BY <1>4, <1>8, <2>2 DEF Unread
  <2>5. (Spoken(rooms[c], o) /\ o.reason # "none" /\ o.dismissed = Nobody) \/ Welcomed(rooms[c], m, o)
    BY <2>1, <2>2, <2>3, <2>4, HelloSpoken
  <2>6. CASE Spoken(rooms[c], o) /\ o.reason # "none" /\ o.dismissed = Nobody
    BY <1>1, <1>3, <1>4, <1>5, <1>8, <2>6, ReadKeeps
  <2>7. CASE Welcomed(rooms[c], m, o)
    BY <1>1, <1>3, <1>4, <1>5, <1>8, <2>7, WelcomeKeeps
  <2> QED
    BY <2>5, <2>6, <2>7
<1> QED
  BY <1>6, <1>7, <1>8

\* A request goes on, or is given up.
LEMMA RequestGoesOn ==
    ASSUME SessionInv, UNCHANGED <<home, rooms, links, drivers, current, pages, stored, shared>>,
           request' \in [Request -> IsRequest],
           \A q \in Request, c \in Code : Created(q, c)' => Created(q, c)
    PROVE  SessionInv'
<1> USE DEF SessionInv
<1>1. Used' = Used /\ Drivers' = Drivers /\ \A x : DriverAt(x)' = DriverAt(x) /\ Home(x)' = Home(x)
  BY DEF Used, Drivers, DriverAt, Home
<1>2. Shapes'
  BY DEF Shapes, Exists
<1>3. Sockets'
  BY <1>1 DEF Sockets
<1>4. References'
  BY <1>1 DEF References
<1>5. Doors'
  BY <1>1 DEF Doors, Exists
<1>6. Answers'
  BY <1>1 DEF Answers
<1>7. Claims'
  BY <1>1 DEF Claims, Spent, Exists
<1>8. Owners'
  BY <1>1 DEF Owners, Knows, Tells, Exists
<1>9. Partings'
  BY <1>1 DEF Partings, HasRival
<1> QED
  BY <1>2, <1>3, <1>4, <1>5, <1>6, <1>7, <1>8, <1>9

LEMMA RequestKeeps ==
    ASSUME SessionInv, NEW q \in Request,
           SubmitCreate(q) \/ RouterCollides(q) \/ CreateFails(q) \/ AnsweredNo(q)
    PROVE  SessionInv'
<1>1. UNCHANGED <<home, rooms, links, drivers, current, pages, stored, shared>>
  BY DEF SubmitCreate, RouterCollides, CreateFails, AnsweredNo
<1>2. PICK r \in IsRequest : r.state # "created" /\ request' = [request EXCEPT ![q] = r]
  <2>1. CASE SubmitCreate(q)
    <3>1. [state |-> "trying", attempts |-> 0] \in IsRequest
      BY DEF IsRequest
    <3> QED
      BY <2>1, <3>1 DEF SubmitCreate
  <2>2. CASE RouterCollides(q)
    <3> DEFINE r == IF request[q].attempts + 1 = CreateAttempts THEN [state |-> "refused"]
                    ELSE [state |-> "trying", attempts |-> request[q].attempts + 1]
    <3>1. request[q] \in [state : {"trying"}, attempts : Nat]
      BY <2>2 DEF RouterCollides, SessionInv, Shapes, IsRequest, NoRequest
    <3>2. r \in IsRequest /\ r.state # "created"
      BY <3>1 DEF IsRequest
    <3>3. request' = [request EXCEPT ![q] = r]
      BY <2>2 DEF RouterCollides
    <3> HIDE DEF r
    <3> QED
      BY <3>2, <3>3
  <2>3. CASE CreateFails(q) \/ AnsweredNo(q)
    <3>1. NoRequest \in IsRequest /\ NoRequest.state # "created"
      BY DEF IsRequest, NoRequest
    <3> QED
      BY <2>3, <3>1 DEF CreateFails, AnsweredNo
  <2> QED
    BY <2>1, <2>2, <2>3
<1>3. request \in [Request -> IsRequest]
  BY DEF SessionInv, Shapes
<1>4. request' \in [Request -> IsRequest]
  BY <1>1, <1>2, <1>3
<1>5. \A u \in Request, c \in Code : Created(u, c)' => Created(u, c)
  BY <1>1, <1>2, <1>3 DEF Created
<1> QED
  BY <1>1, <1>4, <1>5, RequestGoesOn

\* A new room is one that exists.
LEMMA NewRoomShape ==
    ASSUME NEW options
    PROVE  LET r == NewRoom(options)
           IN  IsRoom(r) /\ ~r.claimSpent /\ r.phase \notin {"unmade", "gone"} /\ r # Unmade
<1> DEFINE people == Nothing
           config == [bots |-> TRUE, shuffle |-> TRUE]
           r == [phase |-> "lobby", version |-> 0, turn |-> 1, people |-> people, minted |-> 0, claimSpent |-> FALSE,
                 look |-> FALSE, config |-> config, options |-> options, ring |-> {}, queued |-> {},
                 deadline |-> "none", story |-> 0]
<1>1. DOMAIN people = {} /\ people \in [{} -> Person]
  BY DEF Nothing
<1>2. r = NewRoom(options)
  BY DEF NewRoom
<1> HIDE DEF people, config
<1>3. IsRoom(r) /\ ~r.claimSpent
  BY <1>1, BoundsAssumption DEF IsRoom, Deadline
<1> HIDE DEF r
<1> QED
  BY <1>2, <1>3, RoomExists

\* The router makes a room, for one request.
LEMMA CreateKeeps == ASSUME SessionInv, NEW q \in Request, RouterCreates(q) PROVE SessionInv'
<1> USE DEF SessionInv
<1>1. PICK c \in Code, options \in Options :
          /\ rooms[c] = Unmade
          /\ rooms' = [rooms EXCEPT ![c] = NewRoom(options)]
          /\ request' = [request EXCEPT ![q] = [state |-> "created", code |-> c]]
  BY DEF RouterCreates, MayInitialize
<1>2. UNCHANGED <<home, links, drivers, current, pages, stored, shared>>
  BY DEF RouterCreates
<1>3. Used' = Used /\ Drivers' = Drivers /\ \A x : DriverAt(x)' = DriverAt(x) /\ Home(x)' = Home(x)
  BY <1>2 DEF Used, Drivers, DriverAt, Home
<1>4. IsRoom(rooms'[c]) /\ Exists(c)' /\ ~Spent(c)' /\ rooms'[c] # Unmade /\ ~Exists(c)
  BY <1>1, NewRoomShape, RoomShape DEF Shapes, Exists, Spent
<1>5. \A d \in Code \ {c} : rooms'[d] = rooms[d] /\ (Exists(d)' <=> Exists(d)) /\ (Spent(d)' <=> Spent(d))
  BY <1>1 DEF Shapes, Exists, Spent
<1>6. c \notin shared
  BY <1>1 DEF Shapes
<1>7. /\ \A x \in Drivers : DriverAt(x).code # c /\ DriverAt(x).code \in Code
      /\ \A l \in Used : links[l].code # c /\ links[l].code \in Code
      /\ \A b \in Browser : stored[b][c] = NoCredential
  BY <1>6, DriverShape DEF References
<1>8. /\ \A u \in Request, d \in Code : Created(u, d)' => (u = q /\ d = c) \/ (Created(u, d) /\ d # c /\ u # q)
      /\ request' \in [Request -> IsRequest]
  <2>1. request \in [Request -> IsRequest]
    BY DEF Shapes
  <2>2. [state |-> "created", code |-> c] \in IsRequest
    BY DEF IsRequest
  <2>3. request' \in [Request -> IsRequest]
    BY <1>1, <2>1, <2>2
  <2>4. \A u \in Request : ~Created(u, c)
    BY <1>1 DEF Claims
  <2> QED
    BY <1>1, <2>1, <2>3, <2>4 DEF Created
<1>9. Shapes'
  <2>1. DOMAIN rooms' = Code /\ \A d \in Code : IF Exists(d)' THEN IsRoom(rooms'[d]) ELSE rooms'[d] \in {Unmade, Deleted}
    BY <1>1, <1>4, <1>5 DEF Shapes
  <2>2. \A d \in Code : rooms[d] # Unmade => rooms'[d] # Unmade
    BY <1>4, <1>5
  <2> QED
    BY <1>2, <1>8, <2>1, <2>2 DEF Shapes
<1>10. Sockets'
  BY <1>2, <1>3 DEF Sockets
<1>11. References'
  BY <1>2, <1>3 DEF References
<1>12. Doors'
  BY <1>2, <1>3, <1>5, <1>7 DEF Doors
<1>13. Answers'
  BY <1>3 DEF Answers
<1>14. Claims'
  <2>1. ASSUME NEW u \in Request, NEW d \in Code, Created(u, d)'
        PROVE  /\ rooms'[d] # Unmade /\ ~Spent(d)'
               /\ \A v \in Request : Created(v, d)' => v = u
               /\ \A x \in Drivers' : DriverAt(x)'.code = d => ~DriverAt(x)'.claim
    <3>1. CASE u = q /\ d = c
      BY <1>3, <1>4, <1>7, <1>8, <3>1
    <3>2. CASE Created(u, d) /\ d # c /\ u # q
      BY <1>3, <1>5, <1>8, <3>2 DEF Claims
    <3> QED
      BY <1>8, <2>1, <3>1, <3>2
  <2>2. \A x \in Drivers : DriverAt(x).claim /\ Unsaid(DriverAt(x)) => ~Spent(DriverAt(x).code)'
    BY <1>3, <1>5, <1>7 DEF Claims
  <2>3. \A l \in Used : Unread(links[l]) /\ links[l].up[1].claim => ~Spent(links[l].code)'
    BY <1>2, <1>5, <1>7 DEF Claims
  <2>4. \A x, y \in Drivers :
            DriverAt(x).code = DriverAt(y).code /\ DriverAt(x).claim /\ DriverAt(y).claim => x = y
    BY DEF Claims
  <2>5. \A x \in Drivers : DriverAt(x).claim /\ Unsaid(DriverAt(x)) => \A l \in Used : links[l].driver # x
    BY DEF Claims
  <2>6. /\ \A l, k \in Used :
               links[l].driver = links[k].driver /\ DriverAt(links[l].driver).claim => l = k
        /\ \A l \in Used : Unread(links[l]) /\ links[l].up[1].claim => DriverAt(links[l].driver).claim
    BY DEF Claims
  <2> QED
    BY <1>2, <1>3, <2>1, <2>2, <2>3, <2>4, <2>5, <2>6 DEF Claims
<1>15. Owners'
  <2>1. ASSUME NEW b \in Browser, NEW d \in Code, NEW p \in Nat \ {0}, Knows(b, d, p)'
        PROVE  Knows(b, d, p) /\ (Exists(d)' => Exists(d) /\ rooms'[d].minted >= rooms[d].minted)
    <3>1. Knows(b, d, p)
      BY <1>2, <1>3, <2>1 DEF Knows, Tells
    <3>2. d # c
      BY <1>7, <3>1 DEF Knows, Tells, NoCredential
    <3> QED
      BY <1>5, <3>1, <3>2, RoomShape
  <2>2. OnlyLearns(0, 0)
    BY <2>1 DEF OnlyLearns
  <2>3. \A d \in Code : Exists(d) => rooms[d].minted \in Nat
    BY RoomShape
  <2>4. \A d \in Code : Exists(d)' => rooms'[d].minted \in Nat
    BY <1>4, <1>5, <2>3 DEF IsRoom
  <2> QED
    BY <2>2, <2>3, <2>4, OwnersKept
<1>16. Partings'
  BY <1>2, <1>3 DEF Partings, HasRival
<1> QED
  BY <1>9, <1>10, <1>11, <1>12, <1>13, <1>14, <1>15, <1>16

\* A page enters a room: with the claim its request has brought, or with none.
LEMMA EnterKeeps ==
    ASSUME SessionInv, NEW t \in Tab, NEW c \in Code, NEW claim \in BOOLEAN, NEW password \in BOOLEAN,
           Enter(t, NewDriver(c, claim, password)),
           UNCHANGED <<home, rooms, links, stored>>,
           rooms[c] # Unmade,
           claim => \E q \in Request : Created(q, c) /\ ~Created(q, c)',
           request' \in [Request -> IsRequest],
           \A u \in Request, d \in Code : Created(u, d)' => Created(u, d)
    PROVE  SessionInv'
<1> USE DEF SessionInv
<1> DEFINE d == NewDriver(c, claim, password)
           n == Len(drivers[t]) + 1
<1>1. /\ d \in IsDriver /\ d.code = c /\ d.claim = claim /\ d.socket = NoSocket /\ ~d.ever
      /\ d.status = "connecting"
  BY DEF NewDriver, IsDriver, Unseen, Stages
<1>2. /\ Len(drivers[t]) < MaxEntries /\ drivers' = [drivers EXCEPT ![t] = Append(@, d)]
      /\ current' = [current EXCEPT ![t] = n]
      /\ pages' = [pages EXCEPT ![t] = NewPage(c)] /\ shared' = shared \cup {c}
  BY <1>1 DEF Enter
<1> HIDE DEF d
<1>3. drivers \in [Tab -> Seq(IsDriver)] /\ Len(drivers[t]) \in Nat /\ MaxEntries \in Nat
  BY LenProperties, SessionAssumption DEF Shapes
<1>4. /\ drivers'[t] \in Seq(IsDriver) /\ Len(drivers'[t]) = n
      /\ \A i \in 1 .. Len(drivers[t]) : drivers'[t][i] = drivers[t][i]
      /\ drivers'[t][n] = d
      /\ drivers' \in [Tab -> Seq(IsDriver)]
      /\ \A u \in Tab \ {t} : drivers'[u] = drivers[u]
  BY <1>1, <1>2, <1>3, AppendProperties
<1>z. PICK z : z = <<t, n>>
  OBVIOUS
<1>5. z \in Driver /\ z \notin Drivers /\ Drivers' = Drivers \cup {z} /\ DriverAt(z)' = d
  <2>1. z \in Driver /\ z[1] = t /\ z[2] = n
    BY <1>2, <1>3, <1>z DEF Driver
  <2>2. z \notin Drivers
    BY <1>3, <2>1 DEF Drivers
  <2>3. ASSUME NEW x \in Driver PROVE x[2] <= Len(drivers'[x[1]]) <=> x[2] <= Len(drivers[x[1]]) \/ x = z
    <3>1. x[1] \in Tab /\ x[2] \in Nat /\ x = <<x[1], x[2]>>
      BY DEF Driver
    <3> QED
      BY <1>3, <1>4, <1>z, <3>1
  <2> QED
    BY <1>4, <2>1, <2>2, <2>3 DEF Drivers, DriverAt
<1>6. \A x \in Drivers : DriverAt(x)' = DriverAt(x) /\ x # z
  <2> SUFFICES ASSUME NEW x \in Drivers PROVE DriverAt(x)' = DriverAt(x)
    BY <1>5
  <2>1. x[1] \in Tab /\ x[2] \in 1 .. Len(drivers[x[1]])
    BY DriverShape
  <2> QED
    BY <1>4, <2>1 DEF DriverAt
<1>7. Used' = Used /\ \A l \in Used : links[l].driver \in Drivers
  BY DEF Used, References
<1>8. Shapes'
  <2>1. \A u \in Tab : Len(drivers'[u]) <= MaxEntries
    BY <1>2, <1>3, <1>4 DEF Shapes
  <2>2. current' \in [Tab -> Nat] /\ \A u \in Tab : current'[u] <= Len(drivers'[u])
    BY <1>2, <1>3, <1>4 DEF Shapes
  <2>3. DOMAIN pages' = Tab /\ \A u \in Tab : IF current'[u] = 0 THEN pages'[u] = NoPage ELSE "self" \in DOMAIN pages'[u]
    <3>1. "self" \in DOMAIN NewPage(c)
      BY DEF NewPage
    <3>2. current'[t] = n /\ n # 0 /\ pages'[t] = NewPage(c)
      BY <1>2, <1>3 DEF Shapes
    <3>3. DOMAIN pages' = Tab /\ \A u \in Tab \ {t} : pages'[u] = pages[u] /\ current'[u] = current[u]
      BY <1>2 DEF Shapes
    <3> HIDE DEF n
    <3> QED
      BY <3>1, <3>2, <3>3 DEF Shapes
  <2>4. shared' \subseteq {b \in Code : rooms'[b] # Unmade}
    BY <1>2 DEF Shapes
  <2> QED
    BY <1>4, <2>1, <2>2, <2>3, <2>4 DEF Shapes, Exists
<1>9. Sockets'
  BY <1>7 DEF Sockets
<1>10. References'
  <2>1. \A x \in Drivers' : DriverAt(x)'.code \in shared'
    BY <1>1, <1>2, <1>5, <1>6 DEF References
  <2>2. \A x \in Drivers' : DriverAt(x)'.socket # NoSocket =>
           /\ ~Stopped(DriverAt(x))'
           /\ links'[DriverAt(x)'.socket] # NoLink
           /\ links'[DriverAt(x)'.socket].heard /\ links'[DriverAt(x)'.socket].driver = x
    BY <1>1, <1>5, <1>6 DEF References
  <2>3. \A l \in Used' :
           /\ links'[l].driver \in Drivers' /\ links'[l].code = DriverAt(links[l].driver)'.code
           /\ links'[l].heard => DriverAt(links[l].driver)'.socket = l
           /\ ~links'[l].heard => links'[l].cut
           /\ Unread(links'[l]) => links'[l].heard \/ Stopped(DriverAt(links[l].driver))'
    BY <1>5, <1>6, <1>7 DEF References
  <2>4. \A b \in Browser, e \in Code : stored'[b][e] # NoCredential => e \in shared'
    BY <1>2 DEF References
  <2> QED
    BY <2>1, <2>2, <2>3, <2>4 DEF References
<1>11. Doors'
  BY <1>7 DEF Doors, Exists
<1>12. Answers'
  BY <1>1, <1>5, <1>6 DEF Answers
<1>13. Claims'
  <2>1. \A b \in Code : (Spent(b)' <=> Spent(b)) /\ rooms'[b] = rooms[b]
    BY DEF Spent, Exists
  <2>2. \A x \in Drivers : DriverAt(x).code = c => ~(claim /\ DriverAt(x).claim)
    BY DEF Claims
  <2>3. \A u \in Request, b \in Code : Created(u, b)' =>
           /\ rooms'[b] # Unmade /\ ~Spent(b)'
           /\ \A v \in Request : Created(v, b)' => v = u
           /\ \A x \in Drivers' : DriverAt(x)'.code = b => ~DriverAt(x)'.claim
    <3> SUFFICES ASSUME NEW u \in Request, NEW b \in Code, Created(u, b)'
                 PROVE  \A x \in Drivers' : DriverAt(x)'.code = b => ~DriverAt(x)'.claim
      BY <2>1 DEF Claims
    <3>1. \A x \in Drivers : DriverAt(x).code = b => ~DriverAt(x).claim
      BY DEF Claims
    <3>2. b = c => ~claim
      BY DEF Claims
    <3> QED
      BY <1>1, <1>5, <1>6, <3>1, <3>2
  <2>4. \A x, y \in Drivers' :
           DriverAt(x)'.code = DriverAt(y)'.code /\ DriverAt(x)'.claim /\ DriverAt(y)'.claim => x = y
    BY <1>1, <1>5, <1>6, <2>2 DEF Claims
  <2>5. \A x \in Drivers' : DriverAt(x)'.claim /\ Unsaid(DriverAt(x))' =>
           ~Spent(DriverAt(x).code)' /\ \A l \in Used' : links'[l].driver # x
    <3>1. ASSUME NEW x \in Drivers, DriverAt(x)'.claim /\ Unsaid(DriverAt(x))'
          PROVE  ~Spent(DriverAt(x).code)' /\ \A l \in Used' : links'[l].driver # x
      <4>1. DriverAt(x).code \in Code
        BY DriverShape
      <4>2. DriverAt(x).claim /\ Unsaid(DriverAt(x))
        BY <1>6, <3>1
      <4> QED
        BY <1>6, <1>7, <2>1, <4>1, <4>2 DEF Claims
    <3>2. ASSUME DriverAt(z)'.claim
          PROVE  ~Spent(DriverAt(z).code)' /\ \A l \in Used' : links'[l].driver # z
      <4>1. claim /\ DriverAt(z)'.code = c
        BY <1>1, <1>5, <3>2
      <4>2. ~Spent(c)
        BY <4>1 DEF Claims
      <4> QED
        BY <1>5, <1>7, <2>1, <4>1, <4>2
    <3> QED
      BY <1>5, <3>1, <3>2
  <2>6. \A l, k \in Used' :
           links'[l].driver = links'[k].driver /\ DriverAt(links[l].driver)'.claim => l = k
    BY <1>6, <1>7 DEF Claims
  <2>7. \A l \in Used' : Unread(links'[l]) /\ links'[l].up[1].claim =>
           DriverAt(links[l].driver)'.claim /\ ~Spent(links[l].code)'
    <3> SUFFICES ASSUME NEW l \in Used, Unread(links[l]) /\ links[l].up[1].claim
                 PROVE  DriverAt(links[l].driver)'.claim /\ ~Spent(links[l].code)'
      BY <1>7
    <3>1. DriverAt(links[l].driver).claim /\ ~Spent(links[l].code) /\ links[l].code \in Code
      BY DEF Claims, Sockets, Faultless, IsLink
    <3> QED
      BY <1>6, <1>7, <2>1, <3>1
  <2> QED
    BY <2>3, <2>4, <2>5, <2>6, <2>7 DEF Claims
<1>14. Owners'
  BY <1>7 DEF Owners, Knows, Tells, Exists
<1>15. Partings'
  <2>1. \A x \in Drivers' : DriverAt(x)'.status = "superseded" =>
            x \in Drivers /\ (DriverAt(x).status = "superseded" \/ HasRival(x))
    BY <1>1, <1>5, <1>6
  <2>2. \A l \in Used' : \A f \in Range(links'[l].down) : IsParting(f) =>
            /\ l \in Used /\ links'[l].driver = links[l].driver
            /\ f \in Range(links[l].down) \/ HasRival(links[l].driver)
    BY <1>7
  <2>3. Drivers \subseteq Drivers' /\ \A x \in Drivers : DriverAt(x)'.code = DriverAt(x).code
    BY <1>5, <1>6
  <2> QED
    BY <2>1, <2>2, <2>3, PartingsKept
<1> QED
  BY <1>8, <1>9, <1>10, <1>11, <1>12, <1>13, <1>14, <1>15

\* The answer to a request, and the join form.
LEMMA AnsweredKeeps == ASSUME SessionInv, NEW q \in Request, Answered(q) PROVE SessionInv'
<1>1. request \in [Request -> IsRequest]
  BY DEF SessionInv, Shapes
<1>2. PICK c \in Code : request[q] = [state |-> "created", code |-> c]
  BY <1>1 DEF Answered, IsRequest, NoRequest
<1>3. request' = [request EXCEPT ![q] = NoRequest] /\ NoRequest \in IsRequest /\ NoRequest.state = "none"
  BY DEF Answered, IsRequest, NoRequest
<1>4. request' \in [Request -> IsRequest] /\ \A u \in Request, d \in Code : Created(u, d)' => Created(u, d) /\ u # q
  BY <1>1, <1>3 DEF Created
<1>5. Created(q, c) /\ ~Created(q, c)'
  BY <1>2, <1>4 DEF Created
<1>6. rooms[c] # Unmade
  BY <1>5 DEF SessionInv, Claims
<1>7. request[q].code = c
  BY <1>2
<1>8. q[1] \in Tab /\ Enter(q[1], NewDriver(c, TRUE, TRUE)) /\ UNCHANGED <<home, rooms, links, stored>>
  BY <1>7 DEF Answered, Request
<1> QED
  BY <1>4, <1>5, <1>6, <1>8, EnterKeeps

LEMMA JoinKeeps == ASSUME SessionInv, NEW t \in Tab, SubmitJoin(t) PROVE SessionInv'
<1>1. PICK c \in shared, password \in BOOLEAN : Enter(t, NewDriver(c, FALSE, password))
  BY DEF SubmitJoin
<1>2. c \in Code /\ rooms[c] # Unmade /\ request \in [Request -> IsRequest]
  BY DEF SessionInv, Shapes
<1>3. UNCHANGED <<home, rooms, links, stored, request>>
  BY DEF SubmitJoin
<1>4. \A q \in Request, d \in Code : Created(q, d)' => Created(q, d)
  BY <1>3 DEF Created
<1> QED
  BY <1>1, <1>2, <1>3, <1>4, EnterKeeps

\* Drivers go on, each with its socket or without, and nobody new comes in.
LEMMA DriversGoOn ==
    ASSUME SessionInv, UNCHANGED <<home, rooms, request, shared>>,
           drivers' \in [Tab -> Seq(IsDriver)], \A t \in Tab : Len(drivers'[t]) = Len(drivers[t]),
           current' \in [Tab -> Nat], \A t \in Tab : current'[t] \in {current[t], 0},
           DOMAIN pages' = Tab,
           \A t \in Tab : IF current'[t] = 0 THEN pages'[t] = NoPage ELSE "self" \in DOMAIN pages'[t],
           stored' \in [Browser -> [Code -> Nat]],
           \A b \in Browser, c \in Code, p \in Nat \ {0} : stored'[b][c] = p => Knows(b, c, p),
           \A b \in Browser, c \in Code : stored'[b][c] # NoCredential => c \in shared,
           \A x \in Drivers :
               /\ GoesOn(DriverAt(x), DriverAt(x)')
               /\ DriverAt(x)'.socket \in {DriverAt(x).socket, NoSocket}
               /\ Stopped(DriverAt(x)) => Stopped(DriverAt(x)')
               /\ DriverAt(x)'.ever => ~DriverAt(x)'.claim
               /\ DriverAt(x)'.status \in {"connected", "reconnecting"} => DriverAt(x)'.ever
               /\ DriverAt(x).claim => DriverAt(x)'.claim \/ LosesClaim(x)
               /\ DriverAt(x)'.status = "superseded" => DriverAt(x).status = "superseded" \/ HasRival(x),
           DOMAIN links' = Link,
           \A l \in Used' : l \in Used /\ Faultless(links'[l]) /\ Stays(links[l], links'[l]),
           \A l \in Used : ~links[l].heard /\ l \in Used' => ~links'[l].heard,
           \A x \in Drivers, l \in Used : links[l].heard /\ links[l].driver = x => Together(x, l)
    PROVE  SessionInv'
<1> USE DEF SessionInv
<1>1. Drivers' = Drivers
  <2>1. \A x \in Driver : x[1] \in Tab
    BY DEF Driver
  <2> QED
    BY <2>1 DEF Drivers
<1>2. \A c : (Exists(c)' <=> Exists(c)) /\ (Spent(c)' <=> Spent(c))
  BY DEF Exists, Spent
<1>3. \A x \in Drivers : DriverAt(x).socket \in {NoSocket} \cup Link /\ DriverAt(x).code \in Code
  BY DriverShape DEF IsDriver
<1>4. NobodyNew
  BY <1>1 DEF NobodyNew, Stays
<1>5. Shapes'
  <2>1. \A t \in Tab : current'[t] <= Len(drivers'[t])
    <3> SUFFICES ASSUME NEW t \in Tab PROVE current'[t] <= Len(drivers'[t])
      OBVIOUS
    <3>1. Len(drivers[t]) \in Nat /\ current[t] <= Len(drivers[t])
      BY LenProperties DEF Shapes
    <3> QED
      BY <3>1
  <2> QED
    BY <1>2, <2>1 DEF Shapes
<1>6. Sockets'
  BY DEF Sockets
<1>7. References'
  <2>1. \A x \in Drivers : /\ DriverAt(x).socket \in {NoSocket} \cup Link
                           /\ DriverAt(x)'.socket \in {DriverAt(x).socket, NoSocket}
    BY <1>3
  <2> QED
    BY <1>4, <2>1, ReferencesKept
<1>8. Doors'
  <2> SUFFICES ASSUME NEW l \in Used', links'[l].listed /\ links'[l].open PROVE Exists(links[l].code)'
    BY DEF Doors
  <2>1. l \in Used /\ links'[l].code = links[l].code /\ links[l].listed /\ links[l].open
    BY DEF Stays, Follows
  <2> QED
    BY <1>2, <2>1 DEF Doors
<1>9. Answers'
  BY <1>1 DEF Answers
<1>10. Claims'
  <2>1. \A q \in Request, c \in Code : Created(q, c)' => Created(q, c)
    BY DEF Created
  <2> QED
    BY <1>2, <1>3, <1>4, <2>1, ClaimsKept
<1>11. Owners'
  <2>1. \A c \in Code : Exists(c) => rooms[c].minted \in Nat
    BY RoomShape
  <2>2. ASSUME NEW b \in Browser, NEW c \in Code, NEW p \in Nat \ {0}, Knows(b, c, p)'
        PROVE  Knows(b, c, p) /\ (Exists(c)' => Exists(c) /\ rooms'[c].minted >= rooms[c].minted)
    <3>1. \A l \in Used' : l \in Used /\ Follows(links[l], links'[l]) /\ links'[l].pid = links[l].pid
      BY DEF Stays
    <3>2. Knows(b, c, p)
      BY <2>2, <3>1, KnownBefore
    <3> QED
      BY <1>2, <2>1, <3>2
  <2>3. OnlyLearns(0, 0)
    BY <2>2 DEF OnlyLearns
  <2> QED
    BY <1>2, <2>1, <2>3, OwnersKept
<1>12. Partings'
  <2>1. \A l \in Used' : \A f \in Range(links'[l].down) : IsParting(f) =>
            /\ l \in Used /\ links'[l].driver = links[l].driver
            /\ f \in Range(links[l].down) \/ HasRival(links[l].driver)
    BY DEF Stays, Follows
  <2>2. \A x \in Drivers : DriverAt(x)'.code = DriverAt(x).code
    BY DEF GoesOn
  <2>3. \A x \in Drivers' : DriverAt(x)'.status = "superseded" =>
            x \in Drivers /\ (DriverAt(x).status = "superseded" \/ HasRival(x))
    BY <1>1
  <2> QED
    BY <1>1, <2>1, <2>2, <2>3, PartingsKept
<1> QED
  BY <1>5, <1>6, <1>7, <1>8, <1>9, <1>10, <1>11, <1>12

\* One driver becomes d.
LEMMA DriverReplaced ==
    ASSUME Shapes, NEW c \in Drivers, NEW d \in IsDriver, drivers' = [drivers EXCEPT ![c[1]][c[2]] = d]
    PROVE  /\ drivers' \in [Tab -> Seq(IsDriver)] /\ \A t \in Tab : Len(drivers'[t]) = Len(drivers[t])
           /\ DriverAt(c)' = d /\ \A x \in Drivers \ {c} : DriverAt(x)' = DriverAt(x)
<1> DEFINE t == c[1]
           e == c[2]
<1>1. t \in Tab /\ e \in 1 .. Len(drivers[t]) /\ c = <<t, e>>
  BY DriverShape
<1>2. drivers \in [Tab -> Seq(IsDriver)]
  BY DEF Shapes
<1>3. /\ drivers'[t] = [drivers[t] EXCEPT ![e] = d]
      /\ \A u \in Tab \ {t} : drivers'[u] = drivers[u]
      /\ DOMAIN drivers' = Tab /\ drivers' = [u \in Tab |-> drivers'[u]]
  BY <1>1, <1>2
<1>4. /\ drivers'[t] \in Seq(IsDriver) /\ Len(drivers'[t]) = Len(drivers[t])
      /\ \A j \in 1 .. Len(drivers[t]) : drivers'[t][j] = IF j = e THEN d ELSE drivers[t][j]
  BY <1>1, <1>2, <1>3, ExceptSeq
<1>5. drivers' \in [Tab -> Seq(IsDriver)] /\ \A u \in Tab : Len(drivers'[u]) = Len(drivers[u])
  <2>1. \A u \in Tab : drivers'[u] \in Seq(IsDriver) /\ Len(drivers'[u]) = Len(drivers[u])
    BY <1>2, <1>3, <1>4
  <2> QED
    BY <1>3, <2>1
<1>6. DriverAt(c)' = d
  BY <1>1, <1>4 DEF DriverAt
<1>7. ASSUME NEW x \in Drivers \ {c} PROVE DriverAt(x)' = DriverAt(x)
  <2>1. x[1] \in Tab /\ x[2] \in 1 .. Len(drivers[x[1]]) /\ x = <<x[1], x[2]>> /\ (x[1] # t \/ x[2] # e)
    BY <1>1, DriverShape
  <2> QED
    BY <1>3, <1>4, <2>1 DEF DriverAt
<1> QED
  BY <1>5, <1>6, <1>7

\* A driver that keeps its socket, if it has one.
LEMMA KeepsTogether ==
    ASSUME SessionInv, NEW x \in Drivers, NEW l \in Used, links[l].heard, links[l].driver = x,
           l \in Used', links'[l].heard,
           DriverAt(x)'.socket = DriverAt(x).socket,
           Stopped(DriverAt(x)') => Stopped(DriverAt(x))
    PROVE  Together(x, l)
<1>1. DriverAt(x).socket = l /\ l # NoSocket
  BY DEF SessionInv, References, Used, Link, NoSocket
<1>2. ~Stopped(DriverAt(x))
  BY <1>1 DEF SessionInv, References
<1> QED
  BY <1>1, <1>2 DEF Together

\* The backoff ends.
LEMMA TryKeeps == ASSUME SessionInv, NEW c \in Drivers, TriesAgain(c) PROVE SessionInv'
<1> USE DEF SessionInv
<1> DEFINE d == [DriverAt(c) EXCEPT !.status = "connecting"]
<1>1. c[1] \in Tab /\ DriverAt(c) \in IsDriver /\ DriverAt(c).status = "reconnecting"
  BY DriverShape DEF TriesAgain
<1>2. /\ d \in IsDriver /\ d.code = DriverAt(c).code /\ d.claim = DriverAt(c).claim
      /\ d.socket = DriverAt(c).socket /\ d.ever = DriverAt(c).ever /\ d.status = "connecting"
  BY <1>1 DEF IsDriver, Stages
<1>3. drivers' = [drivers EXCEPT ![c[1]][c[2]] = d]
  BY DEF TriesAgain, DriverAt
<1> HIDE DEF d
<1>4. /\ drivers' \in [Tab -> Seq(IsDriver)] /\ \A t \in Tab : Len(drivers'[t]) = Len(drivers[t])
      /\ DriverAt(c)' = d /\ \A x \in Drivers \ {c} : DriverAt(x)' = DriverAt(x)
  BY <1>2, <1>3, DriverReplaced
<1>5. UNCHANGED <<home, rooms, links, current, pages, request, stored, shared>>
  BY DEF TriesAgain
<1>6. ~d.claim /\ d.ever
  BY <1>1, <1>2 DEF Answers
<1>7. ASSUME NEW x \in Drivers
      PROVE  /\ GoesOn(DriverAt(x), DriverAt(x)')
             /\ DriverAt(x)'.socket = DriverAt(x).socket
             /\ Stopped(DriverAt(x)) <=> Stopped(DriverAt(x)')
             /\ DriverAt(x)'.ever => ~DriverAt(x)'.claim
             /\ DriverAt(x)'.status \in {"connected", "reconnecting"} => DriverAt(x)'.ever
             /\ DriverAt(x).claim => DriverAt(x)'.claim \/ LosesClaim(x)
             /\ DriverAt(x)'.status = "superseded" => DriverAt(x).status = "superseded" \/ HasRival(x)
  <2>1. CASE x = c
    BY <1>1, <1>2, <1>4, <1>6, <2>1 DEF GoesOn, Stopped, Stages
  <2>2. CASE x # c
    BY <1>4, <2>2 DEF Answers, GoesOn
  <2> QED
    BY <2>1, <2>2
<1>8. Used' = Used /\ \A l \in Used : Faultless(links[l]) /\ Stays(links[l], links[l])
  BY <1>5, StaysSame DEF Used, Sockets
<1>9. \A x \in Drivers, l \in Used : links[l].heard /\ links[l].driver = x => Together(x, l)
  BY <1>5, <1>7, <1>8, KeepsTogether
<1>10. /\ \A b \in Browser, a \in Code, p \in Nat \ {0} : stored'[b][a] = p => Knows(b, a, p)
       /\ \A b \in Browser, a \in Code : stored'[b][a] # NoCredential => a \in shared
  BY <1>5 DEF Knows, References
<1>11. /\ current' \in [Tab -> Nat] /\ \A t \in Tab : current'[t] \in {current[t], 0}
       /\ DOMAIN pages' = Tab /\ DOMAIN links' = Link
       /\ \A t \in Tab : IF current'[t] = 0 THEN pages'[t] = NoPage ELSE "self" \in DOMAIN pages'[t]
       /\ stored' \in [Browser -> [Code -> Nat]]
  BY <1>5 DEF Shapes
<1> QED
  BY <1>4, <1>5, <1>7, <1>8, <1>9, <1>10, <1>11, DriversGoOn

\* A page that shows a room still does when it has folded a frame.
LEMMA FoldedShows ==
    ASSUME NEW page, "self" \in DOMAIN page, NEW frame
    PROVE  "self" \in DOMAIN Folded(page, frame)
<1>1. "self" \in DOMAIN Replaced(page, frame.body)
  BY DEF Replaced
<1>2. /\ "self" \in DOMAIN [page EXCEPT !.self = frame.body.self]
      /\ "self" \in DOMAIN [page EXCEPT !.queued = @ \cup {frame.body.seat}]
      /\ "self" \in DOMAIN [page EXCEPT !.story = @ + 1]
      /\ "self" \in DOMAIN [page EXCEPT !.view.queued = TRUE]
  OBVIOUS
<1> QED
  BY <1>1, <1>2 DEF Folded

\* What a driver becomes of a frame.
LEMMA ReceivedFacts ==
    ASSUME NEW d \in IsDriver, NEW frame, frame.version \in Int
    PROVE  LET e == Received(d, frame)
           IN  /\ e \in IsDriver /\ e.code = d.code /\ e.socket = d.socket
               /\ IF frame.type = "hello_ack" THEN ~e.claim /\ e.ever /\ e.status = "connected"
                  ELSE e.claim = d.claim /\ e.ever = d.ever /\ e.status = d.status
<1> DEFINE a == IF frame.type = "hello_ack" THEN Acknowledged(d) ELSE d
           last == IF frame.type = "snapshot" THEN frame.version ELSE Later(a.last, frame.version)
           e == [a EXCEPT !.last = last]
<1>1. /\ a \in IsDriver /\ a.code = d.code /\ a.socket = d.socket
      /\ IF frame.type = "hello_ack" THEN ~a.claim /\ a.ever /\ a.status = "connected"
         ELSE a.claim = d.claim /\ a.ever = d.ever /\ a.status = d.status
  BY DEF Acknowledged, IsDriver, Stages
<1> HIDE DEF a
<1>2. last \in Int
  BY <1>1 DEF Later, IsDriver
<1>3. Received(d, frame) = e
  BY DEF Received, a
<1> HIDE DEF last
<1>4. /\ e \in IsDriver /\ e.code = a.code /\ e.socket = a.socket /\ e.claim = a.claim
      /\ e.ever = a.ever /\ e.status = a.status
  BY <1>1, <1>2 DEF IsDriver
<1> QED
  BY <1>1, <1>3, <1>4

\* A driver takes a frame, and its page folds it.
LEMMA FrameKeeps == ASSUME SessionInv, NEW l \in Link, HearsFrame(l) PROVE SessionInv'
<1> USE DEF SessionInv
<1> DEFINE k == links[l]
           frame == Head(k.down)
           rest == [k EXCEPT !.down = Tail(@)]
           h == IF AsksResync(DriverAt(k.driver), frame) THEN WithCommand(rest, [type |-> "resync"]) ELSE rest
<1>1. l \in Used /\ Faultless(k) /\ k.heard /\ k.down # <<>> /\ frame.type # "close"
  BY CodedUsed DEF HearsFrame, Sockets
<1>2. /\ Faultless(rest) /\ Stays(k, rest) /\ rest.heard = k.heard /\ frame \in Range(k.down)
  BY <1>1, TakenFacts
<1>3. frame.version \in Int /\ (frame.type = "hello_ack" => k.pid # Nobody /\ frame.body.self = k.pid)
  BY <1>1, <1>2 DEF Faultless, IsFrame
<1>4. Faultless(h) /\ Stays(k, h) /\ h.heard = k.heard
  <2> HIDE DEF rest, k
  <2>1. LET g == WithCommand(rest, [type |-> "resync"])
        IN  Faultless(g) /\ Stays(rest, g) /\ g.heard = rest.heard
    BY <1>2, WithCommandFacts DEF CommandTypes
  <2> QED
    BY <1>2, <2>1, StaysOn
<1>5. PICK c \in Drivers : c = k.driver /\ DriverAt(c).socket = l
  BY <1>1 DEF References
<1> DEFINE d == Received(DriverAt(c), frame)
<1>6. c[1] \in Tab /\ DriverAt(c) \in IsDriver
  BY DriverShape
<1>7. /\ d \in IsDriver /\ d.code = DriverAt(c).code /\ d.socket = DriverAt(c).socket
      /\ IF frame.type = "hello_ack" THEN ~d.claim /\ d.ever /\ d.status = "connected"
         ELSE d.claim = DriverAt(c).claim /\ d.ever = DriverAt(c).ever /\ d.status = DriverAt(c).status
  BY <1>3, <1>6, ReceivedFacts
<1>8. /\ drivers' = [drivers EXCEPT ![c[1]][c[2]] = d]
      /\ links' = [links EXCEPT ![l] = h]
      /\ stored' = IF frame.type = "hello_ack" /\ frame.body.minted
                   THEN [stored EXCEPT ![Home(c)][DriverAt(c).code] = frame.body.self]
                   ELSE stored
      /\ pages' = [pages EXCEPT ![c[1]] = IF @ = NoPage THEN @ ELSE Folded(@, frame)]
      /\ UNCHANGED <<home, rooms, current, request, shared, budget>>
  BY <1>5 DEF HearsFrame
<1> HIDE DEF d, h, frame, rest
<1>9. /\ drivers' \in [Tab -> Seq(IsDriver)] /\ \A t \in Tab : Len(drivers'[t]) = Len(drivers[t])
      /\ DriverAt(c)' = d /\ \A x \in Drivers \ {c} : DriverAt(x)' = DriverAt(x)
  BY <1>7, <1>8, DriverReplaced
<1>10. /\ DOMAIN links' = Link /\ links'[l] = h /\ \A j \in Link \ {l} : links'[j] = links[j]
       /\ h # NoLink
  BY <1>4, <1>8, LinkUsed DEF Shapes, Faultless
<1>11. Used' = Used
  BY <1>1, <1>10 DEF Used
<1>12. \A j \in Used : Faultless(links'[j]) /\ Stays(links[j], links'[j]) /\ links'[j].heard = links[j].heard
  BY <1>4, <1>10, StaysSame DEF Used, Sockets
<1>13. ~Stopped(DriverAt(c)) /\ l # NoSocket
  BY <1>1, <1>5 DEF References, Link, NoSocket
<1>14. k.pid \in Nat \ {0} => Knows(Home(c), DriverAt(c).code, k.pid)
  BY <1>1, <1>5 DEF Knows, Tells, Home, References
<1>15. frame.type = "hello_ack" => k.pid \in Nat \ {0}
  BY <1>1, <1>3 DEF Faultless, IsLink
<1>16. Home(c) \in Browser /\ DriverAt(c).code \in Code /\ DriverAt(c).code \in shared
  BY <1>6, DriverShape DEF Home, Shapes, References
<1>17. /\ stored' \in [Browser -> [Code -> Nat]]
       /\ \A b \in Browser, a \in Code, p \in Nat \ {0} : stored'[b][a] = p => Knows(b, a, p)
       /\ \A b \in Browser, a \in Code : stored'[b][a] # NoCredential => a \in shared
  <2>1. CASE stored' = stored
    BY <2>1 DEF Shapes, References, Knows
  <2>2. CASE stored' # stored
    <3>1. stored' = [stored EXCEPT ![Home(c)][DriverAt(c).code] = k.pid] /\ k.pid \in Nat \ {0}
      BY <1>3, <1>8, <1>15, <2>2
    <3>2. /\ stored' \in [Browser -> [Code -> Nat]]
          /\ \A b \in Browser, a \in Code :
                 stored'[b][a] = IF b = Home(c) /\ a = DriverAt(c).code THEN k.pid ELSE stored[b][a]
      BY <1>16, <3>1 DEF Shapes
    <3> QED
      BY <1>14, <1>16, <3>1, <3>2 DEF References, Knows
  <2> QED
    BY <2>1, <2>2
<1>18. /\ current' \in [Tab -> Nat] /\ \A t \in Tab : current'[t] \in {current[t], 0}
       /\ DOMAIN pages' = Tab
       /\ \A t \in Tab : IF current'[t] = 0 THEN pages'[t] = NoPage ELSE "self" \in DOMAIN pages'[t]
  <2>1. "self" \notin DOMAIN NoPage
    BY DEF NoPage
  <2>2. current' = current /\ DOMAIN pages' = Tab
        /\ \A t \in Tab : pages'[t] = IF t = c[1] /\ pages[t] # NoPage THEN Folded(pages[t], frame) ELSE pages[t]
    BY <1>6, <1>8 DEF Shapes
  <2>3. ASSUME NEW t \in Tab
        PROVE  IF current'[t] = 0 THEN pages'[t] = NoPage ELSE "self" \in DOMAIN pages'[t]
    <3>1. IF current[t] = 0 THEN pages[t] = NoPage ELSE "self" \in DOMAIN pages[t]
      BY DEF Shapes
    <3>2. "self" \in DOMAIN pages[t] => "self" \in DOMAIN Folded(pages[t], frame)
      BY FoldedShows
    <3> QED
      BY <2>1, <2>2, <3>1, <3>2
  <2> QED
    BY <2>2, <2>3 DEF Shapes
<1>19. DriverAt(c).claim /\ frame.type = "hello_ack" => LosesClaim(c)
  <2> SUFFICES ASSUME DriverAt(c).claim, frame.type = "hello_ack", NEW j \in Used, links'[j].driver = c
               PROVE  ~Unread(links'[j])
    BY <1>11 DEF LosesClaim
  <2>1. links[j].driver = c
    BY <1>12 DEF Stays, Follows
  <2>2. j = l
    BY <1>1, <1>5, <2>1 DEF Claims
  <2>3. links'[j].pid # Nobody
    BY <1>3, <1>12, <2>2 DEF Stays
  <2> QED
    BY <2>3 DEF Unread
<1>20. ASSUME NEW x \in Drivers
       PROVE  /\ GoesOn(DriverAt(x), DriverAt(x)')
              /\ DriverAt(x)'.socket = DriverAt(x).socket
              /\ Stopped(DriverAt(x)) <=> Stopped(DriverAt(x)')
              /\ DriverAt(x)'.ever => ~DriverAt(x)'.claim
              /\ DriverAt(x)'.status \in {"connected", "reconnecting"} => DriverAt(x)'.ever
              /\ DriverAt(x).claim => DriverAt(x)'.claim \/ LosesClaim(x)
              /\ DriverAt(x)'.status = "superseded" => DriverAt(x).status = "superseded" \/ HasRival(x)
  <2>1. CASE x = c
    <3>1. DriverAt(c)'.socket # NoSocket
      BY <1>5, <1>7, <1>9, <1>13
    <3>2. GoesOn(DriverAt(c), DriverAt(c)')
      BY <1>7, <1>9, <3>1 DEF GoesOn, Unsaid
    <3>3. ~Stopped(DriverAt(c)')
      BY <1>7, <1>9, <1>13 DEF Stopped, Stages
    <3> QED
      BY <1>7, <1>9, <1>13, <1>19, <2>1, <3>2, <3>3 DEF Answers
  <2>2. CASE x # c
    BY <1>9, <2>2 DEF Answers, GoesOn
  <2> QED
    BY <2>1, <2>2
<1>21. \A x \in Drivers, j \in Used : links[j].heard /\ links[j].driver = x => Together(x, j)
  BY <1>11, <1>12, <1>20, KeepsTogether
<1> QED
  BY <1>8, <1>9, <1>10, <1>11, <1>12, <1>17, <1>18, <1>20, <1>21, DriversGoOn

\* What a driver is stopped to.
LEMMA StoppedForFacts ==
    ASSUME NEW d \in IsDriver, NEW reason \in Cause \ {"superseded"}
    PROVE  LET e == StoppedFor(d, reason)
           IN  /\ e \in IsDriver /\ e.code = d.code /\ e.claim = d.claim /\ e.ever = d.ever /\ Stopped(e)
               /\ IF Stopped(d) THEN e = d ELSE e.socket = NoSocket /\ e.status = reason
<1>1. reason \notin Stages /\ reason \in Cause
  BY DEF Cause, Reason, Stages
<1> QED
  BY <1>1 DEF StoppedFor, Stopped, IsDriver

\* Drivers Z, none of them c, end with what their page shows.
EndsWith(Z, c, all) ==
    /\ \A x \in Drivers \ {c} :
           DriverAt(x)' = IF x \in Z THEN StoppedFor(DriverAt(x), "done") ELSE DriverAt(x)
    /\ \A l \in Link :
           links'[l] = IF \E x \in Z : DriverAt(x).socket = l THEN Abandoned(all[l]) ELSE all[l]

\* Driver c becomes d, which has no socket: and whatever other driver its page
\* refers to, ends if the room on that page does.
LEMMA DriverIsFacts ==
    ASSUME Shapes, NEW c \in Drivers, NEW d \in IsDriver, d.socket = NoSocket,
           NEW all, DOMAIN all = Link, DriverIs(c, d, all)
    PROVE  /\ drivers' \in [Tab -> Seq(IsDriver)] /\ \A t \in Tab : Len(drivers'[t]) = Len(drivers[t])
           /\ current' \in [Tab -> Nat] /\ \A t \in Tab : current'[t] \in {current[t], 0}
           /\ DOMAIN pages' = Tab
           /\ \A t \in Tab : IF current'[t] = 0 THEN pages'[t] = NoPage ELSE "self" \in DOMAIN pages'[t]
           /\ DriverAt(c)' = d
           /\ DOMAIN links' = Link
           /\ \E Z \in SUBSET (Drivers \ {c}) : EndsWith(Z, c, all)
<1> DEFINE t == c[1]
           own == [drivers[t] EXCEPT ![c[2]] = d]
           e == current[t]
<1>1. t \in Tab /\ c[2] \in 1 .. Len(drivers[t]) /\ c = <<t, c[2]>>
  BY DriverShape
<1>2. drivers \in [Tab -> Seq(IsDriver)] /\ current \in [Tab -> Nat] /\ e \in Nat /\ e <= Len(drivers[t])
  BY <1>1 DEF Shapes
<1>3. /\ own \in Seq(IsDriver) /\ Len(own) = Len(drivers[t]) /\ Len(own) \in Nat
      /\ \A j \in 1 .. Len(drivers[t]) : own[j] = IF j = c[2] THEN d ELSE drivers[t][j]
  BY <1>1, <1>2, ExceptSeq, LenProperties
<1> HIDE DEF own
<1>4. CASE ~(Stopped(d) /\ (d.status = "unreachable" => pages[t] # NoPage)) \/ e = 0
  <2>1. /\ drivers' = [drivers EXCEPT ![t] = own] /\ links' = all
        /\ \/ UNCHANGED <<current, pages>>
           \/ current' = [current EXCEPT ![t] = 0] /\ pages' = [pages EXCEPT ![t] = NoPage]
    BY <1>4 DEF DriverIs, EndRoom, own
  <2>2. drivers' = [drivers EXCEPT ![t][c[2]] = d]
    BY <1>1, <1>2, <2>1 DEF own
  <2>3. /\ drivers' \in [Tab -> Seq(IsDriver)] /\ \A u \in Tab : Len(drivers'[u]) = Len(drivers[u])
        /\ DriverAt(c)' = d /\ \A x \in Drivers \ {c} : DriverAt(x)' = DriverAt(x)
    BY <2>2, DriverReplaced
  <2>4. /\ current' \in [Tab -> Nat] /\ \A u \in Tab : current'[u] \in {current[u], 0}
        /\ DOMAIN pages' = Tab
        /\ \A u \in Tab : IF current'[u] = 0 THEN pages'[u] = NoPage ELSE "self" \in DOMAIN pages'[u]
    <3>1. CASE UNCHANGED <<current, pages>>
      BY <3>1 DEF Shapes
    <3>2. CASE current' = [current EXCEPT ![t] = 0] /\ pages' = [pages EXCEPT ![t] = NoPage]
      BY <1>1, <3>2 DEF Shapes
    <3> QED
      BY <2>1, <3>1, <3>2
  <2>5. EndsWith({}, c, all)
    BY <2>1, <2>3 DEF EndsWith
  <2> QED
    BY <2>1, <2>3, <2>4, <2>5
<1>5. CASE Stopped(d) /\ (d.status = "unreachable" => pages[t] # NoPage) /\ e # 0
  <2> DEFINE ended == StoppedFor(own[e], "done")
  <2>1. /\ drivers' = [drivers EXCEPT ![t] = [own EXCEPT ![e] = ended]]
        /\ links' = IF own[e].socket = NoSocket THEN all ELSE [all EXCEPT ![own[e].socket] = Abandoned(@)]
        /\ current' = [current EXCEPT ![t] = 0] /\ pages' = [pages EXCEPT ![t] = NoPage]
    BY <1>5 DEF DriverIs, EndRoom, own
  <2>2. e \in 1 .. Len(drivers[t]) /\ own[e] \in IsDriver
    BY <1>2, <1>3, <1>5, ElementOfSeq
  <2>3. "done" \in Cause \ {"superseded"}
    BY DEF Cause, Reason
  <2>4. ended \in IsDriver /\ (Stopped(own[e]) => ended = own[e])
    BY <2>2, <2>3, StoppedForFacts
  <2> HIDE DEF ended
  <2>5. /\ [own EXCEPT ![e] = ended] \in Seq(IsDriver)
        /\ Len([own EXCEPT ![e] = ended]) = Len(own)
        /\ \A j \in 1 .. Len(own) : [own EXCEPT ![e] = ended][j] = IF j = e THEN ended ELSE own[j]
    BY <1>3, <2>2, <2>4, ExceptSeq
  <2>6. /\ drivers' \in [Tab -> Seq(IsDriver)] /\ \A u \in Tab : Len(drivers'[u]) = Len(drivers[u])
        /\ \A u \in Tab \ {t} : drivers'[u] = drivers[u]
        /\ \A j \in 1 .. Len(drivers[t]) : drivers'[t][j] = IF j = e THEN ended ELSE own[j]
    BY <1>1, <1>2, <1>3, <2>1, <2>5
  <2>7. /\ current' \in [Tab -> Nat] /\ \A u \in Tab : current'[u] \in {current[u], 0}
        /\ DOMAIN pages' = Tab
        /\ \A u \in Tab : IF current'[u] = 0 THEN pages'[u] = NoPage ELSE "self" \in DOMAIN pages'[u]
    BY <1>1, <2>1 DEF Shapes
  <2>8. PICK z : z = <<t, e>>
    OBVIOUS
  <2>9. z \in Drivers /\ DriverAt(z) = drivers[t][e]
    <3>1. Len(drivers[t]) <= MaxEntries /\ Len(drivers[t]) \in Nat /\ MaxEntries \in Nat
      BY <1>1, <1>2, LenProperties, SessionAssumption DEF Shapes
    <3> QED
      BY <1>1, <2>2, <2>8, <3>1 DEF Drivers, Driver, DriverAt
  <2>10. \A x \in Drivers \ {z, c} : DriverAt(x)' = DriverAt(x)
    <3> SUFFICES ASSUME NEW x \in Drivers \ {z, c} PROVE DriverAt(x)' = DriverAt(x)
      OBVIOUS
    <3>1. x[1] \in Tab /\ x[2] \in 1 .. Len(drivers[x[1]]) /\ x = <<x[1], x[2]>>
      BY DriverShape
    <3>2. CASE x[1] # t
      BY <2>6, <3>1, <3>2 DEF DriverAt
    <3>3. CASE x[1] = t
      <4>1. x[2] # e /\ x[2] # c[2]
        BY <1>1, <2>8, <3>1, <3>3
      <4> QED
        BY <1>3, <2>6, <3>1, <3>3, <4>1 DEF DriverAt
    <3> QED
      BY <3>2, <3>3
  <2>11. CASE e = c[2]
    <3>1. own[e] = d /\ z = c
      BY <1>1, <1>3, <2>2, <2>8, <2>11
    <3>2. ended = d /\ links' = all
      BY <1>5, <2>1, <2>4, <3>1
    <3>3. DriverAt(c)' = d
      BY <1>1, <1>3, <2>6, <2>11, <3>2 DEF DriverAt
    <3>4. EndsWith({}, c, all)
      BY <2>10, <3>1, <3>2 DEF EndsWith
    <3> QED
      BY <2>6, <2>7, <2>10, <3>1, <3>2, <3>3, <3>4
  <2>12. CASE e # c[2]
    <3>1. own[e] = DriverAt(z) /\ z # c
      BY <1>1, <1>3, <2>2, <2>8, <2>9, <2>12
    <3>2. DriverAt(c)' = d
      BY <1>1, <1>3, <2>6, <2>12 DEF DriverAt
    <3>3. DriverAt(z)' = StoppedFor(DriverAt(z), "done")
      BY <2>2, <2>6, <2>8, <3>1 DEF DriverAt, ended
    <3>4. DriverAt(z).socket \in {NoSocket} \cup Link
      BY <2>2, <3>1 DEF IsDriver
    <3>5. /\ DOMAIN links' = Link
          /\ \A l \in Link : links'[l] = IF \E x \in {z} : DriverAt(x).socket = l THEN Abandoned(all[l]) ELSE all[l]
      <4>1. \A l \in Link : l # NoSocket
        BY DEF Link, NoSocket
      <4>2. CASE DriverAt(z).socket = NoSocket
        BY <2>1, <3>1, <4>1, <4>2
      <4>3. CASE DriverAt(z).socket # NoSocket
        <5>1. links' = [all EXCEPT ![DriverAt(z).socket] = Abandoned(all[DriverAt(z).socket])]
          BY <2>1, <3>1, <4>3
        <5> QED
          BY <3>4, <4>3, <5>1
      <4> QED
        BY <4>2, <4>3
    <3>6. {z} \in SUBSET (Drivers \ {c})
      BY <2>9, <3>1
    <3>7. \A x \in Drivers \ {c} :
              DriverAt(x)' = IF x \in {z} THEN StoppedFor(DriverAt(x), "done") ELSE DriverAt(x)
      BY <2>10, <3>3
    <3>8. EndsWith({z}, c, all)
      BY <3>5, <3>7 DEF EndsWith
    <3> QED
      BY <2>6, <2>7, <3>2, <3>5, <3>6, <3>8
  <2> QED
    BY <2>11, <2>12
<1> QED
  BY <1>4, <1>5

\* Driver c becomes d and lets go of its socket.
LEMMA DriverLetsGo ==
    ASSUME SessionInv, UNCHANGED <<home, rooms, request, stored, shared>>,
           NEW c \in Drivers, NEW d \in IsDriver,
           d.code = DriverAt(c).code, d.claim = DriverAt(c).claim, d.ever = DriverAt(c).ever,
           d.socket = NoSocket, d.status # "connecting",
           d.status \in {"connected", "reconnecting"} => d.ever,
           Stopped(DriverAt(c)) => Stopped(d),
           d.status = "superseded" => DriverAt(c).status = "superseded" \/ HasRival(c),
           NEW all, DOMAIN all = Link, DriverIs(c, d, all),
           \A l \in Link :
               IF links[l] # NoLink /\ DriverAt(c).socket = l
               THEN \/ all[l] = NoLink
                    \/ /\ Faultless(all[l]) /\ Stays(links[l], all[l]) /\ ~all[l].heard /\ all[l].cut
                       /\ Unread(all[l]) => Stopped(d)
               ELSE all[l] = links[l]
    PROVE  SessionInv'
<1> USE DEF SessionInv
<1>1. /\ drivers' \in [Tab -> Seq(IsDriver)] /\ \A t \in Tab : Len(drivers'[t]) = Len(drivers[t])
      /\ current' \in [Tab -> Nat] /\ \A t \in Tab : current'[t] \in {current[t], 0}
      /\ DOMAIN pages' = Tab
      /\ \A t \in Tab : IF current'[t] = 0 THEN pages'[t] = NoPage ELSE "self" \in DOMAIN pages'[t]
      /\ DriverAt(c)' = d
      /\ DOMAIN links' = Link
  BY DriverIsFacts
<1>z. PICK Z \in SUBSET (Drivers \ {c}) : EndsWith(Z, c, all)
  BY DriverIsFacts
<1>2. /\ \A x \in Drivers \ {c} :
             DriverAt(x)' = IF x \in Z THEN StoppedFor(DriverAt(x), "done") ELSE DriverAt(x)
      /\ \A l \in Link :
             links'[l] = IF \E x \in Z : DriverAt(x).socket = l THEN Abandoned(all[l]) ELSE all[l]
  BY <1>z DEF EndsWith
<1>3. "done" \in Cause \ {"superseded"}
  BY DEF Cause, Reason
<1>4. ASSUME NEW x \in Z
      PROVE  LET e == StoppedFor(DriverAt(x), "done")
             IN  /\ x \in Drivers /\ x # c /\ DriverAt(x)' = e
                 /\ e \in IsDriver /\ e.code = DriverAt(x).code /\ e.claim = DriverAt(x).claim
                 /\ e.ever = DriverAt(x).ever /\ Stopped(e)
                 /\ IF Stopped(DriverAt(x)) THEN e = DriverAt(x) ELSE e.socket = NoSocket /\ e.status = "done"
  BY <1>2, <1>3, DriverShape, StoppedForFacts
<1>5. ASSUME NEW x \in Drivers
      PROVE  /\ GoesOn(DriverAt(x), DriverAt(x)')
             /\ DriverAt(x)'.socket \in {DriverAt(x).socket, NoSocket}
             /\ Stopped(DriverAt(x)) => Stopped(DriverAt(x)')
             /\ DriverAt(x)'.ever => ~DriverAt(x)'.claim
             /\ DriverAt(x)'.status \in {"connected", "reconnecting"} => DriverAt(x)'.ever
             /\ DriverAt(x).claim => DriverAt(x)'.claim \/ LosesClaim(x)
             /\ DriverAt(x)'.status = "superseded" => DriverAt(x).status = "superseded" \/ HasRival(x)
  <2>1. CASE x = c
    BY <1>1, <2>1 DEF GoesOn, Unsaid, Answers
  <2>2. CASE x \in Z
    <3> DEFINE e == StoppedFor(DriverAt(x), "done")
    <3>1. DriverAt(x)' = e
      BY <1>4, <2>2
    <3>2. /\ e.code = DriverAt(x).code /\ e.claim = DriverAt(x).claim /\ e.ever = DriverAt(x).ever /\ Stopped(e)
          /\ e = DriverAt(x) \/ (e.socket = NoSocket /\ e.status = "done")
      BY <1>4, <2>2
    <3> HIDE DEF e
    <3> QED
      BY <3>1, <3>2 DEF GoesOn, Unsaid, Answers
  <2>3. CASE x \notin Z /\ x # c
    BY <1>2, <2>3 DEF GoesOn, Answers
  <2> QED
    BY <2>1, <2>2, <2>3
<1>6. ASSUME NEW l \in Used PROVE l \in Link /\ links[l] # NoLink /\ Faultless(links[l]) /\ l # NoSocket
  BY DEF Used, Sockets, Link, NoSocket
<1>7. ASSUME NEW x \in Z, NEW l \in Link, DriverAt(x).socket = l
      PROVE  /\ l \in Used /\ links[l].driver = x /\ links[l].heard
             /\ DriverAt(x)'.socket = NoSocket /\ Stopped(DriverAt(x)')
             /\ links'[l] = Abandoned(links[l])
  <2>1. x \in Drivers /\ x # c /\ l # NoSocket
    BY <1>4 DEF Link, NoSocket
  <2>2. ~Stopped(DriverAt(x)) /\ l \in Used /\ links[l].driver = x /\ links[l].heard
    BY <1>7, <2>1 DEF References, Used
  <2>3. DriverAt(c).socket # l
    BY <2>1, <2>2 DEF References
  <2>4. links'[l] = Abandoned(links[l])
    BY <1>2, <1>7, <2>3
  <2>5. DriverAt(x)'.socket = NoSocket /\ Stopped(DriverAt(x)')
    BY <1>4, <2>2
  <2> QED
    BY <2>2, <2>4, <2>5
\* The sockets: of those that end with the page, of c, and of all others.
<1>8. ASSUME NEW l \in Used, NEW x \in Z, DriverAt(x).socket = l
      PROVE  /\ l \in Used' => /\ Faultless(links'[l]) /\ Stays(links[l], links'[l])
                               /\ ~links'[l].heard /\ links'[l].cut
             /\ links[l].driver = x /\ DriverAt(x)'.socket = NoSocket /\ Stopped(DriverAt(x)')
  BY <1>6, <1>7, <1>8, AbandonedFacts DEF Used
<1>9. ASSUME NEW l \in Used, DriverAt(c).socket = l
      PROVE  /\ l \in Used' => /\ Faultless(links'[l]) /\ Stays(links[l], links'[l])
                               /\ ~links'[l].heard /\ links'[l].cut
                               /\ Unread(links'[l]) => Stopped(DriverAt(c)')
             /\ links[l].driver = c /\ DriverAt(c)'.socket = NoSocket
  <2>1. links[l].driver = c
    BY <1>6, <1>9 DEF References
  <2>2. ~(\E x \in Z : DriverAt(x).socket = l)
    BY <1>2, <1>6, <1>7, <2>1
  <2>3. links'[l] = all[l]
    BY <1>2, <1>6, <2>2
  <2> QED
    BY <1>1, <1>6, <1>9, <2>1, <2>3 DEF Used
<1>10. ASSUME NEW l \in Used, DriverAt(c).socket # l, ~\E x \in Z : DriverAt(x).socket = l
       PROVE  links'[l] = links[l] /\ l \in Used'
  BY <1>2, <1>6, <1>10 DEF Used
<1>11. ASSUME NEW l \in Used', l \notin Used PROVE FALSE
  <2>1. l \in Link /\ links[l] = NoLink /\ links'[l] # NoLink
    BY <1>11 DEF Used
  <2>2. ~(\E x \in Z : DriverAt(x).socket = l)
    BY <1>7, <1>11, <2>1
  <2> QED
    BY <1>2, <2>1, <2>2
<1>12. \A l \in Used' : l \in Used /\ Faultless(links'[l]) /\ Stays(links[l], links'[l])
  <2> SUFFICES ASSUME NEW l \in Used' PROVE l \in Used /\ Faultless(links'[l]) /\ Stays(links[l], links'[l])
    OBVIOUS
  <2>1. l \in Used
    BY <1>11
  <2> QED
    BY <1>6, <1>8, <1>9, <1>10, <2>1, StaysSame
<1>13. \A l \in Used : ~links[l].heard /\ l \in Used' => ~links'[l].heard
  BY <1>8, <1>9, <1>10
<1>14. ASSUME NEW x \in Drivers, NEW l \in Used, links[l].heard, links[l].driver = x
       PROVE  Together(x, l)
  <2>1. DriverAt(x).socket = l
    BY <1>14 DEF References
  <2>2. CASE x = c
    BY <1>9, <2>1, <2>2 DEF Together
  <2>3. CASE x \in Z
    BY <1>8, <2>1, <2>3 DEF Together
  <2>4. CASE x # c /\ x \notin Z
    <3>1. DriverAt(c).socket # l
      BY <1>9, <1>14, <2>4
    <3>2. ~\E y \in Z : DriverAt(y).socket = l
      BY <1>8, <1>14, <2>4
    <3>3. l \in Used' /\ links'[l].heard /\ DriverAt(x)' = DriverAt(x)
      BY <1>2, <1>10, <1>14, <2>4, <3>1, <3>2
    <3> QED
      BY <1>14, <3>3, KeepsTogether
  <2> QED
    BY <2>2, <2>3, <2>4
<1>15. /\ \A b \in Browser, a \in Code, p \in Nat \ {0} : stored'[b][a] = p => Knows(b, a, p)
       /\ \A b \in Browser, a \in Code : stored'[b][a] # NoCredential => a \in shared
       /\ stored' \in [Browser -> [Code -> Nat]]
  BY DEF Knows, References, Shapes
<1> QED
  BY <1>1, <1>5, <1>12, <1>13, <1>14, <1>15, DriversGoOn

\* What a driver closes to.
LEMMA ClosedTo ==
    ASSUME NEW d \in IsDriver, NEW code, NEW reason,
           code = "refused" => reason \in Cause \ {"superseded"}
    PROVE  LET e == Closed(d, code, reason)
           IN  /\ e \in IsDriver /\ e.code = d.code /\ e.claim = d.claim /\ e.ever = d.ever
               /\ e.socket = NoSocket /\ e.status \notin {"connecting", "connected"}
               /\ e.status = "reconnecting" => e.ever
               /\ e.status = "superseded" => code = "superseded"
<1> DEFINE status == CASE code = "superseded" -> "superseded"
                       [] code = "refused" -> reason
                       [] OTHER -> IF d.ever THEN "reconnecting" ELSE "unreachable"
           e == [d EXCEPT !.socket = NoSocket, !.status = status]
<1>1. /\ status \in {"reconnecting"} \cup Cause
      /\ status = "reconnecting" => d.ever
      /\ status = "superseded" => code = "superseded"
  BY DEF Cause, Reason
<1>2. Closed(d, code, reason) = e
  BY DEF Closed
<1> HIDE DEF status
<1>3. /\ e \in IsDriver /\ e.code = d.code /\ e.claim = d.claim /\ e.ever = d.ever
      /\ e.socket = NoSocket /\ e.status = status
  BY <1>1 DEF IsDriver, Stages
<1>4. "connecting" \notin Cause /\ "connected" \notin Cause
  BY DEF Cause, Reason
<1> QED
  BY <1>1, <1>2, <1>3, <1>4

\* The socket does not open.
LEMMA FailKeeps == ASSUME SessionInv, NEW c \in Drivers, FailsToOpen(c) PROVE SessionInv'
<1> USE DEF SessionInv
<1> DEFINE d == Closed(DriverAt(c), "lost", "none")
<1>1. /\ DriverAt(c).status = "connecting" /\ DriverAt(c).socket = NoSocket
      /\ UNCHANGED <<home, rooms, request, stored, shared>> /\ DriverIs(c, d, links)
  BY DEF FailsToOpen
<1>2. DriverAt(c) \in IsDriver /\ ~Stopped(DriverAt(c))
  BY <1>1, DriverShape DEF Stopped, Stages
<1>3. /\ d \in IsDriver /\ d.code = DriverAt(c).code /\ d.claim = DriverAt(c).claim /\ d.ever = DriverAt(c).ever
      /\ d.socket = NoSocket /\ d.status \notin {"connecting", "connected"}
      /\ d.status = "reconnecting" => d.ever
      /\ d.status # "superseded"
  BY <1>2, ClosedTo
<1> HIDE DEF d
<1>4. DOMAIN links = Link /\ \A l \in Link : l # NoSocket
  BY DEF Shapes, Link, NoSocket
<1> QED
  BY <1>1, <1>2, <1>3, <1>4, DriverLetsGo

\* The socket is closed.
LEMMA HearsCloseKeeps == ASSUME SessionInv, NEW l \in Link, HearsClose(l) PROVE SessionInv'
<1> USE DEF SessionInv
<1> DEFINE k == links[l]
           frame == Head(k.down)
           all == [links EXCEPT ![l] = Abandoned(k)]
<1>1. /\ l \in Used /\ Faultless(k) /\ k.heard /\ k.down # <<>> /\ frame.type = "close"
      /\ UNCHANGED <<home, rooms, request, stored, shared>>
  BY CodedUsed DEF HearsClose, Sockets
<1>2. PICK c \in Drivers : c = k.driver /\ DriverAt(c).socket = l
  BY <1>1 DEF References
<1> DEFINE d == Closed(DriverAt(c), frame.code, frame.reason)
<1>3. DriverIs(c, d, all)
  BY <1>2 DEF HearsClose
<1>4. frame \in Range(k.down) /\ IsFrame(frame, k)
  BY <1>1, TakenFacts DEF Faultless
<1>5. /\ frame.code = "refused" => frame.reason \in Cause \ {"superseded"}
      /\ ~Unread(k)
  BY <1>1, <1>4 DEF IsFrame, Unread
<1>6. frame.code = "superseded" => HasRival(c)
  BY <1>1, <1>2, <1>4 DEF Partings, IsParting
<1>7. DriverAt(c) \in IsDriver /\ l # NoSocket
  BY DriverShape DEF Link, NoSocket
<1>8. /\ d \in IsDriver /\ d.code = DriverAt(c).code /\ d.claim = DriverAt(c).claim /\ d.ever = DriverAt(c).ever
      /\ d.socket = NoSocket /\ d.status \notin {"connecting", "connected"}
      /\ d.status = "reconnecting" => d.ever
      /\ d.status = "superseded" => HasRival(c)
  <2> HIDE DEF d, frame
  <2>1. LET e == Closed(DriverAt(c), frame.code, frame.reason)
        IN  /\ e \in IsDriver /\ e.code = DriverAt(c).code /\ e.claim = DriverAt(c).claim /\ e.ever = DriverAt(c).ever
            /\ e.socket = NoSocket /\ e.status \notin {"connecting", "connected"}
            /\ e.status = "reconnecting" => e.ever
            /\ e.status = "superseded" => frame.code = "superseded"
    BY <1>5, <1>7, ClosedTo
  <2> QED
    BY <1>6, <2>1 DEF d
<1>9. ~Stopped(DriverAt(c))
  BY <1>2, <1>7 DEF References
<1>10. /\ DOMAIN all = Link /\ all[l] = Abandoned(k) /\ \A j \in Link \ {l} : all[j] = links[j]
  BY DEF Shapes
<1>11. all[l] # NoLink => /\ Faultless(all[l]) /\ Stays(k, all[l]) /\ ~all[l].heard /\ all[l].cut
                          /\ ~Unread(all[l])
  BY <1>1, <1>5, <1>10, AbandonedFacts DEF Stays, Follows
<1> HIDE DEF d, all, frame
<1>12. \A j \in Link :
           IF links[j] # NoLink /\ DriverAt(c).socket = j
           THEN \/ all[j] = NoLink
                \/ /\ Faultless(all[j]) /\ Stays(links[j], all[j]) /\ ~all[j].heard /\ all[j].cut
                   /\ Unread(all[j]) => Stopped(d)
           ELSE all[j] = links[j]
  BY <1>1, <1>2, <1>10, <1>11 DEF Used
<1> QED
  BY <1>1, <1>3, <1>8, <1>9, <1>10, <1>12, DriverLetsGo

\* The reader leaves.
LEMMA LeaveKeeps == ASSUME SessionInv, NEW t \in Tab, LeaveRoom(t) PROVE SessionInv'
<1> USE DEF SessionInv
<1>1. PICK c : c = <<t, current[t]>>
  OBVIOUS
<1>2. c \in Drivers /\ DriverAt(c) = drivers[t][current[t]]
  <2>1. current[t] \in 1 .. Len(drivers[t]) /\ Len(drivers[t]) \in Nat /\ Len(drivers[t]) <= MaxEntries
    BY LenProperties DEF LeaveRoom, Shapes
  <2> QED
    BY <1>1, <2>1, SessionAssumption DEF Drivers, Driver, DriverAt
<1> DEFINE l == DriverAt(c).socket
           said == WithCommand(links[l], [type |-> "leave"])
           all == IF l = NoSocket THEN links ELSE [links EXCEPT ![l] = Abandoned(said)]
           d == StoppedFor(DriverAt(c), "left")
<1>3. /\ DriverIs(c, d, all) /\ (l # NoSocket \/ DriverAt(c).status = "reconnecting")
      /\ UNCHANGED <<home, rooms, request, stored, shared>>
  BY <1>1, <1>2 DEF LeaveRoom
<1>4. ~Stopped(DriverAt(c)) /\ DriverAt(c) \in IsDriver
  BY <1>2, <1>3, DriverShape DEF References, Stopped, Stages
<1>5. "left" \in Cause \ {"superseded"}
  BY DEF Cause, Reason
<1>6. /\ d \in IsDriver /\ d.code = DriverAt(c).code /\ d.claim = DriverAt(c).claim /\ d.ever = DriverAt(c).ever
      /\ d.socket = NoSocket /\ d.status = "left" /\ Stopped(d)
  BY <1>4, <1>5, StoppedForFacts
<1> HIDE DEF d
<1>7. l # NoSocket => l \in Used /\ Faultless(links[l])
  <2>1. l # NoSocket => l \in Link /\ links[l] # NoLink
    BY <1>2, <1>4 DEF IsDriver, References
  <2> QED
    BY <2>1 DEF Used, Sockets
<1>8. DOMAIN all = Link /\ \A j \in Link \ {l} : all[j] = links[j]
  BY DEF Shapes
<1>9. l # NoSocket /\ all[l] # NoLink =>
          Faultless(all[l]) /\ Stays(links[l], all[l]) /\ ~all[l].heard /\ all[l].cut
  <2> SUFFICES ASSUME l # NoSocket, all[l] # NoLink
               PROVE  Faultless(all[l]) /\ Stays(links[l], all[l]) /\ ~all[l].heard /\ all[l].cut
    OBVIOUS
  <2>1. l \in Link /\ Faultless(links[l])
    BY <1>7 DEF Used
  <2>2. all[l] = Abandoned(said)
    BY <2>1 DEF Shapes
  <2> HIDE DEF all, l
  <2>3. Faultless(said) /\ Stays(links[l], said)
    BY <2>1, WithCommandFacts DEF CommandTypes
  <2> HIDE DEF said
  <2>4. Faultless(all[l]) /\ Stays(said, all[l]) /\ ~all[l].heard /\ all[l].cut
    BY <2>2, <2>3, AbandonedFacts
  <2> QED
    BY <2>3, <2>4, StaysOn
<1>10. \A j \in Link : j # NoSocket
  BY DEF Link, NoSocket
<1> HIDE DEF all
<1>11. \A j \in Link :
           IF links[j] # NoLink /\ DriverAt(c).socket = j
           THEN \/ all[j] = NoLink
                \/ /\ Faultless(all[j]) /\ Stays(links[j], all[j]) /\ ~all[j].heard /\ all[j].cut
                   /\ Unread(all[j]) => Stopped(d)
           ELSE all[j] = links[j]
  BY <1>6, <1>7, <1>8, <1>9, <1>10 DEF Used
<1> QED
  BY <1>2, <1>3, <1>4, <1>6, <1>8, <1>11, DriverLetsGo

-----------------------------------------------------------------------------
(* A driver's socket opens.                                                *)

\* Of some numbers one is the least.
LEMMA LeastNumber ==
    ASSUME NEW S, S \subseteq Nat, S # {}
    PROVE  \E i \in S : \A j \in S : i <= j
<1> DEFINE less == {ss \in Nat \X Nat : ss[1] < ss[2]}
<1>1. IsWellFoundedOn(less, Nat)
  BY NatLessThanWellFounded DEF OpToRel
<1>2. PICK i \in S : \A j \in S : <<j, i>> \notin less
  BY <1>1, WFMin
<1>3. ASSUME NEW j \in S PROVE i <= j
  <2>1. <<j, i>> \in Nat \X Nat /\ <<j, i>>[1] = j /\ <<j, i>>[2] = i
    OBVIOUS
  <2>2. ~(j < i)
    BY <1>2, <2>1
  <2> QED
    BY <2>2
<1> QED
  BY <1>3

\* The socket of a driver that has just said hello.
NewLink(c) ==
    [code |-> DriverAt(c).code, driver |-> c, pid |-> Nobody, gen |-> 0,
     open |-> TRUE, heard |-> TRUE, listed |-> TRUE, cut |-> FALSE,
     up |-> <<HelloOf(DriverAt(c), stored[Home(c)][DriverAt(c).code])>>, down |-> <<>>]

LEMMA NewLinkFacts ==
    ASSUME SessionInv, NEW c \in Drivers
    PROVE  /\ Faultless(NewLink(c)) /\ NewLink(c) # NoLink
           /\ NewLink(c).driver = c /\ NewLink(c).code = DriverAt(c).code /\ NewLink(c).heard
           /\ Unread(NewLink(c)) /\ Range(NewLink(c).down) = {}
           /\ NewLink(c).up[1].claim = DriverAt(c).claim
           /\ NewLink(c).up[1].credential = stored[Home(c)][DriverAt(c).code]
           /\ NewLink(c).pid = Nobody
<1>1. c \in Driver /\ c[1] \in Tab /\ DriverAt(c) \in IsDriver /\ DriverAt(c).code \in Code
  BY DriverShape DEF SessionInv
<1>2. stored[Home(c)][DriverAt(c).code] \in Nat
  BY <1>1 DEF SessionInv, Shapes, Home
<1> DEFINE m == HelloOf(DriverAt(c), stored[Home(c)][DriverAt(c).code])
           k == NewLink(c)
<1>3. IsHello(m) /\ m.claim = DriverAt(c).claim /\ m.credential = stored[Home(c)][DriverAt(c).code]
  BY <1>1, <1>2 DEF IsHello, HelloOf, IsDriver
<1>4. k.up = <<m>> /\ k.down = <<>> /\ k.pid = Nobody /\ k.open /\ k.heard /\ k.driver = c /\ k.code = DriverAt(c).code
  BY DEF NewLink
<1> HIDE DEF m
<1>5. Proper(k.up) /\ Len(k.up) = 1 /\ k.up[1] = m /\ k.up # <<>>
  <2>1. Proper(<<m>>) /\ Len(<<m>>) = 1 /\ <<m>>[1] = m /\ <<m>> # <<>>
    BY ProperFew
  <2> HIDE DEF k
  <2> QED
    BY <1>4, <2>1
<1>6. Proper(k.down) /\ Range(k.down) = {}
  BY <1>4, ProperEmpty
<1>7. IsLink(k)
  BY <1>1, <1>5, <1>6 DEF IsLink, NewLink
<1>8. k # NoLink
  BY <1>1, <1>4, SessionAssumption DEF NoLink
<1> HIDE DEF k
<1>9. Says(k)
  BY <1>3, <1>4, <1>5 DEF Says
<1>10. Faultless(k)
  BY <1>6, <1>7, <1>9 DEF Faultless
<1> QED
  BY <1>3, <1>4, <1>5, <1>6, <1>8, <1>10 DEF k, Unread

LEMMA OpenKeeps == ASSUME SessionInv, NEW c \in Drivers, Opens(c) PROVE SessionInv'
<1> USE DEF SessionInv
<1>1. c \in Driver /\ c[1] \in Tab /\ DriverAt(c) \in IsDriver /\ DriverAt(c).code \in Code
  BY DriverShape
<1>2. PICK l : l = CHOOSE k \in FreeLinks : \A j \in FreeLinks : k <= j
  OBVIOUS
<1>3. l \in Link /\ l \notin Used
  <2>1. FreeLinks \subseteq Nat /\ FreeLinks # {}
    BY DEF Opens, FreeLinks, Link
  <2>2. \E k \in FreeLinks : \A j \in FreeLinks : k <= j
    BY <2>1, LeastNumber
  <2>3. l \in FreeLinks
    BY <1>2, <2>2
  <2> QED
    BY <2>3 DEF FreeLinks, Used
<1>4. l # NoSocket
  BY <1>3, SessionAssumption DEF Link, NoSocket
<1>n. PICK new : new = NewLink(c)
  OBVIOUS
<1>5. links' = [links EXCEPT ![l] = new]
  BY <1>2, <1>n DEF Opens, NewLink
<1>6. PICK e : e = [DriverAt(c) EXCEPT !.socket = l]
  OBVIOUS
<1>7. /\ e \in IsDriver /\ e.code = DriverAt(c).code /\ e.claim = DriverAt(c).claim /\ e.socket = l
      /\ e.ever = DriverAt(c).ever /\ e.status = "connecting"
  BY <1>1, <1>3, <1>6, SMTT(30) DEF IsDriver, Opens
<1>8. drivers' = [drivers EXCEPT ![c[1]][c[2]] = e]
  BY <1>2, <1>6 DEF Opens, DriverAt
<1>9. /\ drivers' \in [Tab -> Seq(IsDriver)] /\ \A t \in Tab : Len(drivers'[t]) = Len(drivers[t])
      /\ DriverAt(c)' = e /\ \A x \in Drivers \ {c} : DriverAt(x)' = DriverAt(x)
  BY <1>7, <1>8, DriverReplaced
<1>10. Drivers' = Drivers
  <2>1. \A x \in Driver : x[1] \in Tab
    BY DEF Driver
  <2> QED
    BY <1>9, <2>1 DEF Drivers
<1>11. /\ Faultless(new) /\ new # NoLink /\ new.driver = c /\ new.code = DriverAt(c).code /\ new.heard
       /\ Unread(new) /\ Range(new.down) = {} /\ new.up[1].claim = DriverAt(c).claim
       /\ new.up[1].credential = stored[Home(c)][DriverAt(c).code] /\ new.pid = Nobody
  BY <1>n, NewLinkFacts
<1>12. /\ Used' = Used \cup {l} /\ links'[l] = new /\ DOMAIN links' = Link
       /\ \A k \in Used : k # l /\ links'[k] = links[k] /\ links[k].driver \in Drivers
                          /\ links[k].code = DriverAt(links[k].driver).code
  BY <1>3, <1>5, <1>11 DEF Used, Shapes, References
<1>13. UNCHANGED <<home, rooms, current, pages, request, stored, shared>>
  BY DEF Opens
<1>14. DriverAt(c).status = "connecting" /\ DriverAt(c).socket = NoSocket /\ Exists(DriverAt(c).code)
  BY DEF Opens
<1>15. \A d : (Exists(d)' <=> Exists(d)) /\ (Spent(d)' <=> Spent(d))
  BY <1>13 DEF Exists, Spent
<1>16. \A x \in Drivers : DriverAt(x)'.code = DriverAt(x).code /\ DriverAt(x)'.claim = DriverAt(x).claim
                          /\ DriverAt(x)'.ever = DriverAt(x).ever /\ DriverAt(x)'.status = DriverAt(x).status
  BY <1>7, <1>9, <1>14
<1>17. Shapes'
  BY <1>9, <1>12, <1>13, <1>15 DEF Shapes
<1>18. Sockets'
  BY <1>11, <1>12 DEF Sockets
<1>19. References'
  <2>1. ASSUME NEW x \in Drivers, DriverAt(x)'.socket # NoSocket
        PROVE  /\ ~Stopped(DriverAt(x))'
               /\ links'[DriverAt(x)'.socket] # NoLink
               /\ links'[DriverAt(x)'.socket].heard /\ links'[DriverAt(x)'.socket].driver = x
    <3>1. CASE x = c
      BY <1>7, <1>9, <1>11, <1>12, <3>1 DEF Stopped, Stages
    <3>2. CASE x # c
      <4> PICK k : k = DriverAt(x).socket
        OBVIOUS
      <4>1. DriverAt(x)' = DriverAt(x) /\ k # NoSocket
        BY <1>9, <2>1, <3>2
      <4>2. ~Stopped(DriverAt(x)) /\ links[k] # NoLink /\ links[k].heard /\ links[k].driver = x /\ k \in Link
        BY <4>1, DriverShape DEF References, IsDriver
      <4>3. k \in Used
        BY <4>2 DEF Used
      <4> QED
        BY <1>12, <4>1, <4>2, <4>3
    <3> QED
      BY <3>1, <3>2
  <2>2. ASSUME NEW k \in Used
        PROVE  /\ links'[k].driver \in Drivers /\ links'[k].code = DriverAt(links[k].driver)'.code
               /\ links'[k].heard => DriverAt(links[k].driver)'.socket = k
               /\ ~links'[k].heard => links'[k].cut
               /\ Unread(links'[k]) => links'[k].heard \/ Stopped(DriverAt(links[k].driver))'
    <3>1. links'[k] = links[k] /\ links[k].driver \in Drivers /\ k # NoSocket
      BY <1>12, SessionAssumption DEF Used, Link, NoSocket
    <3>2. links[k].code = DriverAt(links[k].driver)'.code
      BY <1>12, <1>16
    <3>3. links[k].heard => DriverAt(links[k].driver)'.socket = k
      BY <1>9, <1>14, <3>1 DEF References
    <3>4. Stopped(DriverAt(links[k].driver)) => Stopped(DriverAt(links[k].driver))'
      BY <1>16, <3>1 DEF Stopped
    <3>5. /\ ~links[k].heard => links[k].cut
          /\ Unread(links[k]) => links[k].heard \/ Stopped(DriverAt(links[k].driver))
      BY DEF References
    <3> QED
      BY <3>1, <3>2, <3>3, <3>4, <3>5
  <2>3. \A x \in Drivers' : DriverAt(x)'.code \in shared'
    BY <1>10, <1>13, <1>16 DEF References
  <2>4. \A x \in Drivers' : DriverAt(x)'.socket # NoSocket =>
               /\ ~Stopped(DriverAt(x))'
               /\ links'[DriverAt(x)'.socket] # NoLink
               /\ links'[DriverAt(x)'.socket].heard /\ links'[DriverAt(x)'.socket].driver = x
    BY <1>10, <2>1
  <2>5. \A k \in Used' :
               /\ links'[k].driver \in Drivers' /\ links'[k].code = DriverAt(links[k].driver)'.code
               /\ links'[k].heard => DriverAt(links[k].driver)'.socket = k
               /\ ~links'[k].heard => links'[k].cut
               /\ Unread(links'[k]) => links'[k].heard \/ Stopped(DriverAt(links[k].driver))'
    BY <1>7, <1>9, <1>10, <1>11, <1>12, <2>2
  <2>6. \A b \in Browser, d \in Code : stored'[b][d] # NoCredential => d \in shared'
    BY <1>13 DEF References
  <2> QED
    BY <2>3, <2>4, <2>5, <2>6 DEF References
<1>20. Doors'
  BY <1>11, <1>12, <1>14, <1>15 DEF Doors
<1>21. Answers'
  BY <1>10, <1>16 DEF Answers
<1>22. Claims'
  <2>1. DriverAt(c).claim => ~Spent(DriverAt(c).code) /\ \A k \in Used : links[k].driver # c
    BY <1>14 DEF Claims, Unsaid
  <2>2. \A q \in Request, d \in Code : Created(q, d)' =>
           /\ rooms'[d] # Unmade /\ ~Spent(d)'
           /\ \A u \in Request : Created(u, d)' => u = q
           /\ \A x \in Drivers' : DriverAt(x)'.code = d => ~DriverAt(x)'.claim
    <3> SUFFICES ASSUME NEW q \in Request, NEW d \in Code, Created(q, d)'
                 PROVE  /\ rooms'[d] # Unmade /\ ~Spent(d)'
                        /\ \A u \in Request : Created(u, d)' => u = q
                        /\ \A x \in Drivers' : DriverAt(x)'.code = d => ~DriverAt(x)'.claim
      OBVIOUS
    <3>1. \A u \in Request : Created(u, d)' <=> Created(u, d)
      BY <1>13 DEF Created
    <3>2. rooms[d] # Unmade /\ ~Spent(d) /\ \A u \in Request : Created(u, d) => u = q
      BY <3>1 DEF Claims
    <3>3. \A x \in Drivers : DriverAt(x).code = d => ~DriverAt(x).claim
      BY <3>1 DEF Claims
    <3> QED
      BY <1>10, <1>13, <1>15, <1>16, <3>1, <3>2, <3>3
  <2>3. \A x, y \in Drivers' :
           DriverAt(x)'.code = DriverAt(y)'.code /\ DriverAt(x)'.claim /\ DriverAt(y)'.claim => x = y
    BY <1>10, <1>16 DEF Claims
  <2>4. ASSUME NEW x \in Drivers', DriverAt(x)'.claim, Unsaid(DriverAt(x))'
        PROVE  ~Spent(DriverAt(x).code)' /\ \A k \in Used' : links'[k].driver # x
    <3>1. x # c
      BY <1>4, <1>7, <1>9, <2>4 DEF Unsaid
    <3>2. x \in Drivers /\ DriverAt(x)' = DriverAt(x)
      BY <1>9, <1>10, <3>1
    <3>3. ~Spent(DriverAt(x).code) /\ \A k \in Used : links[k].driver # x
      BY <2>4, <3>2 DEF Claims
    <3> QED
      BY <1>11, <1>12, <1>15, <3>1, <3>2, <3>3
  <2>5. ASSUME NEW h \in Used', NEW k \in Used', links'[h].driver = links'[k].driver,
               DriverAt(links[h].driver)'.claim
        PROVE  h = k
    <3>1. DriverAt(links'[h].driver).claim
      BY <1>10, <1>11, <1>12, <1>16, <2>5
    <3> QED
      BY <1>11, <1>12, <2>1, <2>5, <3>1 DEF Claims
  <2>6. ASSUME NEW k \in Used', Unread(links'[k]), links'[k].up[1].claim
        PROVE  DriverAt(links[k].driver)'.claim /\ ~Spent(links[k].code)'
    <3>1. CASE k = l
      BY <1>7, <1>9, <1>11, <1>12, <1>15, <2>1, <2>6, <3>1
    <3>2. CASE k # l
      <4>1. k \in Used /\ links'[k] = links[k] /\ links[k].driver \in Drivers
        BY <1>12, <3>2
      <4>2. DriverAt(links[k].driver).claim /\ ~Spent(links[k].code)
        BY <2>6, <4>1 DEF Claims
      <4> QED
        BY <1>15, <1>16, <4>1, <4>2
    <3> QED
      BY <3>1, <3>2
  <2> QED
    BY <2>2, <2>3, <2>4, <2>5, <2>6 DEF Claims
<1>23. Owners'
  <2>1. \A d \in Code : Exists(d) => rooms[d].minted \in Nat
    BY RoomShape
  <2>2. ASSUME NEW b \in Browser, NEW d \in Code, NEW p \in Nat \ {0}, Knows(b, d, p)'
        PROVE  Knows(b, d, p)
    <3>1. CASE stored[b][d] = p
      BY <3>1 DEF Knows
    <3>2. CASE Tells(new, b, d, p)
      <4>1. d = DriverAt(c).code /\ Home(c) = b /\ stored[b][d] = p
        BY <1>11, <1>13, <3>2, NobodyAssumption DEF Tells, Home
      <4> QED
        BY <4>1 DEF Knows
    <3>3. CASE \E k \in Used : Tells(links[k], b, d, p)
      BY <3>3 DEF Knows
    <3>4. Knows(b, d, p)' => stored[b][d] = p \/ Tells(new, b, d, p) \/ \E k \in Used : Tells(links[k], b, d, p)
      BY <1>12, <1>13 DEF Knows, Tells
    <3> QED
      BY <2>2, <3>1, <3>2, <3>3, <3>4
  <2>3. OnlyLearns(0, 0)
    BY <1>13, <1>15, <2>1, <2>2 DEF OnlyLearns
  <2>4. \A d \in Code : Exists(d)' => rooms'[d].minted \in Nat
    BY <1>13, <1>15, <2>1
  <2> QED
    BY <2>1, <2>3, <2>4, OwnersKept
<1>24. Partings'
  <2>1. \A x \in Drivers' : DriverAt(x)'.status = "superseded" =>
            x \in Drivers /\ (DriverAt(x).status = "superseded" \/ HasRival(x))
    BY <1>10, <1>16
  <2>2. \A k \in Used' : \A f \in Range(links'[k].down) : IsParting(f) =>
            /\ k \in Used /\ links'[k].driver = links[k].driver
            /\ f \in Range(links[k].down) \/ HasRival(links[k].driver)
    BY <1>11, <1>12
  <2> QED
    BY <1>10, <1>13, <1>16, <2>1, <2>2, PartingsKept
<1> QED
  BY <1>17, <1>18, <1>19, <1>20, <1>21, <1>22, <1>23, <1>24

-----------------------------------------------------------------------------
(* The invariant holds always.                                             *)

LEMMA InitKeeps == ASSUME Init PROVE SessionInv
<1> USE DEF Init
<1>1. Used = {} /\ Drivers = {}
  <2>1. \A x \in Driver : x[1] \in Tab /\ x[2] \in 1 .. MaxEntries /\ Len(drivers[x[1]]) = 0
    BY ProperEmpty DEF Driver
  <2> QED
    BY <2>1 DEF Used, Drivers
<1>2. \A c \in Code : rooms[c] = Unmade /\ ~Exists(c)
  BY DEF Exists, Unmade
<1>3. \A q \in Request, c \in Code : ~Created(q, c)
  BY DEF Created, NoRequest
<1>4. Shapes
  <2>1. home \in [Tab -> Browser]
    BY SessionAssumption
  <2>2. drivers \in [Tab -> Seq(IsDriver)] /\ \A t \in Tab : Len(drivers[t]) <= MaxEntries /\ current[t] <= Len(drivers[t])
    BY SessionAssumption, EmptySeq, ProperEmpty
  <2>3. request \in [Request -> IsRequest]
    BY DEF IsRequest
  <2>4. stored \in [Browser -> [Code -> Nat]]
    BY DEF NoCredential
  <2> QED
    BY <1>2, <2>1, <2>2, <2>3, <2>4 DEF Shapes
<1>5. Sockets /\ References /\ Doors /\ Answers
  BY <1>1 DEF Sockets, References, Doors, Answers
<1>6. Claims
  BY <1>1, <1>3 DEF Claims
<1>7. Owners
  BY <1>1 DEF Owners, Knows, NoCredential
<1>8. Partings
  BY <1>1 DEF Partings
<1> QED
  BY <1>4, <1>5, <1>6, <1>7, <1>8 DEF SessionInv

LEMMA StutterKeeps == ASSUME SessionInv, UNCHANGED vars PROVE SessionInv'
<1>1. UNCHANGED <<home, rooms, links, drivers, current, pages, stored, shared>> /\ request' = request
  BY DEF vars
<1>2. request' \in [Request -> IsRequest] /\ \A q \in Request, c \in Code : Created(q, c)' => Created(q, c)
  BY <1>1 DEF SessionInv, Shapes, Created
<1> QED
  BY <1>1, <1>2, RequestGoesOn

LEMMA StepKeeps == ASSUME SessionInv, [Next]_vars PROVE SessionInv'
<1>1. ASSUME NEW q \in Request,
             \/ SubmitCreate(q) \/ RouterCreates(q) \/ RouterCollides(q) \/ CreateFails(q)
             \/ Answered(q) \/ AnsweredNo(q)
      PROVE  SessionInv'
  BY <1>1, RequestKeeps, CreateKeeps, AnsweredKeeps
<1>2. ASSUME NEW t \in Tab, SubmitJoin(t) \/ LeaveRoom(t) \/ UsesControl(t)
      PROVE  SessionInv'
  BY <1>2, JoinKeeps, LeaveKeeps, ControlKeeps
<1>3. ASSUME NEW c \in Drivers, Opens(c) \/ FailsToOpen(c) \/ TriesAgain(c)
      PROVE  SessionInv'
  BY <1>3, OpenKeeps, FailKeeps, TryKeeps
<1>4. ASSUME NEW l \in Link, HearsFrame(l) \/ HearsClose(l) \/ RoomReads(l) \/ RoomHearsClose(l) \/ IsCut(l)
      PROVE  SessionInv'
  BY <1>4, FrameKeeps, HearsCloseKeeps, ReadsKeep, CloseKeeps, CutKeeps
<1>5. ASSUME NEW c \in Code, AlarmFires(c) PROVE SessionInv'
  BY <1>5, AlarmKeeps
<1> QED
  BY <1>1, <1>2, <1>3, <1>4, <1>5, StutterKeeps DEF Next

\* The inductive invariant holds in every state: the claim of a room is in one
\* place from the router's answer to the hello that spends it, an identity is
\* known to one browser, and sockets and drivers refer to each other.
THEOREM SessionAlways == Spec => []SessionInv
<1>1. Init => SessionInv
  BY InitKeeps
<1>2. SessionInv /\ [Next]_vars => SessionInv'
  BY StepKeeps
<1> QED
  BY <1>1, <1>2, PTL DEF Spec

-----------------------------------------------------------------------------
(* What follows.                                                           *)

\* Whatever is one and the same is counted once.
LEMMA AtMostOne ==
    ASSUME NEW S, \A x, y \in S : x = y
    PROVE  Cardinality(S) \in {0, 1} /\ (Cardinality(S) = 0 <=> S = {})
<1>1. CASE S = {}
  BY <1>1, FS_EmptySet
<1>2. CASE S # {}
  <2>1. PICK x : x \in S
    BY <1>2
  <2>2. S = {x}
    BY <2>1
  <2> QED
    BY <2>2, FS_Singleton
<1> QED
  BY <1>1, <1>2

LEMMA ClaimsAreOne == ASSUME SessionInv PROVE OneClaimPerRoom
<1> SUFFICES ASSUME NEW c \in Code
             PROVE  /\ Cardinality({q \in Request : request[q] = [state |-> "created", code |-> c]})
                         + Cardinality({x \in Drivers : DriverAt(x).code = c /\ DriverAt(x).claim}) <= 1
                    /\ Exists(c) => Cardinality({p \in DOMAIN rooms[c].people : rooms[c].people[p].host}) <= 1
  BY DEF OneClaimPerRoom
<1> DEFINE R == {q \in Request : request[q] = [state |-> "created", code |-> c]}
           D == {x \in Drivers : DriverAt(x).code = c /\ DriverAt(x).claim}
           H == {p \in DOMAIN rooms[c].people : rooms[c].people[p].host}
<1>1. \A q, u \in R : q = u
  BY DEF SessionInv, Claims, Created
<1>2. \A x, y \in D : x = y
  BY DEF SessionInv, Claims
<1>3. R = {} \/ D = {}
  BY DEF SessionInv, Claims, Created
<1>4. Exists(c) => \A p, q \in H : p = q
  BY DEF SessionInv, Shapes, IsRoom
<1> HIDE DEF R, D, H
<1>5. Cardinality(R) + Cardinality(D) <= 1
  <2>1. Cardinality(R) \in {0, 1} /\ (Cardinality(R) = 0 <=> R = {})
    BY <1>1, AtMostOne
  <2>2. Cardinality(D) \in {0, 1} /\ (Cardinality(D) = 0 <=> D = {})
    BY <1>2, AtMostOne
  <2> QED
    BY <1>3, <2>1, <2>2
<1>6. Exists(c) => Cardinality(H) <= 1
  <2>1. ASSUME Exists(c) PROVE Cardinality(H) \in {0, 1}
    BY <1>4, <2>1, AtMostOne
  <2> QED
    BY <2>1
<1> QED
  BY <1>5, <1>6 DEF R, D, H

LEMMA EndsAreCaused == ASSUME SessionInv PROVE EndedForCause
<1> SUFFICES ASSUME NEW c \in Drivers
             PROVE  /\ DriverAt(c).status \notin {"invalid_claim", "hello_required"}
                    /\ DriverAt(c).status = "superseded" =>
                           \E other \in Drivers \ {c} : Home(other) = Home(c) /\ DriverAt(other).code = DriverAt(c).code
  BY DEF EndedForCause
<1>1. DriverAt(c).status \in Stages \cup Cause
  BY DriverShape DEF SessionInv, IsDriver
<1>2. DriverAt(c).status \notin {"invalid_claim", "hello_required"}
  BY <1>1 DEF Stages, Cause, Reason
<1>3. DriverAt(c).status = "superseded" => HasRival(c)
  BY DEF SessionInv, Partings
<1> QED
  BY <1>2, <1>3 DEF HasRival

LEMMA ShapesAreTypes == ASSUME SessionInv, home \in Homes PROVE TypeOK
<1>1. \A c \in Code : Exists(c) =>
          /\ rooms[c].phase \in {"lobby", "picking", "review", "complete"}
          /\ rooms[c].turn \in 1 .. LastTurn + 1
          /\ DOMAIN rooms[c].people \subseteq 1 .. rooms[c].minted
          /\ rooms[c].ring \cup rooms[c].queued \subseteq 1 .. rooms[c].minted
          /\ rooms[c].deadline \in Deadline
  <2> SUFFICES ASSUME NEW c \in Code, Exists(c)
               PROVE  /\ rooms[c].phase \in {"lobby", "picking", "review", "complete"}
                      /\ rooms[c].turn \in 1 .. LastTurn + 1
                      /\ DOMAIN rooms[c].people \subseteq 1 .. rooms[c].minted
                      /\ rooms[c].ring \subseteq 1 .. rooms[c].minted
                      /\ rooms[c].queued \subseteq 1 .. rooms[c].minted
                      /\ rooms[c].deadline \in Deadline
    OBVIOUS
  <2>1. IsRoom(rooms[c])
    BY RoomShape DEF SessionInv
  <2> QED
    BY <2>1 DEF IsRoom
<1>2. ASSUME NEW t \in Tab
      PROVE  /\ current[t] \in 0 .. Len(drivers[t]) /\ Len(drivers[t]) <= MaxEntries
             /\ (pages[t] = NoPage) <=> (current[t] = 0)
             /\ \A e \in 1 .. Len(drivers[t]) :
                    /\ drivers[t][e].status \in Stages \cup Reason
                    /\ drivers[t][e].socket # NoSocket =>
                           links[drivers[t][e].socket].heard /\ links[drivers[t][e].socket].driver = <<t, e>>
  <2>1. Len(drivers[t]) \in Nat /\ MaxEntries \in Nat /\ Len(drivers[t]) <= MaxEntries
    BY LenProperties, SessionAssumption DEF SessionInv, Shapes
  <2>2. current[t] \in 0 .. Len(drivers[t])
    BY <2>1 DEF SessionInv, Shapes
  <2>3. (pages[t] = NoPage) <=> (current[t] = 0)
    BY DEF SessionInv, Shapes, NoPage
  <2>4. ASSUME NEW e \in 1 .. Len(drivers[t])
        PROVE  /\ drivers[t][e].status \in Stages \cup Reason
               /\ drivers[t][e].socket # NoSocket =>
                      links[drivers[t][e].socket].heard /\ links[drivers[t][e].socket].driver = <<t, e>>
    <3> DEFINE x == <<t, e>>
    <3>1. x \in Drivers /\ DriverAt(x) = drivers[t][e]
      BY <2>1 DEF Drivers, Driver, DriverAt
    <3>2. DriverAt(x).status \in Stages \cup Cause
      BY <3>1, DriverShape DEF SessionInv, IsDriver
    <3>3. DriverAt(x).socket # NoSocket => links[DriverAt(x).socket].heard /\ links[DriverAt(x).socket].driver = x
      BY <3>1 DEF SessionInv, References
    <3> QED
      BY <3>1, <3>2, <3>3 DEF Cause
  <2> QED
    BY <2>1, <2>2, <2>3, <2>4
<1>3. \A l \in Link : links[l] # NoLink => links[l].pid = Nobody \/ links[l].pid \in Nat \ {0}
  BY DEF SessionInv, Sockets, Used, Faultless, IsLink
<1> QED
  BY <1>1, <1>2, <1>3 DEF TypeOK

\* Every part keeps its shape, and a driver's socket is one it listens to.
THEOREM SessionTyped == Spec => []TypeOK
<1>1. Init => home \in Homes
  BY DEF Init
<1>2. home \in Homes /\ [Next]_vars => (home \in Homes)'
  <2> SUFFICES ASSUME home \in Homes, [Next]_vars PROVE home' = home
    OBVIOUS
  <2> USE DEF vars, Next, SubmitCreate, RouterCreates, RouterCollides, CreateFails, Answered, AnsweredNo, SubmitJoin,
              LeaveRoom, UsesControl, Opens, FailsToOpen, TriesAgain, HearsFrame, HearsClose, RoomReads,
              RoomHearsClose, IsCut, AlarmFires
  <2> QED
    OBVIOUS
<1>3. SessionInv /\ home \in Homes => TypeOK
  BY ShapesAreTypes
<1> QED
  BY <1>1, <1>2, <1>3, SessionAlways, PTL DEF Spec

\* Two creators never get the same room, a claim is never with two, and a room
\* never has two hosts: router, drivers and rooms together.
THEOREM OneClaimAlways == Spec => []OneClaimPerRoom
<1>1. SessionInv => OneClaimPerRoom
  BY ClaimsAreOne
<1> QED
  BY <1>1, SessionAlways, PTL

\* No loss, no delay and no order of messages makes a room turn a driver away
\* for a claim it spent itself or for a first message that is no hello, and
\* who is superseded has another connection of its browser in the same room.
THEOREM EndsHaveCause == Spec => []EndedForCause
<1>1. SessionInv => EndedForCause
  BY EndsAreCaused
<1> QED
  BY <1>1, SessionAlways, PTL

=============================================================================
