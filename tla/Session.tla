------------------------------ MODULE Session ------------------------------
(***************************************************************************)
(* Pages, drivers, the router and rooms, and the sockets between them.     *)
(*                                                                         *)
(* A tab shows forms or a room; its page (room-page.ts) holds at most the  *)
(* reference of one driver (room-client.ts), though a driver it no longer  *)
(* refers to goes on as it is.  Tabs of one browser share the stored       *)
(* credentials.  Creating a room is a request to the router                *)
(* (server/src/index.ts), which tries codes until a room object takes one; *)
(* a tab may have several under way.                                       *)
(* Sockets deliver in order and may be cut at any moment, with whatever    *)
(* they carry; each end learns of it in its own time, and the room perhaps *)
(* never (a deploy).                                                       *)
(*                                                                         *)
(* Only what the page's own controls can send is sent: a profile change, a *)
(* removal and a pending shuffle have no control.                          *)
(***************************************************************************)
EXTENDS RoomAnnouncements, RoomClient

CONSTANTS
    Tab, Browser,
    Homes,              \* ways the tabs may be spread over browsers
    Code,               \* codes that are free at first
    Options,            \* room options a creator may choose
    CreateAttempts,     \* ROOM_CREATE_ATTEMPTS: 5 in the code
    Budgets,            \* bound: how often each kind of thing may happen at most
    MaxRequests,        \* bound: requests of one tab that are under way at once
    MaxEntries,         \* bound: rooms one tab enters
    MaxLinks,           \* bound: sockets that exist at once
    MaxInFlight         \* bound: frames on their way to a tab when a room goes on

\* What the budgets count: create forms submitted, join forms submitted,
\* controls used, alarms fired, sockets cut, connections and answers failed.
Kinds == {"creates", "joins", "commands", "alarms", "cuts", "failures"}

ASSUME SessionAssumption ==
    /\ Homes \subseteq [Tab -> Browser]
    /\ Options \subseteq [timers : BOOLEAN, spectators : BOOLEAN]
    /\ {CreateAttempts, MaxRequests, MaxEntries, MaxLinks} \subseteq Nat \ {0}
    /\ Budgets \subseteq [Kinds -> Nat] /\ MaxInFlight \in Nat
    /\ "none" \notin Code

VARIABLES
    home,       \* the browser of each tab
    rooms,      \* the room objects: what each has stored
    links,      \* sockets, as both ends see them
    drivers,    \* the drivers of each tab, in the order the tab made them
    current,    \* the page's reference to its driver: client, or 0
    pages,      \* the page's state, or NoPage
    request,    \* the requests to create a room
    stored,     \* localStorage: the credential each browser keeps per code
    shared,     \* codes some page has shown, and so anybody may be told
    budget      \* what may still happen, by kind

vars == <<home, rooms, links, drivers, current, pages, request, stored, shared, budget>>

Link == 1 .. MaxLinks
Driver == Tab \X (1 .. MaxEntries)      \* the e-th driver of a tab
DriverAt(c) == drivers[c[1]][c[2]]
Drivers == {c \in Driver : c[2] <= Len(drivers[c[1]])}

Request == Tab \X (1 .. MaxRequests)    \* the i-th that a tab has under way

NoCredential == 0
NoRequest == [state |-> "none"]
Unmade == [phase |-> "unmade"]
Exists(c) == rooms[c].phase \notin {"unmade", "gone"}

\* code: the room; driver: whose; pid, gen: the attachment; open: the room has
\* not closed it; heard: the driver still listens; listed: the room lists it;
\* cut: nothing sent arrives any more.
NoLink == [code |-> "none"]
FreeLinks == {l \in Link : links[l] = NoLink}

Init ==
    /\ home \in Homes
    /\ rooms = [c \in Code |-> Unmade]
    /\ links = [l \in Link |-> NoLink]
    /\ drivers = [t \in Tab |-> <<>>]
    /\ current = [t \in Tab |-> 0]
    /\ pages = [t \in Tab |-> NoPage]
    /\ request = [q \in Request |-> NoRequest]
    /\ stored = [b \in Browser |-> [c \in Code |-> NoCredential]]
    /\ shared = {}
    /\ budget \in Budgets

Spend(kind) == budget[kind] > 0 /\ budget' = [budget EXCEPT ![kind] = @ - 1]

-----------------------------------------------------------------------------
(* Sockets.                                                                *)

\* send(): into the socket if the room may still send and it still carries.
Sent(link, frames) ==
    IF link.open /\ ~link.cut THEN [link EXCEPT !.down = @ \o frames] ELSE link

CloseFrame(code, reason) == [type |-> "close", code |-> code, reason |-> reason]

\* close() by the room.
ClosedByRoom(link, code, reason) ==
    [Sent(link, <<CloseFrame(code, reason)>>) EXCEPT !.open = FALSE]

\* A socket both ends are done with.
Settled(link) == IF link.heard \/ link.listed THEN link ELSE NoLink

\* The driver lets go of its socket; what it sent may still arrive.
Abandoned(link) == Settled([link EXCEPT !.heard = FALSE, !.cut = TRUE, !.down = <<>>])

\* What socket l hears of an outcome; from is the sender's socket, or 0.
Hears(o, l, from) ==
    LET link == links[l]
        attached == IF l = from /\ o.self # Nobody
                    THEN [link EXCEPT !.pid = o.self, !.gen = o.room.people[o.self].gen]
                    ELSE link
        replied == IF l = from THEN Sent(attached, o.reply) ELSE attached
        dismissed == \/ o.room = Deleted
                     \/ o.reason # "none" /\ o.dismissed = Nobody /\ l = from
                     \/ o.dismissed # Nobody /\ attached.pid = o.dismissed /\ attached.gen < o.below
    IN  IF dismissed
        THEN ClosedByRoom(replied, IF o.reason = "superseded" THEN "superseded" ELSE "refused", o.reason)
        ELSE IF attached.pid = Nobody THEN replied
        ELSE Sent(replied, o.tell \o (IF l = from THEN <<>> ELSE o.others)
                                  \o (IF o.views THEN PrivateView(o.room, attached.pid) ELSE <<>>))

\* The sockets of a room after an outcome.
Announced(c, o, from) ==
    [l \in Link |-> IF links[l].code = c /\ links[l].listed THEN Hears(o, l, from) ELSE links[l]]

\* The room goes on while the tabs are not far behind.
Keeps == \A l \in Link : links[l] # NoLink => Len(links[l].down) <= MaxInFlight

Takes(c, o, from) ==
    /\ rooms' = [rooms EXCEPT ![c] = o.room]
    /\ links' = Announced(c, o, from)

-----------------------------------------------------------------------------
(* The router.                                                             *)

\* The create form stays where it is while the answer is on its way, and may
\* be submitted again.
SubmitCreate(q) ==
    /\ pages[q[1]] = NoPage
    /\ request[q] = NoRequest /\ \A i \in 1 .. q[2] - 1 : request[<<q[1], i>>] # NoRequest
    /\ Len(drivers[q[1]]) < MaxEntries
    /\ Spend("creates")
    /\ request' = [request EXCEPT ![q] = [state |-> "trying", attempts |-> 0]]
    /\ UNCHANGED <<home, rooms, links, drivers, current, pages, stored, shared>>

\* Mutant: initialize does not ask whether there is a room already.
MayInitialize_always(c) == rooms[c].phase # "gone"

\* initialize: a code is taken exactly while its object holds a room.  A code
\* whose room is gone is not minted again (bound).
MayInitialize(c) == rooms[c] = Unmade

RouterCreates(q) ==
    /\ request[q].state = "trying"
    /\ \E c \in Code, options \in Options :
           /\ MayInitialize(c)
           /\ rooms' = [rooms EXCEPT ![c] = NewRoom(options)]
           /\ request' = [request EXCEPT ![q] = [state |-> "created", code |-> c]]
    /\ UNCHANGED <<home, links, drivers, current, pages, stored, shared, budget>>

\* 409, by an object of Code or by one of the many others: another code, or
\* 503 when the attempts are used up.
RouterCollides(q) ==
    /\ request[q].state = "trying"
    /\ request' = [request EXCEPT ![q] =
           IF @.attempts + 1 = CreateAttempts THEN [state |-> "refused"] ELSE [state |-> "trying", attempts |-> @.attempts + 1]]
    /\ UNCHANGED <<home, rooms, links, drivers, current, pages, stored, shared, budget>>

\* The call of the object throws (500), or the answer never comes back; a
\* room made for it stays.
CreateFails(q) ==
    /\ request[q] # NoRequest
    /\ Spend("failures")
    /\ request' = [request EXCEPT ![q] = NoRequest]
    /\ UNCHANGED <<home, rooms, links, drivers, current, pages, stored, shared>>

-----------------------------------------------------------------------------
(* Entering and leaving.                                                   *)

\* enterRoom: the page refers to the new driver; one it referred to before is
\* not stopped.
Enter(t, driver) ==
    /\ Len(drivers[t]) < MaxEntries
    /\ drivers' = [drivers EXCEPT ![t] = Append(@, driver)]
    /\ current' = [current EXCEPT ![t] = Len(drivers[t]) + 1]
    /\ pages' = [pages EXCEPT ![t] = NewPage(driver.code)]
    /\ shared' = shared \cup {driver.code}

\* The answer reaches the page, whatever it shows by now.
Answered(q) ==
    /\ request[q].state = "created"
    /\ Enter(q[1], NewDriver(request[q].code, TRUE, TRUE))
    /\ request' = [request EXCEPT ![q] = NoRequest]
    /\ UNCHANGED <<home, rooms, links, stored, budget>>

AnsweredNo(q) ==
    /\ request[q].state = "refused"
    /\ request' = [request EXCEPT ![q] = NoRequest]
    /\ UNCHANGED <<home, rooms, links, drivers, current, pages, stored, shared, budget>>

\* The join form, with a code some page has shown.
SubmitJoin(t) ==
    /\ pages[t] = NoPage
    /\ \E c \in shared, password \in BOOLEAN : Enter(t, NewDriver(c, FALSE, password))
    /\ Spend("joins")
    /\ UNCHANGED <<home, rooms, links, request, stored>>

\* endRoom: whatever driver the page refers to is stopped.
EndRoom(t, own, all) ==
    LET e == current[t]
    IN  /\ drivers' = [drivers EXCEPT ![t] = IF e = 0 THEN own ELSE [own EXCEPT ![e] = StoppedFor(@, "done")]]
        /\ links' = IF e = 0 \/ own[e].socket = NoSocket THEN all
                    ELSE [all EXCEPT ![own[e].socket] = Abandoned(@)]
        /\ current' = [current EXCEPT ![t] = 0]
        /\ pages' = [pages EXCEPT ![t] = NoPage]

\* onStatus, for driver c that has become d with sockets all: a refusal or a
\* newer tab ends the room the page shows, a failed first connection only if
\* it shows one.
DriverIs(c, d, all) ==
    LET t == c[1]
        own == [drivers[t] EXCEPT ![c[2]] = d]
    IN  IF Stopped(d) /\ (d.status = "unreachable" => pages[t] # NoPage)
        THEN EndRoom(t, own, all)
        ELSE /\ drivers' = [drivers EXCEPT ![t] = own]
             /\ links' = all
             /\ UNCHANGED <<current, pages>>

\* What a driver sends arrives if the socket still carries.
WithCommand(link, m) == IF link.cut THEN link ELSE [link EXCEPT !.up = Append(@, m)]

\* The leave control: without a socket the room hears nothing of it, and
\* while a socket is opening send() throws and nothing happens.
LeaveRoom(t) ==
    /\ current[t] # 0
    /\ LET e == current[t]
           d == drivers[t][e]
       IN  /\ d.socket # NoSocket \/ d.status = "reconnecting"
           /\ DriverIs(<<t, e>>, StoppedFor(d, "left"),
                       IF d.socket = NoSocket THEN links
                       ELSE [links EXCEPT ![d.socket] = Abandoned(WithCommand(@, [type |-> "leave"]))])
    /\ UNCHANGED <<home, rooms, request, stored, shared, budget>>

-----------------------------------------------------------------------------
(* The driver's connection.                                                *)

Home(c) == home[c[1]]

\* openSocket succeeds, the room accepts (fetch), and onopen says hello.
Opens(c) ==
    LET d == DriverAt(c)
    IN  /\ d.status = "connecting" /\ d.socket = NoSocket
        /\ Exists(d.code)
        /\ FreeLinks # {}
        /\ LET l == CHOOSE k \in FreeLinks : \A j \in FreeLinks : k <= j
           IN  /\ links' = [links EXCEPT ![l] =
                      [code |-> d.code, driver |-> c, pid |-> Nobody, gen |-> 0,
                       open |-> TRUE, heard |-> TRUE, listed |-> TRUE, cut |-> FALSE,
                       up |-> <<HelloOf(d, stored[Home(c)][d.code])>>, down |-> <<>>]]
               /\ drivers' = [drivers EXCEPT ![c[1]][c[2]].socket = l]
        /\ UNCHANGED <<home, rooms, current, pages, request, stored, shared, budget>>

\* openSocket fails: there is no such room (404), or no way to it.
FailsToOpen(c) ==
    LET d == DriverAt(c)
    IN  /\ d.status = "connecting" /\ d.socket = NoSocket
        /\ IF Exists(d.code) THEN Spend("failures") ELSE UNCHANGED budget
        /\ DriverIs(c, Closed(d, "lost", "none"), links)
        /\ UNCHANGED <<home, rooms, request, stored, shared>>

\* The backoff's timer.
TriesAgain(c) ==
    /\ DriverAt(c).status = "reconnecting"
    /\ drivers' = [drivers EXCEPT ![c[1]][c[2]].status = "connecting"]
    /\ UNCHANGED <<home, rooms, links, current, pages, request, stored, shared, budget>>

\* receive(), then the page folds the frame if it shows a room.
HearsFrame(l) ==
    /\ links[l].code # "none"
    /\ links[l].heard /\ links[l].down # <<>>
    /\ LET link == links[l]
           c == link.driver
           t == c[1]
           d == DriverAt(c)
           frame == Head(link.down)
           rest == [link EXCEPT !.down = Tail(@)]
       IN  /\ frame.type # "close"
           /\ drivers' = [drivers EXCEPT ![t][c[2]] = Received(d, frame)]
           /\ links' = [links EXCEPT ![l] =
                  IF AsksResync(d, frame) THEN WithCommand(rest, [type |-> "resync"]) ELSE rest]
           /\ stored' = IF frame.type = "hello_ack" /\ frame.body.minted
                        THEN [stored EXCEPT ![Home(c)][d.code] = frame.body.self]
                        ELSE stored
           /\ pages' = [pages EXCEPT ![t] = IF @ = NoPage THEN @ ELSE Folded(@, frame)]
    /\ UNCHANGED <<home, rooms, current, request, shared, budget>>

\* closed().
HearsClose(l) ==
    /\ links[l].code # "none"
    /\ links[l].heard /\ links[l].down # <<>>
    /\ LET link == links[l]
           frame == Head(link.down)
       IN  /\ frame.type = "close"
           /\ DriverIs(link.driver, Closed(DriverAt(link.driver), frame.code, frame.reason),
                       [links EXCEPT ![l] = Abandoned(@)])
    /\ UNCHANGED <<home, rooms, request, stored, shared, budget>>

-----------------------------------------------------------------------------
(* The page's controls.                                                    *)

\* What a lobby looks like: to a page, and to the room.
LobbyOf(layout, config) == [people |-> layout.people, look |-> layout.look, config |-> config]

\* The page has folded every frame of the version its driver names; what it
\* showed when the host pressed start is kept beside the command.
Seen(t) ==
    LET d == drivers[t][current[t]]
        waiting == links[d.socket].down
    IN  IF \E i \in DOMAIN waiting : waiting[i].type # "close" /\ waiting[i].version <= d.last
        THEN [unsettled |-> TRUE]
        ELSE LobbyOf(pages[t], pages[t].config)

LobbyCommands(t) ==
    { [type |-> "update_config", bots |-> ~pages[t].config.bots],
      [type |-> "move_participant"],
      [type |-> "set_seat_randomization"],
      [type |-> "start_draft", saw |-> Seen(t),
       expected |-> LET last == drivers[t][current[t]].last IN IF last = Unseen THEN 0 ELSE last] }

Commands(t) ==
    CASE pages[t].phase = "lobby" /\ Hosting(pages[t]) -> LobbyCommands(t)
      [] pages[t].phase = "picking" /\ HasView(pages[t]) -> {[type |-> "queue_pick", turn |-> pages[t].turn]}
      [] OTHER -> {}

UsesControl(t) ==
    /\ pages[t] # NoPage /\ current[t] # 0
    /\ drivers[t][current[t]].socket # NoSocket
    /\ Spend("commands")
    /\ \E m \in Commands(t) :
           links' = [links EXCEPT ![drivers[t][current[t]].socket] = WithCommand(@, m)]
    /\ UNCHANGED <<home, rooms, drivers, current, pages, request, stored, shared>>

-----------------------------------------------------------------------------
(* The room.                                                               *)

\* handleMessage: a hello from nobody, a command from somebody; a message for
\* a room that is gone closes its socket.  A room that closed a socket still
\* reads what comes from an identity, but lets nobody in through it.
RoomReads(l) ==
    /\ links[l].code # "none"
    /\ links[l].listed /\ links[l].up # <<>>
    /\ Keeps
    /\ LET c == links[l].code
           m == Head(links[l].up)
           outcomes == IF ~Exists(c) THEN {[Outcome(rooms[c]) EXCEPT !.reason = "room_closed"]}
                       ELSE IF links[l].pid # Nobody THEN HandleCommand(rooms[c], links[l].pid, m)
                       ELSE IF ~links[l].open THEN {Outcome(rooms[c])}
                       ELSE IF m.type # "hello" THEN {TurnedAway(rooms[c], "hello_required")}
                       ELSE {Hello(rooms[c], m)}
       IN  \E o \in outcomes :
               /\ rooms' = [rooms EXCEPT ![c] = o.room]
               /\ links' = [Announced(c, o, l) EXCEPT ![l].up = Tail(@)]
    /\ UNCHANGED <<home, drivers, current, pages, request, stored, shared, budget>>

\* Only the socket of an identity's current generation speaks for it.
SpeaksFor(link) ==
    /\ Exists(link.code)
    /\ link.pid \in DOMAIN rooms[link.code].people
    /\ rooms[link.code].people[link.pid].gen = link.gen

\* webSocketClose, once the socket carries nothing any more.
RoomHearsClose(l) ==
    /\ links[l].code # "none"
    /\ links[l].listed /\ links[l].cut /\ links[l].up = <<>>
    /\ Keeps
    /\ LET c == links[l].code
           Unlisted(link) == Settled([link EXCEPT !.listed = FALSE])
       IN  \E o \in IF SpeaksFor(links[l]) THEN Absent(rooms[c], links[l].pid) ELSE {Outcome(rooms[c])} :
               /\ rooms' = [rooms EXCEPT ![c] = o.room]
               /\ links' = [Announced(c, o, 0) EXCEPT ![l] = Unlisted(@)]
    /\ UNCHANGED <<home, drivers, current, pages, request, stored, shared, budget>>

\* The generations of identity p that the room finds among its sockets.
ListedGenerations(c, p) ==
    {links[l].gen : l \in {k \in Link : links[k].code = c /\ links[k].listed /\ links[k].pid = p}}

\* Whom a sweep may find: of several sockets of one identity the one listed
\* last decides.
Live(c) ==
    LET people == rooms[c].people
        Certain == {p \in DOMAIN people : ListedGenerations(c, p) = {people[p].gen}}
        Possible == {p \in DOMAIN people : people[p].gen \in ListedGenerations(c, p)}
    IN  {live \in SUBSET Possible : Certain \subseteq live}

\* alarm: an abandoned lobby is deleted, a lobby that believes in somebody is
\* swept, a draft goes on.
AlarmFires(c) ==
    /\ Exists(c) /\ Keeps
    /\ \E o \in IF rooms[c].phase # "lobby" THEN DeadlineAlarm(rooms[c])
                ELSE IF Connected(rooms[c]) = {} THEN {Deletion(<<>>)}
                ELSE {Reconciled(rooms[c], live) : live \in
                         {s \in Live(c) : ~(Connected(rooms[c]) \subseteq s)}} :
           Takes(c, o, 0)
    /\ Spend("alarms")
    /\ UNCHANGED <<home, drivers, current, pages, request, stored, shared>>

\* The network, or a deploy that takes the socket off the room's list
\* without a word.
IsCut(l) ==
    /\ links[l].code # "none"
    /\ ~links[l].cut
    /\ Spend("cuts")
    /\ \E listed \in {links[l].listed, FALSE} :
           links' = [links EXCEPT ![l] =
               Settled([@ EXCEPT !.cut = TRUE, !.listed = listed, !.up = <<>>,
                                 !.down = IF links[l].heard THEN <<CloseFrame("lost", "none")>> ELSE <<>>])]
    /\ UNCHANGED <<home, rooms, drivers, current, pages, request, stored, shared>>

-----------------------------------------------------------------------------
Next ==
    \/ \E q \in Request :
           \/ SubmitCreate(q) \/ RouterCreates(q) \/ RouterCollides(q) \/ CreateFails(q)
           \/ Answered(q) \/ AnsweredNo(q)
    \/ \E t \in Tab : SubmitJoin(t) \/ LeaveRoom(t) \/ UsesControl(t)
    \/ \E c \in Drivers : Opens(c) \/ FailsToOpen(c) \/ TriesAgain(c)
    \/ \E l \in Link : HearsFrame(l) \/ HearsClose(l) \/ RoomReads(l) \/ RoomHearsClose(l) \/ IsCut(l)
    \/ \E c \in Code : AlarmFires(c)

\* The network and the timers go on; nobody has to press anything, and no
\* deadline has to pass.  A socket carries on or is closed, never both.
Fairness ==
    /\ \A t \in Tab : WF_vars(\E c \in Drivers : c[1] = t /\ (Opens(c) \/ FailsToOpen(c) \/ TriesAgain(c)))
    /\ \A l \in Link : WF_vars(HearsFrame(l) \/ HearsClose(l)) /\ WF_vars(RoomReads(l) \/ RoomHearsClose(l))

Spec == Init /\ [][Next]_vars /\ Fairness

-----------------------------------------------------------------------------
(* Properties.                                                             *)

Turn == 1 .. LastTurn
Deadline == {"none", "full", "soon", "review", "ttl"}
Reason == {"left", "done", "superseded", "unreachable", "wrong_password", "invalid_claim",
           "room_full", "spectators_disabled", "hello_required", "room_closed", "removed", "leave"}

\* Every part keeps its shape, the references between tabs, drivers and
\* sockets lead somewhere, and a driver's socket is one it listens to.
TypeOK ==
    /\ home \in Homes
    /\ \A c \in Code : Exists(c) =>
           /\ rooms[c].phase \in {"lobby", "picking", "review", "complete"}
           /\ rooms[c].turn \in 1 .. LastTurn + 1
           /\ DOMAIN rooms[c].people \subseteq 1 .. rooms[c].minted
           /\ rooms[c].ring \cup rooms[c].queued \subseteq 1 .. rooms[c].minted
           /\ rooms[c].deadline \in Deadline
    /\ \A t \in Tab :
           /\ current[t] \in 0 .. Len(drivers[t]) /\ Len(drivers[t]) <= MaxEntries
           /\ (pages[t] = NoPage) <=> (current[t] = 0)
           /\ \A e \in 1 .. Len(drivers[t]) :
                  /\ drivers[t][e].status \in Stages \cup Reason
                  /\ drivers[t][e].socket # NoSocket =>
                         links[drivers[t][e].socket].heard /\ links[drivers[t][e].socket].driver = <<t, e>>
    /\ \A l \in Link : links[l] # NoLink =>
           links[l].pid = Nobody \/ links[l].pid \in Nat \ {0}

\* Whenever a page is connected and nothing is on its way to it, it shows what
\* its room holds: who is there, the lobby's seats and options, the phase, the
\* turn and who has queued, the whole story once, and its reader's own pack
\* (the choice in it unless an earlier connection of the reader made it, whose
\* answer goes to that connection alone).
\* The frames of room.ts are deltas of different kinds over a reconnecting
\* socket; one left out, sent twice or folded over a newer one shows here.
PageFollows ==
    \A t \in Tab : current[t] # 0 =>
        LET d == drivers[t][current[t]]
            link == links[d.socket]
            r == rooms[d.code]
            page == pages[t]
        IN  (d.status = "connected" /\ link.open /\ ~link.cut /\ link.down = <<>>) =>
            /\ page.self = link.pid
            /\ page.people = Layout(r).people
            /\ page.phase = r.phase
            /\ page.story = r.story
            /\ r.phase = "lobby" => page.look = r.look /\ page.config = r.config
            /\ r.phase # "lobby" => page.turn = r.turn /\ page.queued = r.queued
            /\ page.self \in r.ring =>
                   /\ page.view.turn = r.turn
                   /\ page.view.queued => page.self \in r.queued
                   /\ page.self \in r.queued => page.view.queued \/ link.gen > 1

\* A connected page with nothing on its way to it shows the deadline its room
\* keeps: docs/testing.md:113 "Acceleration: all queue with >5s, UI moves to
\* five seconds".  queuePick and handleClose start the confirmation.
DeadlineShown ==
    \A t \in Tab : current[t] # 0 =>
        LET d == drivers[t][current[t]]
            link == links[d.socket]
        IN  (/\ d.status = "connected" /\ link.open /\ ~link.cut /\ link.down = <<>>
             /\ rooms[d.code].phase # "lobby")
            => pages[t].deadline = rooms[d.code].deadline

\* A page has one connection behind its forms (room-page.ts:4): no driver goes
\* on that the page does not refer to.
OneConnection ==
    \A c \in Drivers : ~Stopped(DriverAt(c)) => current[c[1]] = c[2]

\* The claim a room was created with is in one place at most: with the answer
\* on its way, or with one driver; and once it is spent there is no second
\* host.  Two creators never get the same room.
OneClaimPerRoom ==
    \A c \in Code :
        /\ Cardinality({q \in Request : request[q] = [state |-> "created", code |-> c]})
             + Cardinality({x \in Drivers : DriverAt(x).code = c /\ DriverAt(x).claim}) <= 1
        /\ Exists(c) => Cardinality({p \in DOMAIN rooms[c].people : rooms[c].people[p].host}) <= 1

\* No driver is ever turned away for what is its own doing, repeated or
\* reordered: a claim it sends again after it was spent, or a first message
\* that is no hello; and it steps aside as superseded only for another
\* connection the same browser made to the same room, never for the socket it
\* lost itself.
EndedForCause ==
    \A c \in Drivers :
        /\ DriverAt(c).status \notin {"invalid_claim", "hello_required"}
        /\ DriverAt(c).status = "superseded" =>
               \E other \in Drivers \ {c} : Home(other) = Home(c) /\ DriverAt(other).code = DriverAt(c).code

\* A room starts as the table its host was shown (room.ts:852): if the page
\* had folded every frame of the version it named, its people, seats and
\* options are the ones the draft starts with.
StartsAsShown ==
    [][\A l \in Link :
          (/\ links[l].code # "none" /\ links[l].up # <<>>
           /\ Head(links[l].up).type = "start_draft" /\ links'[l].up = Tail(links[l].up)
           /\ rooms[links[l].code].phase = "lobby"
           /\ rooms'[links[l].code].phase = "picking")
          => \/ Head(links[l].up).saw = [unsettled |-> TRUE]
             \/ Head(links[l].up).saw =
                    LobbyOf(Layout(rooms[links[l].code]), rooms[links[l].code].config)]_vars

LastDriver(t) == drivers[t][Len(drivers[t])]
WasIn(t) == Len(drivers[t]) > 0 /\ LastDriver(t).ever /\ ~Stopped(LastDriver(t))

HasArrived(t) ==
    Len(drivers[t]) > 0 =>
        \/ ~Exists(LastDriver(t).code)
        \/ LastDriver(t).status = "connected"
        \/ Stopped(LastDriver(t)) /\ LastDriver(t).status # "unreachable"

\* A driver that was in and has not been stopped gets in again, or is stopped
\* by an answer, or its room is gone: no cut, in whatever moment of a hello, a
\* resync or another close, leaves it waiting or makes it give up.
ComesBack == \A t \in Tab : WasIn(t) ~> HasArrived(t)

=============================================================================
