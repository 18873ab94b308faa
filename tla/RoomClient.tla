----------------------------- MODULE RoomClient -----------------------------
(***************************************************************************)
(* The client's half of a connection: the driver of                        *)
(* apps/web/src/room-client.ts with the version rule of protocol.ts, and   *)
(* the page of room-page.ts that folds its frames.  Both are records; each *)
(* handler of the code is an operator on them, and Session owns the        *)
(* sockets between client and room.                                        *)
(*                                                                         *)
(* Abstractions.  The clock estimate and the table of pending commands     *)
(* that feeds it are left out, and so is the length of a backoff: the      *)
(* timer fires some time.  Drivers say hello with or without a claim and   *)
(* with a right or a wrong password; what is rendered is left out, what is *)
(* kept to be rendered is the page.                                        *)
(***************************************************************************)
EXTENDS Integers, Sequences, TLC

Unseen == -1        \* lastVersion before any frame (null in the code)
NoSocket == 0

-----------------------------------------------------------------------------
(* The driver.  status is what it last announced; any status that is not a *)
(* stage of connecting is a reason for which it has stopped.               *)

Stages == {"connecting", "connected", "reconnecting"}
Stopped(d) == d.status \notin Stages

\* constructor, and connect().
NewDriver(code, claim, password) ==
    [code |-> code, claim |-> claim, password |-> password, socket |-> NoSocket,
     last |-> Unseen, ever |-> FALSE, status |-> "connecting"]

\* attach(), once the socket opens: whatever remains of hello, and the
\* credential that is stored at this moment.
HelloOf(d, credential) ==
    [type |-> "hello", credential |-> credential, claim |-> d.claim, password |-> d.password]

FellBehind(last, incoming) == last # Unseen /\ incoming > last + 1

\* A frame before the latest is no reason to forget the latest.
Later(last, incoming) == IF last = Unseen \/ incoming > last THEN incoming ELSE last

\* Mutant: the answered hello keeps its claim.
Acknowledged_keepsClaim(d) == [d EXCEPT !.ever = TRUE, !.status = "connected"]

\* hello_ack: the claim is spent.
Acknowledged(d) == [d EXCEPT !.ever = TRUE, !.claim = FALSE, !.status = "connected"]

\* receive(): a gap is answered with resync, see AsksResync.
Received(d, frame) ==
    [(IF frame.type = "hello_ack" THEN Acknowledged(d) ELSE d) EXCEPT
        !.last = IF frame.type = "snapshot" THEN frame.version ELSE Later(@, frame.version)]

AsksResync(d, frame) == frame.type # "snapshot" /\ FellBehind(d.last, frame.version)

\* Mutant: a driver whose socket never opened this time gives up.
Closed_giveUp(d, code, reason) ==
    [d EXCEPT !.socket = NoSocket,
              !.status = CASE code = "superseded" -> "superseded"
                           [] code = "refused" -> reason
                           [] OTHER -> IF d.status = "connected" THEN "reconnecting" ELSE "unreachable"]

\* closed(): superseded and refused are answers; only a driver that was ever
\* in tries again.
Closed(d, code, reason) ==
    [d EXCEPT !.socket = NoSocket,
              !.status = CASE code = "superseded" -> "superseded"
                           [] code = "refused" -> reason
                           [] OTHER -> IF d.ever THEN "reconnecting" ELSE "unreachable"]

\* Mutant: a stopped driver keeps its socket.
StoppedFor_keepsSocket(d, reason) == IF Stopped(d) THEN d ELSE [d EXCEPT !.status = reason]

\* stop(): the first reason stays.
StoppedFor(d, reason) == IF Stopped(d) THEN d ELSE [d EXCEPT !.socket = NoSocket, !.status = reason]

-----------------------------------------------------------------------------
(* The page.                                                               *)

NoPage == [code |-> "none"]

\* enterRoom: the state before any frame; view is null.
NewPage(code) ==
    [code |-> code, self |-> 0, phase |-> "lobby", people |-> <<>>, look |-> FALSE,
     config |-> [bots |-> TRUE, shuffle |-> TRUE], turn |-> 1, queued |-> {},
     deadline |-> "none", story |-> 0, view |-> [turn |-> 0, queued |-> FALSE]]

HasView(page) == page.view.turn > 0

\* What a frame carries takes the place of what the page has.
Replaced(page, body) == [field \in DOMAIN page |-> IF field \in DOMAIN body THEN body[field] ELSE page[field]]

\* applyFrame.  Most frames replace the fields they carry; a story line and
\* a queued mark are deltas; the answer to a queued pick goes into the
\* private view there is.
Folded(page, frame) ==
    CASE frame.type = "hello_ack" -> [page EXCEPT !.self = frame.body.self]
      [] frame.type = "queue_status_changed" -> [page EXCEPT !.queued = @ \cup {frame.body.seat}]
      [] frame.type = "feed_appended" -> [page EXCEPT !.story = @ + 1]
      [] frame.type = "ack" ->
             IF frame.body # <<>> /\ HasView(page) THEN [page EXCEPT !.view.queued = TRUE] ELSE page
      [] OTHER -> Replaced(page, frame.body)

\* The controls: a page that shows its reader as the host offers the lobby's.
Hosting(page) == page.self \in DOMAIN page.people /\ page.people[page.self].host

=============================================================================
