------------------------- MODULE RoomAnnouncements -------------------------
(***************************************************************************)
(* What the room says to its clients: apps/server/src/room.ts read for its *)
(* frames.  Module Room has the handlers' effects on sockets, alarms and   *)
(* the draft; here each handler is an operator from the room's public      *)
(* facts to an outcome: the facts afterwards and the frames sent, in their *)
(* order.  A frame carries the state version it was sent at, and every     *)
(* stored change is a new version.                                         *)
(*                                                                         *)
(* Abstractions.  Names and lobby seats are one two-valued mark (look);    *)
(* everybody in the lobby is seated, so the ring is whoever is there at    *)
(* the start (the rail is in Room); a queued card is the fact that one is  *)
(* queued; a deadline is its kind; the story is its length.  Which phase   *)
(* follows a closed pick is any of the three.                              *)
(***************************************************************************)
EXTENDS Integers, Sequences, FiniteSets, TLC

CONSTANTS
    Nobody,         \* the attachment of a socket that has not passed hello
    MaxParticipants, \* 16 in the code
    LastTurn        \* bound: picks of a draft

ASSUME BoundsAssumption == {MaxParticipants, LastTurn} \subseteq Nat \ {0}

\* Identities are numbered in the order they are minted.
ASSUME NobodyAssumption == Nobody \notin Nat

Nothing == <<>>     \* the empty body

\* A room as initialize stores it: version 0, nobody in it.
NewRoom(options) ==
    [phase |-> "lobby", version |-> 0, turn |-> 1,
     people |-> Nothing, minted |-> 0, claimSpent |-> FALSE,
     look |-> FALSE, config |-> [bots |-> TRUE, shuffle |-> TRUE], options |-> options,
     ring |-> {}, queued |-> {}, deadline |-> "none", story |-> 0]

Deleted == [phase |-> "gone"]

-----------------------------------------------------------------------------
(* The projections a frame is made of.                                     *)

\* One payload spread into another.
Spread(a, b) == [field \in DOMAIN a \cup DOMAIN b |-> IF field \in DOMAIN a THEN a[field] ELSE b[field]]

\* publicParticipant for everybody: presence and hostship, no generation.
Layout(r) ==
    [people |-> [p \in DOMAIN r.people |->
                    [connected |-> r.people[p].connected, host |-> r.people[p].host]],
     look |-> r.look]

PublicDraft(r) == [turn |-> r.turn, queued |-> r.queued]

\* snapshotPayload: the draft and its deadline only once there is one.
SnapshotPayload(r) ==
    LET lobby == Spread(Layout(r), [phase |-> r.phase, config |-> r.config, story |-> r.story])
    IN  IF r.phase = "lobby" THEN lobby
        ELSE Spread(lobby, Spread(PublicDraft(r), [deadline |-> r.deadline]))

Frame(r, type, body) == [type |-> type, version |-> r.version, body |-> body]

Ack(r) == Frame(r, "ack", Nothing)
Refusal(r) == Frame(r, "error", Nothing)
Snapshot(r) == Frame(r, "snapshot", SnapshotPayload(r))
PeopleChanged(r) == Frame(r, "participants_changed", Layout(r))
ConfigChanged(r) == Frame(r, "config_changed", [config |-> r.config])
FeedAppended(r) == Frame(r, "feed_appended", Nothing)

\* announcePhase: two frames.
AnnouncePhase(r) ==
    << Frame(r, "phase_changed", Spread([phase |-> r.phase], PublicDraft(r))),
       Frame(r, "deadline_changed", [deadline |-> r.deadline]) >>

\* privateView: only somebody seated in a draft has one.
PrivateView(r, p) ==
    IF p \in r.ring
    THEN << Frame(r, "private_pack_pool", [view |-> [turn |-> r.turn, queued |-> p \in r.queued]]) >>
    ELSE <<>>

-----------------------------------------------------------------------------
(* Outcomes.  The sender hears reply; then the sockets of identity         *)
(* dismissed older than generation below are closed (all of them when the  *)
(* room is deleted); then every socket that passed hello hears tell, all   *)
(* but the sender hear others, and each its own private view if views.     *)

Outcome(r) ==
    [room |-> r, reply |-> <<>>, tell |-> <<>>, others |-> <<>>, views |-> FALSE,
     self |-> Nobody, dismissed |-> Nobody, below |-> 0, reason |-> "none"]

\* An error to the sender, and nothing else happens.
Refused(r) == [Outcome(r) EXCEPT !.reply = <<Refusal(r)>>]

\* turnAway: the sender is nobody, hears no version of the room, and is closed.
TurnedAway(r, why) ==
    [Outcome(r) EXCEPT !.reply = <<[type |-> "error", version |-> 0, body |-> Nothing]>>, !.reason = why]

\* deleteAll: what there was to say goes to the sender, and every socket closes.
Deletion(reply) == [Outcome(Deleted) EXCEPT !.reply = reply, !.reason = "room_closed"]

\* Mutant: the sender is left out of the broadcast of its own command.
Commit_exceptSender(r, broadcasts) ==
    [Outcome(r) EXCEPT !.reply = <<Ack(r)>>, !.others = broadcasts]

\* commit: the sender hears the broadcast too.
Commit(r, broadcasts) == [Outcome(r) EXCEPT !.reply = <<Ack(r)>>, !.tell = broadcasts]

NewVersion(r) == [r EXCEPT !.version = @ + 1]
WithStory(r) == [NewVersion(r) EXCEPT !.story = @ + 1]

Connected(r) == {p \in DOMAIN r.people : r.people[p].connected}

-----------------------------------------------------------------------------
(* hello.                                                                  *)

\* What a stored hello sends: the newcomer gets everything, the others hear
\* who is there, and the identity's older sockets are superseded.
Welcome(r, p, minted) ==
    [Outcome(r) EXCEPT
        !.reply = <<Frame(r, "hello_ack", [self |-> p, minted |-> minted]), Snapshot(r)>> \o PrivateView(r, p),
        !.others = <<PeopleChanged(r), FeedAppended(r)>>,
        !.self = p, !.dismissed = p, !.below = r.people[p].gen, !.reason = "superseded"]

\* hello: password, claim, identity, in that order; a credential nobody
\* holds here is a fresh join, and takes a place.
Hello(r, m) ==
    LET returning == m.credential \in DOMAIN r.people
        p == IF returning THEN m.credential ELSE r.minted + 1
        self == IF returning
                THEN [r.people[p] EXCEPT !.connected = TRUE, !.host = @ \/ m.claim, !.gen = @ + 1]
                ELSE [connected |-> TRUE, host |-> m.claim, gen |-> 1]
    IN  IF ~m.password THEN TurnedAway(r, "wrong_password")
        ELSE IF m.claim /\ r.claimSpent THEN TurnedAway(r, "invalid_claim")
        ELSE IF ~returning /\ Cardinality(DOMAIN r.people) >= MaxParticipants THEN TurnedAway(r, "room_full")
        ELSE IF ~returning /\ r.phase # "lobby" /\ ~r.options.spectators
        THEN TurnedAway(r, "spectators_disabled")
        ELSE Welcome([WithStory(r) EXCEPT !.people = [q \in DOMAIN @ \cup {p} |-> IF q = p THEN self ELSE @[q]],
                                          !.minted = IF returning THEN @ ELSE @ + 1,
                                          !.claimSpent = @ \/ m.claim],
                     p, ~returning)

\* resync: everything again, to whoever asked.
Resync(r, p) == [Outcome(r) EXCEPT !.reply = <<Snapshot(r)>> \o PrivateView(r, p)]

-----------------------------------------------------------------------------
(* The lobby's commands; handleMessage has checked the phase.              *)

UpdateConfig(r, p, bots) ==
    LET updated == [NewVersion(r) EXCEPT !.config.bots = bots]
    IN  IF r.people[p].host THEN Commit(updated, <<ConfigChanged(updated)>>) ELSE Refused(r)

\* The first move cancels the pending shuffle, and only then says so.
MoveParticipant(r, p) ==
    LET updated == [WithStory(r) EXCEPT !.look = ~@, !.config.shuffle = FALSE]
    IN  IF r.people[p].host
        THEN Commit(updated, << Frame(updated, "seat_layout_changed", Layout(updated)) >>
                             \o (IF r.config.shuffle THEN <<ConfigChanged(updated)>> ELSE <<>>)
                             \o <<FeedAppended(updated)>>)
        ELSE Refused(r)

\* setSeatRandomization, randomize_now: the shuffle may change nothing.
RandomizeNow(r, p) ==
    {   LET updated == [WithStory(r) EXCEPT !.look = look, !.config.shuffle = FALSE]
        IN  IF r.people[p].host
            THEN Commit(updated, << Frame(updated, "seat_layout_changed", Layout(updated)),
                                    ConfigChanged(updated), FeedAppended(updated) >>)
            ELSE Refused(r)
    : look \in BOOLEAN }

\* withdraw, of the sender: the last to leave deletes the room.
Leave(r, p) ==
    LET people == [q \in DOMAIN r.people \ {p} |-> r.people[q]]
        updated == [WithStory(r) EXCEPT !.people = people]
    IN  IF DOMAIN people = {}
        THEN Deletion(<<Ack(NewVersion(r))>>)
        ELSE [Commit(updated, <<PeopleChanged(updated), FeedAppended(updated)>>) EXCEPT
                 !.dismissed = p, !.below = r.people[p].gen + 1, !.reason = "leave"]

-----------------------------------------------------------------------------
(* The draft.                                                              *)

PickDeadline(r) == IF r.options.timers THEN "full" ELSE "none"

\* Mutant: the host starts whatever the room has become.
MayStart_anyVersion(r, expected) == r.people # Nothing

\* The host starts the room at the version it names.
MayStart(r, expected) == expected = r.version

\* startDraft: the shuffle of the seats and the spent option are not
\* announced; the story precedes the phase.
StartDraft(r, p, expected) ==
    LET updated == [WithStory(r) EXCEPT !.phase = "picking", !.ring = DOMAIN r.people,
                                        !.config.shuffle = FALSE, !.deadline = PickDeadline(r)]
    IN  IF r.people[p].host /\ MayStart(r, expected)
        THEN [Commit(updated, <<FeedAppended(updated)>> \o AnnouncePhase(updated)) EXCEPT !.views = TRUE]
        ELSE Refused(r)

\* confirmationAfter: the rooms after everybody who is there has queued; a
\* deadline of five seconds or less stays as it is.
ConfirmationAfter(r) ==
    LET ready == r.ring \cap Connected(r)
        confirmed == [r EXCEPT !.deadline = "soon"]
    IN  IF r.phase # "picking" \/ ready = {} \/ ~(ready \subseteq r.queued) THEN {r}
        ELSE IF r.options.timers THEN {r, confirmed} ELSE {confirmed}

\* queuePick, for the pick the client saw; the confirmation it may start is
\* not announced.
QueuePick(r, p, turn) ==
    IF p \notin r.ring \/ turn # r.turn THEN {Refused(r)}
    ELSE { [Outcome(updated) EXCEPT
               !.reply = <<Frame(updated, "ack", [queued |-> TRUE])>>,
               !.tell = <<Frame(updated, "queue_status_changed", [seat |-> p])>>]
         : updated \in ConfirmationAfter([NewVersion(r) EXCEPT !.queued = @ \cup {p}]) }

-----------------------------------------------------------------------------
(* handleMessage, for a socket that has an identity.                       *)

HandleCommand(r, p, m) ==
    IF p \notin DOMAIN r.people THEN {[Outcome(r) EXCEPT !.reason = "removed"]}
    ELSE IF m.type = "resync" THEN {Resync(r, p)}
    ELSE IF m.type = "queue_pick"
    THEN IF r.phase = "picking" THEN QueuePick(r, p, m.turn) ELSE {Refused(r)}
    ELSE IF r.phase # "lobby" THEN {Refused(r)}
    ELSE CASE m.type = "start_draft" -> {StartDraft(r, p, m.expected)}
           [] m.type = "update_config" -> {UpdateConfig(r, p, m.bots)}
           [] m.type = "move_participant" -> {MoveParticipant(r, p)}
           [] m.type = "set_seat_randomization" -> RandomizeNow(r, p)
           [] m.type = "leave" -> {Leave(r, p)}

-----------------------------------------------------------------------------
(* handleClose and handleAlarm.                                            *)

\* The close of an identity's current socket.
Absent(r, p) ==
    { [Outcome(updated) EXCEPT !.tell = <<PeopleChanged(updated), FeedAppended(updated)>>] : updated \in
        ConfirmationAfter([WithStory(r) EXCEPT !.people[p].connected = FALSE]) }

\* reconcileLiveness: whoever has no socket is absent; no story is told.
Reconciled(r, listed) ==
    LET updated == [NewVersion(r) EXCEPT !.people =
                       [p \in DOMAIN r.people |-> [r.people[p] EXCEPT !.connected = @ /\ p \in listed]]]
    IN  [Outcome(updated) EXCEPT !.tell = <<PeopleChanged(updated)>>]

\* deadlineAlarm: a review ends, or a pick closes and the next one, a review
\* or the end of the draft follows.
Advanced(r, phase) ==
    LET after == [NewVersion(r) EXCEPT
                     !.phase = phase,
                     !.turn = IF r.phase = "review" THEN @ ELSE @ + 1,
                     !.queued = IF r.phase = "review" THEN @ ELSE {},
                     !.story = IF phase = "picking" THEN @ ELSE @ + 1,
                     !.deadline = CASE phase = "complete" -> "ttl"
                                    [] phase = "review" -> "review"
                                    [] OTHER -> PickDeadline(r)]
    IN  [Outcome(after) EXCEPT
            !.tell = AnnouncePhase(after) \o (IF phase = "picking" THEN <<>> ELSE <<FeedAppended(after)>>),
            !.views = TRUE]

DeadlineAlarm(r) ==
    IF r.deadline = "none" THEN {}
    ELSE IF r.phase = "complete" THEN {Deletion(<<>>)}
    ELSE IF r.phase = "review" THEN {Advanced(r, "picking")}
    ELSE IF r.turn = LastTurn THEN {Advanced(r, "complete")}
    ELSE {Advanced(r, phase) : phase \in {"picking", "review"}}

=============================================================================
