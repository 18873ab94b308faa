--------------------------- MODULE RoomLifecycle ----------------------------
(***************************************************************************)
(* What a room promises whoever holds its code, with sockets, presence,    *)
(* clocks and alarms left out: a lobby becomes a draft at most once, the   *)
(* table and its options are settled at that moment, the turns follow one  *)
(* another without a gap or a repetition with a review between rounds, and *)
(* a finished room stays readable until it disappears.                     *)
(***************************************************************************)
EXTENDS Naturals

CONSTANT PackSize       \* at least two cards, as Room assumes

VARIABLES
    stage,      \* none, lobby, picking, review or complete
    turn,       \* <<round, pick>> of the pick that is open or comes next
    table       \* the people around the table and the options, once started

vars == <<stage, turn, table>>

LastPick == PackSize - 1    \* the last two cards of a pack go in one pick
Undecided == {}

Nothing == stage = "none" /\ turn = <<0, 0>> /\ table = Undecided

Init == Nothing

Open ==
    /\ stage = "none" /\ stage' = "lobby"
    /\ UNCHANGED <<turn, table>>

Start ==
    /\ stage = "lobby" /\ stage' = "picking"
    /\ turn' = <<1, 1>>
    /\ table' # Undecided

NextPick ==
    /\ stage = "picking" /\ turn[2] < LastPick
    /\ turn' = <<turn[1], turn[2] + 1>>
    /\ UNCHANGED <<stage, table>>

Review ==
    /\ stage = "picking" /\ turn[2] = LastPick /\ turn[1] < 3
    /\ stage' = "review"
    /\ turn' = <<turn[1] + 1, 1>>
    /\ UNCHANGED table

Resume ==
    /\ stage = "review" /\ stage' = "picking"
    /\ UNCHANGED <<turn, table>>

Finish ==
    /\ stage = "picking" /\ turn = <<3, LastPick>>
    /\ stage' = "complete"
    /\ UNCHANGED <<turn, table>>

\* A lobby may be abandoned; a started room goes only after it is complete.
Disappear == stage \in {"lobby", "complete"} /\ Nothing'

Next == Open \/ Start \/ NextPick \/ Review \/ Resume \/ Finish \/ Disappear

Spec == Init /\ [][Next]_vars

=============================================================================
