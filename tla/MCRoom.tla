------------------------------- MODULE MCRoom -------------------------------
(* Small instances of Room for TLC.                                        *)
EXTENDS Room, TLC

\* Visible packs of 3 and 2 cards: the last entry of the schedule equals the
\* confirmation, as the code's five seconds do, and the first is longer.
MCPickTime == [k \in 2..PackSize |-> IF k = 2 THEN 1 ELSE 2]

Option(timers, spectators, bots, shuffle) ==
    [timers |-> timers, spectators |-> spectators, bots |-> bots, shuffle |-> shuffle]

LobbyConfigs == {Option(TRUE, FALSE, TRUE, FALSE), Option(TRUE, TRUE, FALSE, TRUE)}
TimedConfigs == {Option(TRUE, FALSE, FALSE, FALSE)}
UntimedConfigs == {Option(FALSE, FALSE, FALSE, FALSE)}

PersonSymmetry == Permutations(Person)

=============================================================================
