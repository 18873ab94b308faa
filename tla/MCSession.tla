----------------------------- MODULE MCSession ------------------------------
(* Small instances of Session for TLC.                                     *)
EXTENDS Session

CONSTANTS A, B, b1, b2

\* Two tabs of one browser, or of two.
MCHomes == {(A :> b1) @@ (B :> b1), (A :> b1) @@ (B :> b2)}
MCOptions == {[timers |-> FALSE, spectators |-> TRUE]}
MCTimed == {[timers |-> TRUE, spectators |-> FALSE]}

Budget(creates, joins, commands, alarms, cuts, failures) ==
    [k \in Kinds |-> CASE k = "creates" -> creates [] k = "joins" -> joins [] k = "commands" -> commands
                       [] k = "alarms" -> alarms [] k = "cuts" -> cuts [] k = "failures" -> failures]

\* Mixtures of what may happen, explored one beside the other: a host alone
\* who drafts and is cut; two cuts and a failed connection in a swept lobby;
\* two creators, a join and a lost answer; two tabs at a draft; two tabs, a
\* cut and an alarm in a lobby.
MCBudgets == {Budget(1, 0, 2, 2, 1, 0), Budget(1, 0, 0, 1, 2, 1), Budget(2, 1, 0, 0, 0, 1),
              Budget(1, 1, 1, 2, 0, 0), Budget(1, 1, 0, 1, 1, 0)}

MCDrafting == {Budget(1, 0, 2, 1, 1, 0)}
MCOverlapping == {Budget(2, 1, 0, 0, 0, 0)}

=============================================================================
