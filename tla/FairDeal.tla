------------------------------ MODULE FairDeal ------------------------------
(***************************************************************************)
(* What a draft promises the people at the table, with the packs, picks    *)
(* and rounds left out: every card starts undealt, cards are dealt in      *)
(* shares, a share gives every seat the same number of cards (one, or two  *)
(* when a last card comes with the pick), a dealt card never moves again,  *)
(* and in the end every card is dealt.                                     *)
(***************************************************************************)
EXTENDS Integers, FiniteSets

CONSTANTS
    Players,    \* the seats
    Deck,       \* the cards
    Undealt     \* the holder of a card that no seat has yet, not a player

VARIABLE holder     \* who has each card

TypeOK == holder \in [Deck -> Players \cup {Undealt}]

AllDealt == \A c \in Deck : holder[c] # Undealt

Init == holder = [c \in Deck |-> Undealt]

\* The cards that player p receives in a step.
Dealt(p) == {c \in Deck : holder[c] = Undealt /\ holder'[c] = p}

Deal ==
    /\ ~AllDealt
    /\ \A c \in Deck : holder[c] # Undealt => holder'[c] = holder[c]
    /\ \E share \in 1..2 : \A p \in Players : Cardinality(Dealt(p)) = share

Next == Deal

Spec == Init /\ [][Next]_holder

\* The whole promise: dealing is fair at every step and gets to the end.
Promise == Spec /\ <>AllDealt

=============================================================================
