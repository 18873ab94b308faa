------------------------------ MODULE MCDraft -------------------------------
(* Small instances of Draft for TLC.                                       *)
EXTENDS Draft, TLC

MCPackSizeTable == <<4, 2, 1>>
MCPackSizeRing == <<2, 3, 1>>

(* The ring: three people who stay, so that left and right differ.  What   *)
(* presence does to a seat is covered by the table; here the packs travel. *)
RingSetup ==
    CHOOSE seatSetup \in [Seat -> [controller : {"human"}, occupantId : Occupant, connected : {TRUE}]] :
        LegalSetup(seatSetup)
RingInit == draft = CreateDraft(RingSetup)
RingNext ==
    \/ \E i \in Seat, o \in Occupant, c \in AllCards : Queue(i, o, draft.pick, c)
    \/ Reveal
    \/ Timeout
    \/ Over
RingSpec == RingInit /\ [][RingNext]_draft /\ WF_draft(Timeout)

OccupantSymmetry == Permutations(Occupant)

=============================================================================
