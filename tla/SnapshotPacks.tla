--------------------------- MODULE SnapshotPacks ----------------------------
(***************************************************************************)
(* The server's own pack builder, apps/server/src/packs.ts, over the       *)
(* reviewed snapshot; apps/web/src/cards.ts holds the same code for the    *)
(* solo table.  It is the second implementation of what PackPlans does:    *)
(* weights are summed and scanned anew at every draw, and a chosen entry   *)
(* is spliced out of the pool's list of available entries.                 *)
(*                                                                         *)
(* buildPack runs to its end in one call and asks its source for a sample  *)
(* whenever it needs one.  Here it is suspended at each such request: a    *)
(* builder b is its local state, and Take(b, sample) runs from one request *)
(* to the next.                                                            *)
(***************************************************************************)
EXTENDS CollationTables

CONSTANT MaximumTicketAttempts      \* MAXIMUM_TICKET_ATTEMPTS, 64 in the code

SumOf(weights) ==
    LET sum[i \in 0..Len(weights)] == IF i = 0 THEN 0 ELSE sum[i-1] + weights[i]
    IN  sum[Len(weights)]

\* Linear scan of the running sums.
SelectWeightedIndex(weights, ticket) ==
    CHOOSE i \in DOMAIN weights :
        /\ ticket < SumOf(SubSeq(weights, 1, i))
        /\ ticket >= SumOf(SubSeq(weights, 1, i - 1))

NoLayout == 0

FreshBuilder ==
    [layout |-> NoLayout,
     available |-> [p \in Pools |-> [i \in DOMAIN PoolEntries[p] |-> i]],
     cards |-> <<>>, attempts |-> 0, drawn |-> 0, thrown |-> FALSE]

\* The pool of the position being filled.
PoolAt(b) == Slots(b.layout)[Len(b.cards) + 1]

\* The weights the next ticket is drawn over.
Weights(b) ==
    IF b.layout = NoLayout THEN [l \in DOMAIN Layouts |-> Layouts[l].weight]
    ELSE [i \in DOMAIN b.available[PoolAt(b)] |-> PoolEntries[PoolAt(b)][b.available[PoolAt(b)][i]].weight]

PackComplete(b) == b.layout # NoLayout /\ Len(b.cards) = PositionCount

\* A position whose pool has nothing left throws before a sample is asked for.
OutOfEntries(b) == b.layout # NoLayout /\ ~PackComplete(b) /\ b.available[PoolAt(b)] = <<>>
ThrowIfEmpty(b) == [b EXCEPT !.thrown = OutOfEntries(b)]

Rejected(b) ==
    [b EXCEPT !.attempts = @ + 1, !.drawn = @ + 1, !.thrown = (b.attempts + 1 = MaximumTicketAttempts)]

WithLayout(b, layout) ==
    ThrowIfEmpty([b EXCEPT !.layout = layout, !.attempts = 0, !.drawn = @ + 1])

\* Mutant: the chosen index is taken as an index of the pool.
WithCard_poolIndex(b, chosen) ==
    ThrowIfEmpty(
        [b EXCEPT !.cards = Append(@, PoolEntries[PoolAt(b)][chosen].key),
                  !.available[PoolAt(b)] = RemoveAt(@, chosen),
                  !.attempts = 0, !.drawn = @ + 1])

\* The chosen index is an index of the available list, not of the pool.
WithCard(b, chosen) ==
    ThrowIfEmpty(
        [b EXCEPT !.cards = Append(@, PoolEntries[PoolAt(b)][b.available[PoolAt(b)][chosen]].key),
                  !.available[PoolAt(b)] = RemoveAt(@, chosen),
                  !.attempts = 0, !.drawn = @ + 1])

Take(b, sample) ==
    LET mapping == MapSample(sample, SumOf(Weights(b)))
        chosen == SelectWeightedIndex(Weights(b), mapping.ticket)
    IN  IF b.thrown \/ PackComplete(b) THEN b
        ELSE IF mapping.state = "retry" THEN Rejected(b)
        ELSE IF b.layout = NoLayout THEN WithLayout(b, chosen)
        ELSE WithCard(b, chosen)

=============================================================================
