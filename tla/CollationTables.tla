-------------------------- MODULE CollationTables ---------------------------
(***************************************************************************)
(* The weighted tables packs are collated from, packages/set-omens/src:    *)
(* collation-weight-tables.ts compiles layouts and pools to cumulative     *)
(* exclusive ends, collation-weight-ticket-selection.ts looks a ticket up  *)
(* in them by bisection.  The pools of a pack have a bisection of their    *)
(* own, in PackPlans.                                                      *)
(*                                                                         *)
(* The reviewed set data is the constants: a layout names the pool of each *)
(* position (its structural roles follow from the position and are left    *)
(* out), a pool lists identities with weights.  The registries of opaque   *)
(* capabilities and the freezing that guards them are left out: a TLA+     *)
(* value can be neither forged nor changed.                                *)
(***************************************************************************)
EXTENDS Tickets, FiniteSets, SequencesExt

CONSTANTS
    Layouts,        \* sequence of [weight, slots]; slots is a sequence of pools
    PoolEntries     \* PoolEntries[p]: sequence of [key, weight], key an identity

Pools == DOMAIN PoolEntries
Identities == UNION {{e.key : e \in ToSet(PoolEntries[p])} : p \in Pools}
Slots(layout) == Layouts[layout].slots
PositionCount == Len(Slots(1))

\* What compile checks: no table is empty, no weight is zero, no pool lists an
\* identity twice.
ASSUME CollationAssumption ==
    /\ Layouts \in Seq(ToSet(Layouts)) /\ Layouts # <<>> /\ PositionCount \in Nat \ {0}
    /\ \A l \in DOMAIN Layouts :
        /\ Layouts[l].weight \in Nat \ {0}
        /\ Slots(l) \in Seq(Pools) /\ Len(Slots(l)) = PositionCount
    /\ \A p \in Pools :
        /\ PoolEntries[p] \in Seq(ToSet(PoolEntries[p])) /\ PoolEntries[p] # <<>>
        /\ \A i, j \in DOMAIN PoolEntries[p] :
            /\ PoolEntries[p][i].weight \in Nat \ {0}
            /\ i # j => PoolEntries[p][i].key # PoolEntries[p][j].key

-----------------------------------------------------------------------------
\* A table is a sequence of choices [key, weight, end].
TotalWeight(choices) == IF choices = <<>> THEN 0 ELSE Last(choices).end

\* Source-order prefix sums of weighted entries.
Compile(entries) ==
    LET end[i \in 0..Len(entries)] == IF i = 0 THEN 0 ELSE end[i-1] + entries[i].weight
    IN  [i \in DOMAIN entries |->
            [key |-> entries[i].key, weight |-> entries[i].weight, end |-> end[i]]]

LayoutTable == Compile([l \in DOMAIN Layouts |-> [key |-> l, weight |-> Layouts[l].weight]])
PoolTable == [p \in Pools |-> Compile(PoolEntries[p])]

\* The reviewed totals (460800 for the layouts) are far below the sample domain.
ASSUME TablesFitAssumption ==
    /\ TotalWeight(LayoutTable) <= SampleEnd
    /\ \A p \in Pools : TotalWeight(PoolTable[p]) <= SampleEnd

\* What every reader checks before it uses a table.
ValidChoices(choices) ==
    /\ \A i \in DOMAIN choices :
        /\ choices[i].weight > 0
        /\ choices[i].end = choices[i].weight + IF i = 1 THEN 0 ELSE choices[i-1].end
    /\ \A i, j \in DOMAIN choices : choices[i].key = choices[j].key => i = j

\* Mutant: the first choice whose exclusive end is not below the ticket.
ChoiceForTicket_inclusive(choices, ticket) ==
    LET i == CHOOSE k \in DOMAIN choices :
                choices[k].end >= ticket /\ \A j \in 1..k-1 : choices[j].end < ticket
    IN  choices[i].key

\* The first choice whose exclusive end is above the ticket, by bisection.
\* Defined for a nonempty table and a ticket below its total.
ChoiceForTicket(choices, ticket) ==
    LET first[range \in (1..Len(choices)+1) \X (1..Len(choices)+1)] ==
            LET lower == range[1]
                upper == range[2]
                middle == lower + (upper - lower) \div 2
            IN  IF lower >= upper THEN lower
                ELSE IF choices[middle].end > ticket THEN first[<<lower, middle>>]
                ELSE first[<<middle + 1, upper>>]
    IN  choices[first[<<1, Len(choices) + 1>>]].key

=============================================================================
