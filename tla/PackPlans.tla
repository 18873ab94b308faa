----------------------------- MODULE PackPlans ------------------------------
(***************************************************************************)
(* One pack's collation as pure transitions, packages/set-omens/src: the   *)
(* pack-local state of the pools (pack-local-pool-draw-state.ts) and the   *)
(* lookup in it (pack-local-pool-ticket-selection.ts), the plan that fills *)
(* one position after another (pack-collation-plan.ts, finite-batch-       *)
(* collation-plan.ts, finite-batch-plan-position-transition.ts), and       *)
(* the variants that take a single sample (collation-sample-selection.ts,  *)
(* pack-local-pool-sample-selection.ts, pack-local-pool-sample-draw-       *)
(* transition.ts).  A draw state is a function from pools to tables.       *)
(*                                                                         *)
(* Where the code throws, the result's state is "failed": the checks the   *)
(* code makes of its own intermediate results are kept, so that a property *)
(* can say that none of them ever stops a pack half way.                   *)
(***************************************************************************)
EXTENDS CollationTables

Failed == [state |-> "failed", consumed |-> 0]

-----------------------------------------------------------------------------
(* Pack-local pools.                                                       *)

FreshDrawState == PoolTable

IndexesOf(choices, id) == {i \in DOMAIN choices : choices[i].key = id}

CanRemove(pools, p, id) ==
    ValidChoices(pools[p]) /\ Cardinality(IndexesOf(pools[p], id)) = 1

\* The identity leaves its pool, whose later ends move down.
RemoveIdentity(pools, p, id) ==
    [pools EXCEPT ![p] = Compile(RemoveAt(@, CHOOSE i \in IndexesOf(@, id) : TRUE))]

\* The independent check that one identity left one pool and nothing else changed.
ExactRemoval(prior, next, p, id) ==
    /\ \A q \in Pools \ {p} : next[q] = prior[q]
    /\ ValidChoices(prior[p]) /\ ValidChoices(next[p])
    /\ Len(next[p]) = Len(prior[p]) - 1
    /\ \E k \in IndexesOf(prior[p], id) :
        \A i \in DOMAIN next[p] :
            LET old == prior[p][IF i < k THEN i ELSE i + 1]
            IN  next[p][i].key = old.key /\ next[p][i].weight = old.weight

\* The bisection over a pool of the pack, a copy of its own of the one over
\* compiled tables.
LocalChoiceForTicket(choices, ticket) ==
    LET first[range \in (1..Len(choices)+1) \X (1..Len(choices)+1)] ==
            LET lower == range[1]
                upper == range[2]
                middle == lower + (upper - lower) \div 2
            IN  IF lower >= upper THEN lower
                ELSE IF choices[middle].end > ticket THEN first[<<lower, middle>>]
                ELSE first[<<middle + 1, upper>>]
    IN  choices[first[<<1, Len(choices) + 1>>]].key

-----------------------------------------------------------------------------
(* Plans.                                                                  *)

FreshPlan(layout) ==
    [layout |-> layout, pools |-> FreshDrawState, next |-> 0, history |-> <<>>]

RequiredFrom(layout, p) == Cardinality({k \in 1..PositionCount : Slots(layout)[k] = p})

\* Mutant: a pool that several positions name is asked for one identity.
CanRegister_anyDemand(layout) ==
    \A p \in Pools :
        RequiredFrom(layout, p) > 0 => TotalWeight(PoolTable[p]) > 0 /\ Len(PoolTable[p]) >= 1

\* A layout is planned only if every pool can fill the positions that name it.
CanRegister(layout) ==
    \A p \in Pools :
        RequiredFrom(layout, p) > 0 =>
            TotalWeight(PoolTable[p]) > 0 /\ Len(PoolTable[p]) >= RequiredFrom(layout, p)

\* What is left of a table without some of its keys, in its order.
Without(choices, gone) ==
    LET kept[i \in 0..Len(choices)] ==
            IF i = 0 THEN <<>>
            ELSE IF choices[i].key \in gone THEN kept[i-1]
            ELSE Append(kept[i-1], choices[i])
    IN  kept[Len(choices)]

SelectedFrom(history, p) == {h.identity : h \in {x \in ToSet(history) : x.pool = p}}

\* The pools are the tables without exactly what the history took from each.
ExactSelectionHistory(plan) ==
    /\ plan.next \in 0..PositionCount /\ Len(plan.history) = plan.next
    /\ \A i \in DOMAIN plan.history : plan.history[i].pool = Slots(plan.layout)[i]
    /\ \A p \in Pools :
        LET taken == {i \in DOMAIN plan.history : plan.history[i].pool = p}
        IN  /\ Len(plan.pools[p]) = Len(PoolTable[p]) - Cardinality(taken)
            /\ plan.pools[p] = Compile(Without(PoolTable[p], SelectedFrom(plan.history, p)))

CurrentPool(plan) == Slots(plan.layout)[plan.next + 1]

Advanced(plan, id) ==
    [plan EXCEPT !.pools = RemoveIdentity(@, CurrentPool(plan), id),
                 !.next = @ + 1,
                 !.history = Append(@, [pool |-> CurrentPool(plan), identity |-> id])]

ExactPositionTransition(plan, next, id) ==
    /\ ExactSelectionHistory(plan) /\ ExactSelectionHistory(next)
    /\ next.layout = plan.layout /\ next.next = plan.next + 1
    /\ IsPrefix(plan.history, next.history)
    /\ Last(next.history) = [pool |-> CurrentPool(plan), identity |-> id]
    /\ ExactRemoval(plan.pools, next.pools, CurrentPool(plan), id)

\* The identity the ticket falls to by a scan of the ends, which the
\* transition compares with what the bisection selected.
ScannedIdentity(choices, ticket) ==
    LET i == CHOOSE k \in DOMAIN choices :
                /\ ticket < choices[k].end
                /\ ticket >= IF k = 1 THEN 0 ELSE choices[k-1].end
    IN  choices[i].key

\* One finite batch for the current position: more samples needed, or the
\* position filled and its identity gone from its pool.
TransitionCurrentPosition(plan, batch) ==
    LET choices == plan.pools[CurrentPool(plan)]
        mapping == MapBatch(batch, TotalWeight(choices))
        id == LocalChoiceForTicket(choices, mapping.ticket)
        next == Advanced(plan, id)
    IN  IF \/ ~ExactSelectionHistory(plan) \/ plan.next = PositionCount
           \/ ~ValidChoices(choices) \/ TotalWeight(choices) \notin TicketBound
        THEN Failed
        ELSE IF mapping.state = "needs-sample"
        THEN [state |-> "needs-sample", consumed |-> mapping.consumed]
        ELSE IF \/ id # ScannedIdentity(choices, mapping.ticket)
                \/ ~CanRemove(plan.pools, CurrentPool(plan), id)
                \/ ~ExactPositionTransition(plan, next, id)
        THEN Failed
        ELSE [state |-> "selected", consumed |-> mapping.consumed, identity |-> id, plan |-> next]

\* A fresh plan for the layout a ticket falls to, if that layout can be filled.
InitializeFromTicket(ticket, consumed) ==
    LET layout == ChoiceForTicket(LayoutTable, ticket)
    IN  IF CanRegister(layout)
        THEN [state |-> "selected", consumed |-> consumed, plan |-> FreshPlan(layout)]
        ELSE [state |-> "failed", consumed |-> consumed, layout |-> layout]

InitializeFromBatch(batch) ==
    LET mapping == MapBatch(batch, TotalWeight(LayoutTable))
    IN  IF mapping.state = "needs-sample"
        THEN [state |-> "needs-sample", consumed |-> mapping.consumed]
        ELSE InitializeFromTicket(mapping.ticket, mapping.consumed)

-----------------------------------------------------------------------------
(* The variants for exactly one sample.                                    *)

InitializeFromOneSample(sample) ==
    LET mapping == MapSample(sample, TotalWeight(LayoutTable))
    IN  IF mapping.state = "retry" THEN [state |-> "retry", consumed |-> 1]
        ELSE InitializeFromTicket(mapping.ticket, 1)

\* From a pool of the compiled tables, which nothing has been drawn from.
SelectFromTable(p, sample) ==
    LET mapping == MapSample(sample, TotalWeight(PoolTable[p]))
    IN  IF mapping.state = "retry" THEN [state |-> "retry"]
        ELSE [state |-> "selected", identity |-> ChoiceForTicket(PoolTable[p], mapping.ticket)]

\* From a pool of the pack, without drawing.
SelectFromPool(pools, p, sample) ==
    LET mapping == MapSample(sample, TotalWeight(pools[p]))
    IN  IF mapping.state = "retry" THEN [state |-> "retry"]
        ELSE [state |-> "selected", identity |-> LocalChoiceForTicket(pools[p], mapping.ticket)]

\* The same selection together with the removal.
DrawFromPool(pools, p, sample) ==
    LET selection == SelectFromPool(pools, p, sample)
    IN  IF selection.state = "retry" THEN [state |-> "retry"]
        ELSE [state |-> "selected", identity |-> selection.identity,
              pools |-> RemoveIdentity(pools, p, selection.identity)]

=============================================================================
