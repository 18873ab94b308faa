-------------------------- MODULE PackConstruction --------------------------
(***************************************************************************)
(* Building one pack from samples that arrive in finite batches, packages/ *)
(* set-omens/src/pack-construction.ts with the plan's initialisation       *)
(* before it, next to the server's builder (SnapshotPacks) fed with        *)
(* exactly the samples the construction reports as consumed.               *)
(*                                                                         *)
(* The construction owns no entropy.  Its caller is either anyone, with    *)
(* any samples in any batches, or the holder of a replayable source, who   *)
(* generates one sample, hands it over, and keeps the source as it is      *)
(* then: the integration that docs/implementation-plan.md describes.       *)
(* Which source that is does not matter here; SetToPack has the seeded one.*)
(***************************************************************************)
EXTENDS PackPlans, SnapshotPacks

CONSTANTS
    Batches,        \* the batches an arbitrary caller may offer
    Calls,          \* sequences of batches for one construction call
    Sources,        \* replayable sources, whatever they have generated already
    FreshSources,   \* those that a pack may be started with
    SampleFrom(_),  \* the sample a source generates
    After(_),       \* the source afterwards
    MaxSamples      \* bound: an arbitrary caller stops after that many samples

AnySource == <<>>

ASSUME SourcesAssumption ==
    /\ FreshSources \subseteq Sources /\ AnySource \notin Sources
    /\ \A source \in Sources : SampleFrom(source) \in Sample /\ After(source) \in Sources

ASSUME CallersAssumption ==
    /\ Batches \subseteq Seq(Sample) /\ Calls \subseteq Seq(Batches)
    /\ MaximumTicketAttempts \in Nat \ {0} /\ MaxSamples \in Nat

VARIABLES
    stage,      \* how far the pack is
    parts,      \* the continuation the caller holds: plan and samples used
    unplanned,  \* samples consumed before there was a plan
    builder,    \* the server's builder after the same samples
    feed        \* where the caller's samples come from

vars == <<stage, parts, unplanned, builder, feed>>

Stage == {"unplanned", "refused", "planned", "building", "complete", "failed"}
NoParts == <<>>

Init ==
    /\ stage = "unplanned"
    /\ parts = NoParts
    /\ unplanned = 0
    /\ builder = FreshBuilder
    /\ feed \in FreshSources \cup {AnySource}

-----------------------------------------------------------------------------
\* What the next calls may be given.  The holder of a source has one sample.
Generated == <<SampleFrom(feed)>>
OfferedBatches == IF feed = AnySource THEN Batches ELSE {Generated}
OfferedCalls == IF feed = AnySource THEN Calls ELSE {<<Generated>>}
SpendSample ==
    feed' = IF feed = AnySource THEN feed ELSE After(feed)

Spent == unplanned + IF parts = NoParts THEN 0 ELSE parts.samples
MaySample == feed # AnySource \/ Spent < MaxSamples

\* The builder, given the samples of one call that the construction consumed.
Replay(samples) ==
    LET after[i \in 0..Len(samples)] == IF i = 0 THEN builder ELSE Take(after[i-1], samples[i])
    IN  after[Len(samples)]

-----------------------------------------------------------------------------
(* Planning.  The samples of a batch up to the reported count are spent.   *)

\* Mutant: a refused layout leaves its plan with the caller.
Planned_anyway(result, samples) ==
    /\ stage = "unplanned" /\ MaySample
    /\ unplanned' = unplanned + result.consumed
    /\ builder' = Replay(SubSeq(samples, 1, result.consumed))
    /\ SpendSample
    /\ CASE result.state = "selected" ->
                /\ stage' = "planned"
                /\ parts' = [plan |-> result.plan, samples |-> 0]
         [] result.state = "failed" ->
                /\ stage' = "refused"
                /\ parts' = [plan |-> FreshPlan(result.layout), samples |-> 0]
         [] OTHER -> UNCHANGED <<stage, parts>>

Planned(result, samples) ==
    /\ stage = "unplanned" /\ MaySample
    /\ unplanned' = unplanned + result.consumed
    /\ builder' = Replay(SubSeq(samples, 1, result.consumed))
    /\ SpendSample
    /\ CASE result.state = "selected" ->
                /\ stage' = "planned"
                /\ parts' = [plan |-> result.plan, samples |-> 0]
         [] result.state = "failed" -> stage' = "refused" /\ UNCHANGED parts
         [] OTHER -> UNCHANGED <<stage, parts>>

InitializeWithBatch == \E batch \in OfferedBatches : Planned(InitializeFromBatch(batch), batch)

InitializeWithOneSample ==
    \E batch \in OfferedBatches :
        Len(batch) = 1 /\ Planned(InitializeFromOneSample(batch[1]), batch)

-----------------------------------------------------------------------------
(* Construction.  Batches are taken in order, one position at most from    *)
(* each, until the pack is complete or the batches are used up.            *)

\* c is the state of the loop: the parts, whether it goes on, and the samples
\* this call has consumed.
Step(c, batch) ==
    LET transition == TransitionCurrentPosition(c.parts.plan, batch)
        counted == [c EXCEPT !.parts.samples = @ + transition.consumed,
                             !.consumed = @ \o SubSeq(batch, 1, transition.consumed)]
    IN  IF c.state # "needs-samples" THEN c
        ELSE IF transition.state = "failed" THEN [c EXCEPT !.state = "failed"]
        ELSE IF transition.state = "needs-sample" THEN counted
        ELSE [counted EXCEPT !.parts.plan = transition.plan,
                             !.state = IF transition.plan.next = PositionCount
                                       THEN "complete" ELSE "needs-samples"]

Compose(batches) ==
    LET loop[i \in 0..Len(batches)] ==
            IF i = 0 THEN [state |-> "needs-samples", parts |-> parts, consumed |-> <<>>]
            ELSE Step(loop[i-1], batches[i])
    IN  loop[Len(batches)]

\* A call that throws leaves the caller with the continuation it had.
Composed(result) ==
    /\ stage' = CASE result.state = "needs-samples" -> "building"
                  [] OTHER -> result.state
    /\ parts' = IF result.state = "failed" THEN parts ELSE result.parts
    /\ builder' = IF result.state = "failed" THEN builder ELSE Replay(result.consumed)
    /\ SpendSample
    /\ UNCHANGED unplanned

Construct ==
    /\ stage = "planned" /\ MaySample /\ parts.plan.next = 0
    /\ \E batches \in OfferedCalls : Composed(Compose(batches))

Continue ==
    /\ stage = "building" /\ MaySample
    /\ \E batches \in OfferedCalls : Composed(Compose(batches))

Next == InitializeWithBatch \/ InitializeWithOneSample \/ Construct \/ Continue

\* The holder of a replayable source spends samples until the pack is decided;
\* an arbitrary caller may stop for good.
SeededCallerGoesOn ==
    feed # AnySource /\ stage \in {"unplanned", "planned", "building"} /\ SpendSample

Spec == Init /\ [][Next]_vars /\ WF_feed(SeededCallerGoesOn)

-----------------------------------------------------------------------------
DrawState == IF parts = NoParts THEN FreshDrawState ELSE parts.plan.pools

TypeOK ==
    /\ stage \in Stage
    /\ feed \in Sources \cup {AnySource}
    /\ unplanned \in Nat
    /\ builder.layout \in DOMAIN Layouts \cup {NoLayout}
    /\ ToSet(builder.cards) \subseteq Identities
    /\ parts = NoParts <=> stage \in {"unplanned", "refused"}
    /\ parts # NoParts =>
        /\ parts.plan.layout \in DOMAIN Layouts
        /\ parts.plan.next \in 0..PositionCount
        /\ parts.samples \in Nat

\* Every identity still in a pool is drawn by a number of samples that is its
\* weight times a number common to the pool: the rejection tail, the remainder
\* and the bisection over ends recomputed after each removal together favour
\* nobody (unbiased-uint32-ticket.ts, pack-local-pool-draw-state.ts).
UnbiasedDraws ==
    \A p \in Pools : \A c \in ToSet(DrawState[p]) :
        Cardinality({s \in Sample : SelectFromPool(DrawState, p, s)
                                        = [state |-> "selected", identity |-> c.key]})
            = c.weight * (SampleEnd \div TotalWeight(DrawState[p]))

\* The server's copy makes the same pack of the same samples, however these
\* were cut into batches and calls: same layout, same identities in the same
\* positions, and as many samples as the construction counted, unless it gave
\* up at its cap on attempts, which the construction does not have (packs.ts:8
\* "The two copies are deliberate for now").
CopiesAgree ==
    LET gaveUp == builder.attempts = MaximumTicketAttempts
    IN  parts # NoParts =>
        /\ builder.layout \in {parts.plan.layout} \cup IF gaveUp THEN {NoLayout} ELSE {}
        /\ IsPrefix(builder.cards, [i \in DOMAIN parts.plan.history |-> parts.plan.history[i].identity])
        /\ ~gaveUp => /\ Len(builder.cards) = parts.plan.next
                      /\ builder.drawn = Spent
                      /\ PackComplete(builder) <=> stage = "complete"

\* No pool gives the same identity twice within a pack, in either copy; two
\* pools may.
WithoutReplacement ==
    /\ parts # NoParts =>
        \A i, j \in DOMAIN parts.plan.history :
            parts.plan.history[i] = parts.plan.history[j] => i = j
    /\ \A i, j \in DOMAIN builder.cards :
        /\ builder.cards[i] = builder.cards[j]
        /\ Slots(builder.layout)[i] = Slots(builder.layout)[j]
        => i = j

\* What is checked when a plan is registered is enough: no check of a later
\* position, and no empty pool, stops a pack that has been planned; and the
\* server, which registers nothing and finds out while it deals, stops only at
\* its cap on attempts.  (Of a refused layout it is given no more samples.)
PlannedPacksNeverFail ==
    /\ stage # "failed"
    /\ builder.thrown => builder.attempts = MaximumTicketAttempts

\* The one-sample variants decide as the batch transition does on a batch of
\* that sample, and on an untouched pool as the compiled tables do, which have
\* a bisection of their own.
SingleSamplesAgree ==
    stage \in {"planned", "building"} =>
        \A s \in Sample :
            LET pool == CurrentPool(parts.plan)
                single == DrawFromPool(parts.plan.pools, pool, s)
                batched == TransitionCurrentPosition(parts.plan, <<s>>)
            IN  /\ single.state = "retry" <=> batched.state = "needs-sample"
                /\ single.state = "selected" =>
                    /\ batched.identity = single.identity
                    /\ batched.plan.pools = single.pools
                    /\ SelectedFrom(parts.plan.history, pool) = {} =>
                        SelectFromTable(pool, s).identity = single.identity

\* A replayable source always leads to a decision: retries are not capped, so
\* this rests on the source reaching an accepted sample for every bound the
\* pack comes to (deterministic-uint32-source.ts:139-141).
SeededPacksFinish == feed # AnySource ~> stage \in {"complete", "refused"}

=============================================================================
