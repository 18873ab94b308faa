--------------------------- MODULE SetCompilation ---------------------------
(***************************************************************************)
(* How the set gets from texts to tables, packages/set-omens/src: the      *)
(* stages of Recipe one after the other, each on what the one before gave, *)
(* until one of them throws or the tables packs are opened from exist, or  *)
(* the snapshot that the server deals from.                                *)
(*                                                                         *)
(* The official list is passed to the reconciliation and again to the      *)
(* classification, which need not be given the same one.                   *)
(***************************************************************************)
EXTENDS SetSnapshot

CONSTANTS
    Texts,              \* any texts,
    Recipes,            \* recipes that may have been written down, and
    Officials           \* official lists

ASSUME TextsAssumption == \A lines \in Texts : IsText(lines)
ASSUME RecipesAssumption == \A r \in Recipes : IsRecipe(r)
ASSUME OfficialsAssumption == \A official \in Officials : Listing(official)
\* A stage that throws gives nothing that could be taken for a recipe's part.
ASSUME RefusedAssumption == \A r \in Recipes : Refused \notin {r, r.cards, r.layouts, r.pools}

VARIABLES
    phase,          \* the stage that comes next, or how it ended
    written,        \* the recipe the text was written from, if from one
    text,           \* the text of the recipe
    recipe,         \* what reading made of it
    identities,     \* what reconciling its cards with an official list gave
    eligibility,    \* what classifying an official list gave
    pools,          \* the resolved pools
    snapshot        \* the generated snapshot

reading == <<phase, written, text, recipe, identities, eligibility, pools, snapshot>>
Results == <<recipe, identities, eligibility, pools>>

Phase == {"read", "verify", "reconcile", "classify", "resolve pools", "resolve layouts",
          "refused", "unresolved", "compiled", "generated"}

ReadingInit ==
    /\ phase = "read"
    /\ \/ written \in {r \in Recipes : Printable(r)} /\ text = Printed(written)
       \/ written = Refused /\ text \in Texts
    /\ recipe = Refused /\ identities = Refused /\ eligibility = Refused /\ pools = Refused
    /\ snapshot = Refused

-----------------------------------------------------------------------------
ReadText ==
    /\ phase = "read"
    /\ recipe' = ReadRecipe(text)
    /\ phase' = IF recipe' = Refused THEN "refused" ELSE "verify"
    /\ UNCHANGED <<written, text, identities, eligibility, pools, snapshot>>

VerifyRecipe ==
    /\ phase = "verify"
    /\ phase' = IF Accepts(recipe) THEN "reconcile" ELSE "refused"
    /\ UNCHANGED <<written, text, Results, snapshot>>

ReconcileIdentities ==
    /\ phase = "reconcile"
    /\ \E official \in Officials : identities' = Reconcile(recipe.cards, official)
    /\ phase' = IF identities' = Refused THEN "refused" ELSE "classify"
    /\ UNCHANGED <<written, text, recipe, eligibility, pools, snapshot>>

ClassifyOfficial ==
    /\ phase = "classify"
    /\ \E official \in Officials : eligibility' = Classify(identities, official)
    /\ phase' = IF eligibility' = Refused THEN "refused" ELSE "resolve pools"
    /\ UNCHANGED <<written, text, recipe, identities, pools, snapshot>>

ResolveRecipePools ==
    /\ phase = "resolve pools"
    /\ IF PoolsResolve(recipe, identities, eligibility)
       THEN pools' = ResolvedPools(recipe, identities, eligibility) /\ phase' = "resolve layouts"
       ELSE pools' = Refused /\ phase' = "unresolved"
    /\ UNCHANGED <<written, text, recipe, identities, eligibility, snapshot>>

\* The tables are compiled of these and the rest is dropped.
ResolveRecipeLayouts ==
    /\ phase = "resolve layouts"
    /\ IF LayoutsResolve(recipe.layouts, pools)
       THEN /\ phase' = "compiled"
            /\ written' = Refused /\ text' = <<>>
            /\ recipe' = Refused /\ identities' = Refused
            /\ eligibility' = Refused /\ pools' = Refused
       ELSE phase' = "unresolved" /\ UNCHANGED <<written, text, Results>>
    /\ UNCHANGED snapshot

\* The other use of the resolution, by the script that writes the snapshot.
GenerateSnapshot ==
    /\ phase = "resolve layouts"
    /\ \E official \in Officials :
        LET rarities == ReconcileRarities(identities, official)
        IN  snapshot' = IF LayoutsResolve(recipe.layouts, pools) /\ rarities # Refused
                        THEN SnapshotOf(pools, ResolvedLayouts(recipe.layouts, pools), rarities)
                        ELSE Refused
    /\ phase' = IF snapshot' = Refused THEN "refused" ELSE "generated"
    /\ UNCHANGED <<written, text, Results>>

ReadingNext ==
    \/ ReadText \/ VerifyRecipe \/ ReconcileIdentities
    \/ ClassifyOfficial \/ ResolveRecipePools \/ ResolveRecipeLayouts
    \/ GenerateSnapshot

ReadingSpec == ReadingInit /\ [][ReadingNext]_reading

-----------------------------------------------------------------------------
\* Each reader takes exactly the texts a recipe can be written as, and gives
\* that recipe: nothing is lost at the end of a section, where the code repeats
\* by hand what it does at a heading (layouts.ts:234, :249, pools.ts:245).
RecipeReadsBack ==
    /\ phase \in Phase \ {"read", "compiled"} /\ written # Refused => recipe = written
    /\ phase = "verify" => Printable(recipe) /\ Printed(recipe) = text

WeightWith(layouts, commons, outcomes) ==
    Total([i \in DOMAIN layouts |->
        IF CommonStructure(layouts[i]) = commons /\ OutcomeOf(layouts[i]) \in outcomes
        THEN layouts[i].weight ELSE 0])

HasRulesOdds(layouts, commons) ==
    LET Weight(outcomes) == WeightWith(layouts, commons, outcomes)
        chance == [Rfcommon |-> 83, RFRare |-> 15, RFMajestic |-> 2]
    IN  /\ 24 * Weight({"Rare"} \X RainbowPools) = 17 * Weight(DOMAIN Coefficient)
        /\ \A rainbow \in RainbowPools, second \in {"Rare", "Majestic"} :
            100 * Weight({<<second, rainbow>>})
                = chance[rainbow] * Weight({second} \X RainbowPools)

\* In a verified recipe the odds the rules document derives hold for every set
\* of commons, exactly and independently of each other: 17 in 24 for a second
\* rare, 83, 15 and 2 in 100 for the three rainbow foils
\* (docs/rules-and-collation.md:105, :126).
RatiosFixTheOdds ==
    phase = "reconcile" =>
        \A layout \in ToSet(recipe.layouts) :
            HasRulesOdds(recipe.layouts, CommonStructure(layout))

\* A resolved layout fills the slots the rules name.
HasRulesSlots(resolved, layout) ==
    LET With(role) == Cardinality({i \in DOMAIN resolved.roles : resolved.roles[i] = role})
    IN  /\ With("common-rarity") = 11
        /\ With("fixed-rare") = 1 /\ With("rainbow-foil") = 1
        /\ "Majestic" \in ToSet(resolved.slots) <=> OutcomeOf(layout)[1] = "Majestic"

\* A recipe that reading accepts is never refused by the resolution behind it,
\* which counts by collector number and by rarity what the first stages counted
\* by name; and its packs have eleven commons, a fixed rare, a rare or majestic
\* as the layout's outcome says, and a rainbow foil (rules-and-collation.md:222).
AcceptedRecipesResolve ==
    /\ phase # "unresolved"
    /\ phase = "resolve layouts" =>
        /\ LayoutsResolve(recipe.layouts, pools)
        /\ \A layout \in ToSet(recipe.layouts) : HasRulesSlots(ResolvedLayout(pools, layout), layout)

\* What can be opened in a pack is what was classified as draftable, each card
\* once among the normal pools, and each entry is the official card of its
\* name (recipe-pool-identity-resolution.ts:82-105).
DraftablesAreDealt ==
    phase = "resolve layouts" =>
        LET at == EntriesOf(pools, NormalPools)
            KeyAt(pe) == pools[pe[1]].entries[pe[2]].key
        IN  /\ {KeyAt(pe) : pe \in at}
                    = {f.card : f \in {g \in eligibility : g.eligibility = "draftable"}}
            /\ \A a, b \in at : KeyAt(a) = KeyAt(b) => a = b
            /\ \A pe \in EntriesOf(pools, PinnedPools) :
                \E m \in identities.mapped :
                    m.record.name = CardAt(recipe.pools, pe) /\ m.record.card = KeyAt(pe)

\* The card a recipe's name stands for, with its collector number and rarity.
CardNamed(name) == CHOOSE card \in ToSet(recipe.cards) : card.name = name

\* Dealt by its places (apps/server/src/packs.ts:60-88), the snapshot gives
\* what the recipe says: each layout with its weight, and at each of its
\* positions the collector numbers and rarities of the cards in the pool that
\* the recipe names there, each with the weight the recipe gives it.
SnapshotDealsTheRecipe ==
    phase = "generated" =>
        \A l \in DOMAIN recipe.layouts :
            LET dealt == snapshot.layouts[l]
                positions == PositionsOf(recipe.layouts[l])
            IN  /\ dealt.weight = recipe.layouts[l].weight
                /\ \A i \in 1..VisibleCardTotal :
                    LET given == snapshot.pools[dealt.pools[i]].entries
                        entries == PoolNamed(recipe.pools, positions[i]).entries
                    IN  /\ Len(given) = Len(entries)
                        /\ \A e \in DOMAIN entries :
                            /\ given[e].weight = entries[e].weight
                            /\ snapshot.identities[given[e].identity] =
                                [id |-> CardNamed(entries[e].card).number,
                                 rarity |-> FabRarity[CardNamed(entries[e].card).rarity]]

=============================================================================
