------------------------------- MODULE Recipe -------------------------------
(***************************************************************************)
(* From the text of the set recipe to the tables packs are collated from,  *)
(* packages/set-omens/src: the pinned aggregates of cards, pools and       *)
(* layouts, the references between them, the reconciliation of cards with  *)
(* official identities, the classification of those, and the resolution of *)
(* pools and layouts that the weight tables are compiled from.             *)
(*                                                                         *)
(* Each stage is its own file, throws on the first fault and repeats in    *)
(* its own terms much of what earlier stages have established.  The        *)
(* opaque capabilities that tie a stage to the results of the one before   *)
(* it are left out: a stage here is applied to those results.  The numbers *)
(* pinned to the reviewed set are constants.                               *)
(***************************************************************************)
EXTENDS RecipeLines

CONSTANTS
    CardTotals,         \* how many cards of each rarity label
    PoolAggregates,     \* PoolAggregates[name]: <<entries, total weight>>
    LayoutCount,        \* 228, in groups of six
    LayoutTotal,        \* the weight of all layouts, 460800
    DerivedTotals,      \* DerivedTotals[o]: the weight of the layouts with outcome o
    OfficialTotals      \* the sizes of the parts of the official list

\* Layouts come in groups of six (layouts.ts:116-121).
GroupSize == 6
ASSUME LayoutCountAssumption == LayoutCount \in Nat \ {0} /\ LayoutCount % GroupSize = 0

CommonPools == {"Wizard", "Illusionist", "Runeblade", "Lightning", "Generic", "Equipment"}
NormalPools == CommonPools \cup {"Rare", "Majestic"}
RainbowPools == {"Rfcommon", "RFRare", "RFMajestic"}
PinnedPools == NormalPools \cup RainbowPools

\* The pools with an aggregate are the pinned ones.
ASSUME PoolAggregatesAssumption == DOMAIN PoolAggregates = PinnedPools

\* Pools speak of Flesh and Blood rarities, cards carry the recipe's labels.
PoolRarity ==
    [p \in PinnedPools |-> CASE p \in {"Rare", "RFRare"} -> "rare"
                             [] p \in {"Majestic", "RFMajestic"} -> "majestic"
                             [] OTHER -> "common"]
FabRarities == {"common", "rare", "majestic"}
FabRarity == [common |-> "common", rare |-> "rare", mythic |-> "majestic"]

\* The weights of a group's layouts by their outcome, up to a common factor.
Coefficient ==
    [o \in {"Rare", "Majestic"} \X RainbowPools |->
        CASE o = <<"Rare", "Rfcommon">> -> 1411
          [] o = <<"Rare", "RFRare">> -> 255
          [] o = <<"Rare", "RFMajestic">> -> 34
          [] o = <<"Majestic", "Rfcommon">> -> 581
          [] o = <<"Majestic", "RFRare">> -> 105
          [] o = <<"Majestic", "RFMajestic">> -> 14]

-----------------------------------------------------------------------------
(* Layouts on their own.                                                   *)

GreatestCommonDivisor[pair \in Nat \X Nat] ==
    IF pair[2] = 0 THEN pair[1] ELSE GreatestCommonDivisor[<<pair[2], pair[1] % pair[2]>>]

CommonDivisor(layouts) ==
    LET divisor[i \in 0..Len(layouts)] ==
            IF i = 0 THEN 0 ELSE GreatestCommonDivisor[<<divisor[i-1], layouts[i].weight>>]
    IN  divisor[Len(layouts)]

Visible(layout, pools) ==
    Total([i \in DOMAIN layout.slots |->
            IF layout.slots[i].pool \in pools THEN layout.slots[i].count ELSE 0])

SlotsWith(layout, pools) ==
    Kept(layout.slots, {i \in DOMAIN layout.slots : layout.slots[i].pool \in pools})
RainbowSlots(layout) == SlotsWith(layout, RainbowPools)
CommonStructure(layout) == SlotsWith(layout, CommonPools)

\* Eleven commons, one of them equipment, one rainbow foil in a slot of its
\* own, a rare, and another rare or a majestic.
HasOutcome(layout) ==
    /\ \A slot \in ToSet(layout.slots) : slot.pool \in PinnedPools
    /\ Len(RainbowSlots(layout)) = 1 /\ RainbowSlots(layout)[1].count = 1
    /\ Visible(layout, CommonPools) = 11 /\ Visible(layout, {"Equipment"}) = 1
    /\ <<Visible(layout, {"Rare"}), Visible(layout, {"Majestic"})>> \in {<<2, 0>>, <<1, 1>>}

OutcomeOf(layout) ==
    << IF Visible(layout, {"Rare"}) = 2 THEN "Rare" ELSE "Majestic",
       Last(RainbowSlots(layout)).pool >>

\* Mutant: the layouts of a group may differ in their commons.
AcceptsGroup_anyCommons(group) ==
    /\ \A i \in DOMAIN group :
        /\ HasOutcome(group[i])
        /\ group[i].weight = CommonDivisor(group) * Coefficient[OutcomeOf(group[i])]
    /\ {OutcomeOf(l) : l \in ToSet(group)} = DOMAIN Coefficient

\* One layout for each outcome, in the pinned ratio, all with the same commons.
AcceptsGroup(group) ==
    /\ \A i \in DOMAIN group :
        /\ HasOutcome(group[i])
        /\ group[i].weight = CommonDivisor(group) * Coefficient[OutcomeOf(group[i])]
        /\ CommonStructure(group[i]) = CommonStructure(group[1])
    /\ {OutcomeOf(l) : l \in ToSet(group)} = DOMAIN Coefficient

GroupsOf(layouts) ==
    [g \in 1..(Len(layouts) \div GroupSize) |->
        SubSeq(layouts, GroupSize * (g - 1) + 1, GroupSize * g)]

DerivedWeight(layouts, o) ==
    Total([i \in DOMAIN layouts |->
        IF \E k \in 1..2 : OutcomeOf(layouts[i])[k] = o THEN layouts[i].weight ELSE 0])

AgreesWithDerived(layouts) ==
    \A o \in DOMAIN DerivedTotals : DerivedWeight(layouts, o) = DerivedTotals[o]

AcceptsLayouts(layouts) ==
    /\ Len(layouts) = LayoutCount
    /\ \A g \in DOMAIN GroupsOf(layouts) : AcceptsGroup(GroupsOf(layouts)[g])
    /\ Total([i \in DOMAIN layouts |-> layouts[i].weight]) = LayoutTotal
    /\ AgreesWithDerived(layouts)

-----------------------------------------------------------------------------
(* Cards and pools on their own, and the references between the three.     *)

AcceptsCards(cards) ==
    \A label \in DOMAIN FabRarity :
        Cardinality({i \in DOMAIN cards : cards[i].rarity = label}) = CardTotals[label]

PoolTotal(pool) == Total([i \in DOMAIN pool.entries |-> pool.entries[i].weight])

AcceptsPools(pools) ==
    /\ Len(pools) = Cardinality(DOMAIN PoolAggregates)
    /\ Distinct([i \in DOMAIN pools |-> pools[i].name])
    /\ \A pool \in ToSet(pools) :
        /\ pool.name \in DOMAIN PoolAggregates
        /\ <<Len(pool.entries), PoolTotal(pool)>> = PoolAggregates[pool.name]

\* The entries of the pools of these names, as <<pool, entry>>.
EntriesOf(pools, names) ==
    UNION {{<<p, e>> : e \in DOMAIN pools[p].entries} :
            p \in {q \in DOMAIN pools : pools[q].name \in names}}
CardAt(pools, at) == pools[at[1]].entries[at[2]].card

OwnedOnce(pools, name) ==
    Cardinality({at \in EntriesOf(pools, NormalPools) : CardAt(pools, at) = name}) = 1

\* Mutant: a pool that no layout names.
AcceptsReferences_unusedPools(recipe) ==
    LET names == {p.name : p \in ToSet(recipe.pools)}
        used == UNION {{s.pool : s \in ToSet(l.slots)} : l \in ToSet(recipe.layouts)}
        pinned == Len(recipe.pools) = Cardinality(PinnedPools) /\ names \subseteq PinnedPools
    IN  /\ Distinct([i \in DOMAIN recipe.pools |-> recipe.pools[i].name])
        /\ Distinct([i \in DOMAIN recipe.cards |-> recipe.cards[i].name])
        /\ used \subseteq names
        /\ \A pool \in ToSet(recipe.pools) : \A e \in ToSet(pool.entries) :
            \E card \in ToSet(recipe.cards) :
                /\ card.name = e.card
                /\ pinned => FabRarity[card.rarity] = PoolRarity[pool.name]
        /\ pinned => \A card \in ToSet(recipe.cards) : OwnedOnce(recipe.pools, card.name)

AcceptsReferences(recipe) ==
    LET names == {p.name : p \in ToSet(recipe.pools)}
        used == UNION {{s.pool : s \in ToSet(l.slots)} : l \in ToSet(recipe.layouts)}
        pinned == Len(recipe.pools) = Cardinality(PinnedPools) /\ names \subseteq PinnedPools
    IN  /\ Distinct([i \in DOMAIN recipe.pools |-> recipe.pools[i].name])
        /\ Distinct([i \in DOMAIN recipe.cards |-> recipe.cards[i].name])
        /\ used \subseteq names
        /\ \A pool \in ToSet(recipe.pools) : \A e \in ToSet(pool.entries) :
            \E card \in ToSet(recipe.cards) :
                /\ card.name = e.card
                /\ pinned => FabRarity[card.rarity] = PoolRarity[pool.name]
        /\ pinned => /\ PinnedPools \subseteq used
                     /\ \A card \in ToSet(recipe.cards) : OwnedOnce(recipe.pools, card.name)

\* What reading the verified recipe demands altogether.
Accepts(recipe) ==
    /\ AcceptsCards(recipe.cards)
    /\ AcceptsPools(recipe.pools)
    /\ AcceptsLayouts(recipe.layouts)
    /\ AcceptsReferences(recipe)

-----------------------------------------------------------------------------
(* The official list.  A record has its print, the collector base of that  *)
(* print, the card, a set marker, a suffix and the name a recipe would     *)
(* give the card, which is the official one with its pitch's colour.       *)

SetMarkers == {"OMN", "IAR"}
SuffixMarkers == {"none", "RF", "CF", "MV"}

IsCandidate(record) == record.suffix = "none" /\ record.marker = "OMN"
MatchesOf(official, card) == {i \in DOMAIN official : official[i].base = card.number}

\* Mutant: the collector number alone decides.
IsIdentityOf_byNumber(record, card) == IsCandidate(record) /\ record.print = record.base

IsIdentityOf(record, card) ==
    IsCandidate(record) /\ record.print = record.base /\ record.name = card.name

\* Cards without an identity are passed over here and show in the totals.
MappedPairs(cards, official) ==
    {pair \in (DOMAIN cards) \X (DOMAIN official) :
        /\ pair[2] \in MatchesOf(official, cards[pair[1]])
        /\ IsIdentityOf(official[pair[2]], cards[pair[1]])}

NumberWith(official, records, part) ==
    Cardinality({i \in records : part \in {official[i].marker, official[i].suffix}})

Reconcile(cards, official) ==
    LET candidates == {i \in DOMAIN official : IsCandidate(official[i])}
        pairs == MappedPairs(cards, official)
        owned == {pair[2] : pair \in pairs}
        rest == DOMAIN official \ owned
    IN  IF /\ Cardinality(candidates) = OfficialTotals.candidates
           /\ Cardinality({official[i].name : i \in candidates}) = Cardinality(candidates)
           /\ \A card \in ToSet(cards) : Cardinality(MatchesOf(official, card)) <= 1
           /\ Cardinality(owned) = Cardinality(pairs)
           /\ Len(cards) = OfficialTotals.cards
           /\ Len(official) = OfficialTotals.official
           /\ Cardinality(pairs) = OfficialTotals.cards
           /\ \A part \in SetMarkers \cup SuffixMarkers :
                NumberWith(official, rest, part) = OfficialTotals.unmapped[part]
           /\ Cardinality({official[i].print : i \in DOMAIN official}) = Len(official)
        THEN [mapped |-> {[card |-> cards[pair[1]], record |-> official[pair[2]]] : pair \in pairs},
              unmapped |-> {official[i] : i \in rest}]
        ELSE Refused

\* Another official list may come with the identities: every record of it must
\* be one of theirs, and by the same markings.
EligibilityOf(identities, record) ==
    IF record.print \in {m.record.print : m \in identities.mapped} THEN "draftable"
    ELSE IF record.marker = "IAR" THEN "excluded" ELSE "unclassified"

SameAs(known, record) ==
    /\ known.print = record.print /\ known.base = record.base
    /\ known.marker = record.marker /\ known.suffix = record.suffix

Classify(identities, official) ==
    LET records == ToSet(official)
        mapped == {m.record : m \in identities.mapped}
        Unclassified == {i \in DOMAIN official :
                            EligibilityOf(identities, official[i]) = "unclassified"}
    IN  IF /\ \A i, j \in DOMAIN official : i # j =>
                /\ official[i].print # official[j].print
                /\ official[i].base # official[j].base
                /\ official[i].card # official[j].card
           /\ \A known \in mapped : \E record \in records :
                SameAs(known, record) /\ known.card = record.card /\ IsCandidate(record)
           /\ \A known \in identities.unmapped : \E record \in records : SameAs(known, record)
           /\ Cardinality(mapped) + Cardinality(identities.unmapped) = Len(official)
           /\ Len(official) = OfficialTotals.official
           /\ Cardinality(mapped) = OfficialTotals.cards
           /\ Cardinality(Unclassified) = OfficialTotals.unmapped["OMN"]
           /\ \A suffix \in SuffixMarkers :
                NumberWith(official, Unclassified, suffix) = OfficialTotals.unclassified[suffix]
        THEN {[print |-> r.print, base |-> r.base, card |-> r.card,
               eligibility |-> EligibilityOf(identities, r)] : r \in records}
        ELSE Refused

-----------------------------------------------------------------------------
(* Resolution: what the weight tables are compiled from.                   *)

\* The facts an entry is resolved through: its card by name, the card's
\* identity by collector number, and the identity's classification by print.
IsFact(recipe, name, m, fact) ==
    /\ \E card \in ToSet(recipe.cards) : card.name = name /\ card = m.card
    /\ m.record.print = fact.print /\ m.record.base = fact.base
    /\ m.record.card = fact.card /\ fact.eligibility = "draftable"

FactsOf(recipe, identities, eligibility, name) ==
    {pair \in identities.mapped \X eligibility : IsFact(recipe, name, pair[1], pair[2])}

ResolvedEntry(recipe, identities, eligibility, entry) ==
    LET fact == (CHOOSE f \in FactsOf(recipe, identities, eligibility, entry.card) : TRUE)[2]
    IN  [weight |-> entry.weight, key |-> fact.card, base |-> fact.base]

\* The collector number an entry of the recipe's pools stands for.
NumberAt(recipe, at) ==
    (CHOOSE c \in ToSet(recipe.cards) : c.name = CardAt(recipe.pools, at)).number

PoolsResolve(recipe, identities, eligibility) ==
    LET numbers == {m.card.number : m \in identities.mapped}
        normal == EntriesOf(recipe.pools, NormalPools)
    IN  /\ \A m, n \in identities.mapped : m # n =>
            /\ m.card.number # n.card.number
            /\ m.record.base # n.record.base /\ m.record.card # n.record.card
        /\ \A m \in identities.mapped : m.record.print = m.record.base
        /\ \A pool \in ToSet(recipe.pools) :
            /\ pool.name \in PinnedPools /\ pool.entries # <<>>
            /\ \A e \in ToSet(pool.entries) :
                e.weight > 0 /\ FactsOf(recipe, identities, eligibility, e.card) # {}
        /\ \A number \in numbers : Cardinality({at \in normal : NumberAt(recipe, at) = number}) = 1
        /\ {NumberAt(recipe, at) : at \in normal} = numbers

ResolvedPool(recipe, identities, eligibility, pool) ==
    [name |-> pool.name,
     rarity |-> PoolRarity[pool.name],
     category |-> IF pool.name \in RainbowPools THEN "rainbow-foil" ELSE "normal",
     entries |-> [e \in DOMAIN pool.entries |->
        ResolvedEntry(recipe, identities, eligibility, pool.entries[e])]]

ResolvedPools(recipe, identities, eligibility) ==
    [p \in DOMAIN recipe.pools |-> ResolvedPool(recipe, identities, eligibility, recipe.pools[p])]

\* A slot of several cards is as many positions; roles follow from what the
\* pool of a position holds.
PositionsOf(layout) ==
    FlattenSeq([i \in DOMAIN layout.slots |->
        [k \in 1..layout.slots[i].count |-> layout.slots[i].pool]])

PoolNamed(pools, name) == CHOOSE pool \in ToSet(pools) : pool.name = name
Holds(pools, name, category, rarities) ==
    PoolNamed(pools, name).category = category /\ PoolNamed(pools, name).rarity \in rarities
Holding(pools, positions, category, rarities) ==
    {i \in DOMAIN positions : Holds(pools, positions[i], category, rarities)}

RoleAt(pools, positions, i) ==
    LET rares == Holding(pools, positions, "normal", {"rare"})
    IN  CASE Holds(pools, positions[i], "rainbow-foil", FabRarities) -> "rainbow-foil"
          [] Holds(pools, positions[i], "normal", {"common"}) -> "common-rarity"
          [] i \in rares /\ i = First(rares) -> "fixed-rare"
          [] OTHER -> "rare-or-majestic"

Resolves(pools, layout) ==
    LET positions == PositionsOf(layout)
        Count(category, rarities) == Cardinality(Holding(pools, positions, category, rarities))
    IN  /\ layout.weight > 0 /\ \A s \in ToSet(layout.slots) : s.count > 0
        /\ Len(positions) = VisibleCardTotal
        /\ Count("normal", {"common"}) = 11
        /\ Count("rainbow-foil", FabRarities) = 1
        /\ <<Count("normal", {"rare"}), Count("normal", {"majestic"})>> \in {<<2, 0>>, <<1, 1>>}

WithMajestic(pools, layouts) ==
    {l \in DOMAIN layouts : Holding(pools, PositionsOf(layouts[l]), "normal", {"majestic"}) # {}}

LayoutsResolve(layouts, pools) ==
    /\ Distinct([p \in DOMAIN pools |-> pools[p].name])
    /\ Distinct([l \in DOMAIN layouts |-> layouts[l].id])
    /\ UNION {ToSet(PositionsOf(l)) : l \in ToSet(layouts)} = {pool.name : pool \in ToSet(pools)}
    /\ \A layout \in ToSet(layouts) : Resolves(pools, layout)
    /\ Len(layouts) = LayoutCount =>
        2 * Cardinality(WithMajestic(pools, layouts)) = LayoutCount

ResolvedLayout(pools, layout) ==
    LET positions == PositionsOf(layout)
    IN  [weight |-> layout.weight, slots |-> positions,
         roles |-> [i \in DOMAIN positions |-> RoleAt(pools, positions, i)]]

ResolvedLayouts(layouts, pools) == [l \in DOMAIN layouts |-> ResolvedLayout(pools, layouts[l])]

=============================================================================
