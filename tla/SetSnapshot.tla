---------------------------- MODULE SetSnapshot -----------------------------
(***************************************************************************)
(* The snapshot of the set that servers and browsers deal from: how        *)
(* packages/set-omens/scripts/build-set-snapshot.mjs makes it of what the  *)
(* stages of Recipe resolved, and how src/set-snapshot.ts validates it,    *)
(* there and whenever the module that holds it is loaded.                  *)
(*                                                                         *)
(* A snapshot knows its cards, pools and layouts by their places in lists; *)
(* the code's indices count from 0, those here from 1.  Names, pitches,    *)
(* types and images, copied from the official record, are left out.        *)
(***************************************************************************)
EXTENDS Recipe

CONSTANTS
    RarityCodeTotals,   \* RarityCodeTotals[codes]: the mapped records printed with these
    AnomalousPrints,    \* the two prints of commons with a code of their own
    RainbowIdentities   \* how many cards appear as rainbow foils, 171

-----------------------------------------------------------------------------
(* Rarity correspondence: an official record has a rarity code for each of *)
(* its printings, in source order.                                         *)

CorrespondingCode == [common |-> "C", rare |-> "R", majestic |-> "M"]

CodesAgree(label, record) ==
    \/ ToSet(record.codes) = {CorrespondingCode[FabRarity[label]]}
    \/ FabRarity[label] = "common" /\ ToSet(record.codes) = {"C", "V"} /\ record.print \in AnomalousPrints

ReconcileRarities(identities, official) ==
    LET records == ToSet(official)
        Found(m) == {r \in records :
            r.print = m.record.print /\ r.base = m.record.base /\ r.card = m.record.card}
        pairs == {pair \in identities.mapped \X records : pair[2] \in Found(pair[1])}
        CodedBy(codes) == {pair \in pairs : pair[2].codes = codes}
    IN  IF /\ Cardinality(identities.mapped) = OfficialTotals.cards
           /\ \A i, j \in DOMAIN official : i # j =>
                /\ official[i].print # official[j].print
                /\ official[i].base # official[j].base
                /\ official[i].card # official[j].card
           /\ \A m \in identities.mapped : Found(m) # {}
           /\ Cardinality({pair[2] : pair \in pairs}) = Cardinality(pairs)
           /\ \A pair \in pairs : CodesAgree(pair[1].card.rarity, pair[2])
           /\ \A pair \in pairs : pair[2].codes \in DOMAIN RarityCodeTotals
           /\ \A codes \in DOMAIN RarityCodeTotals :
                Cardinality(CodedBy(codes)) = RarityCodeTotals[codes]
           /\ {pair[2].print : pair \in {p \in pairs : "V" \in ToSet(p[2].codes)}} = AnomalousPrints
        THEN {[print |-> pair[2].print, rarity |-> FabRarity[pair[1].card.rarity]] : pair \in pairs}
        ELSE Refused

-----------------------------------------------------------------------------
(* Validation, the only thing that stands between the file and the table.  *)

SlotRoles ==
    [i \in 1..11 |-> "common-rarity"] \o <<"fixed-rare", "rare-or-majestic", "rainbow-foil">>

SlotAgreesWithPool(role, pool) ==
    /\ role = "rainbow-foil" <=> pool.category = "rainbow-foil"
    /\ role = "common-rarity" => pool.rarity = "common"
    /\ role = "fixed-rare" => pool.rarity = "rare"

IdentitiesOf(pools) == UNION {{e.identity : e \in ToSet(pool.entries)} : pool \in pools}

AreIdentities(identities) ==
    /\ identities # <<>>
    /\ Distinct([i \in DOMAIN identities |-> identities[i].id])
    /\ \A identity \in ToSet(identities) : identity.rarity \in FabRarities

IsPool(pool, identities) ==
    /\ pool.rarity \in FabRarities /\ pool.category \in {"normal", "rainbow-foil"}
    /\ pool.entries # <<>>
    /\ Distinct([i \in DOMAIN pool.entries |-> pool.entries[i].identity])
    /\ \A e \in ToSet(pool.entries) : e.identity \in DOMAIN identities /\ e.weight > 0

IsLayout(layout, pools) ==
    /\ Len(layout.pools) = Len(SlotRoles) /\ layout.weight > 0
    /\ \A i \in DOMAIN layout.pools :
        /\ layout.pools[i] \in DOMAIN pools
        /\ SlotAgreesWithPool(SlotRoles[i], pools[layout.pools[i]])

ValidSnapshot(s) ==
    /\ AreIdentities(s.identities)
    /\ s.pools # <<>> /\ s.layouts # <<>>
    /\ Distinct([i \in DOMAIN s.pools |-> s.pools[i].label])
    /\ \A pool \in ToSet(s.pools) : IsPool(pool, s.identities)
    /\ \A layout \in ToSet(s.layouts) : IsLayout(layout, s.pools)
    /\ IdentitiesOf(ToSet(s.pools)) = DOMAIN s.identities

-----------------------------------------------------------------------------
(* Generation.                                                             *)

BasesOf(pools) == FlattenSeq([p \in DOMAIN pools |->
                        [e \in DOMAIN pools[p].entries |-> pools[p].entries[e].base]])

PlaceOf(s, x) == CHOOSE i \in DOMAIN s : s[i] = x

\* Mutant: entries are numbered in the order of the pools, cards are sorted.
SnapshotPools_unsorted(pools) ==
    LET ids == BasesOf(pools)
        Number(base) == Cardinality({ids[i] : i \in 1..PlaceOf(ids, base)})
    IN  [p \in DOMAIN pools |->
            [label |-> pools[p].name, rarity |-> pools[p].rarity, category |-> pools[p].category,
             entries |-> [e \in DOMAIN pools[p].entries |->
                [identity |-> Number(pools[p].entries[e].base), weight |-> pools[p].entries[e].weight]]]]

SortedBases(pools) == InOrder(ToSet(BasesOf(pools)))

SnapshotPools(pools) ==
    LET ids == SortedBases(pools)
    IN  [p \in DOMAIN pools |->
            [label |-> pools[p].name, rarity |-> pools[p].rarity, category |-> pools[p].category,
             entries |-> [e \in DOMAIN pools[p].entries |->
                [identity |-> PlaceOf(ids, pools[p].entries[e].base),
                 weight |-> pools[p].entries[e].weight]]]]

SnapshotLayouts(pools, layouts) ==
    LET labels == [p \in DOMAIN pools |-> pools[p].name]
    IN  [l \in DOMAIN layouts |->
            [weight |-> layouts[l].weight,
             pools |-> [i \in DOMAIN layouts[l].slots |-> PlaceOf(labels, layouts[l].slots[i])]]]

\* What the generator demands of a snapshot that is valid.
AcceptsSnapshot(s) ==
    LET Within(category) == {pool \in ToSet(s.pools) : pool.category = category}
        rainbow == IdentitiesOf(Within("rainbow-foil"))
    IN  /\ \A pool, other \in Within("normal") :
            pool # other => IdentitiesOf({pool}) \cap IdentitiesOf({other}) = {}
        /\ rainbow \subseteq IdentitiesOf(Within("normal"))
        /\ \A pool \in Within("normal") : \A i \in IdentitiesOf({pool}) :
            s.identities[i].rarity = pool.rarity
        /\ Len(s.identities) = OfficialTotals.cards
        /\ Cardinality(Within("normal")) = Cardinality(NormalPools)
        /\ Cardinality(Within("rainbow-foil")) = Cardinality(RainbowPools)
        /\ Cardinality(rainbow) = RainbowIdentities
        /\ Len(s.layouts) = LayoutCount
        /\ Total([l \in DOMAIN s.layouts |-> s.layouts[l].weight]) = LayoutTotal

SnapshotOf(pools, layouts, rarities) ==
    LET ids == SortedBases(pools)
        RarityOf(id) == (CHOOSE r \in rarities : r.print = id).rarity
        snapshot ==
            [identities |-> [i \in DOMAIN ids |-> [id |-> ids[i], rarity |-> RarityOf(ids[i])]],
             pools |-> SnapshotPools(pools),
             layouts |-> SnapshotLayouts(pools, layouts)]
    IN  IF /\ Len(ids) = OfficialTotals.cards
           /\ ToSet(ids) \subseteq {r.print : r \in rarities}
           /\ \A layout \in ToSet(layouts) : layout.roles = SlotRoles
           /\ ValidSnapshot(snapshot) /\ AcceptsSnapshot(snapshot)
        THEN snapshot
        ELSE Refused

=============================================================================
