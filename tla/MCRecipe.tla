------------------------------ MODULE MCRecipe ------------------------------
(* A small recipe in the shape of the real one, and what is one edit away. *)
EXTENDS SetCompilation

Card(name, rarity, number) == [name |-> name, rarity |-> rarity, number |-> number]
SomeCards ==
    << Card("w1", "common", 1), Card("w2", "common", 2), Card("i1", "common", 3),
       Card("u1", "common", 4), Card("l1", "common", 5), Card("g1", "common", 6),
       Card("e1", "common", 7), Card("r1", "rare", 8), Card("r2", "rare", 9),
       Card("m1", "mythic", 10) >>
MCCardTotals == [common |-> 7, rare |-> 2, mythic |-> 1]

Entry(weight, card) == [weight |-> weight, card |-> card]
Pool(name, entries) == [name |-> name, entries |-> entries]
SomePools ==
    << Pool("Wizard", <<Entry(2, "w1"), Entry(1, "w2")>>), Pool("Illusionist", <<Entry(2, "i1")>>),
       Pool("Runeblade", <<Entry(2, "u1")>>), Pool("Lightning", <<Entry(3, "l1")>>),
       Pool("Generic", <<Entry(1, "g1")>>), Pool("Equipment", <<Entry(4, "e1")>>),
       Pool("Rare", <<Entry(2, "r1"), Entry(2, "r2")>>), Pool("Majestic", <<Entry(2, "m1")>>),
       Pool("Rfcommon", <<Entry(1, "w1"), Entry(1, "e1")>>), Pool("RFRare", <<Entry(1, "r1")>>),
       Pool("RFMajestic", <<Entry(1, "m1")>>) >>
MCPoolAggregates ==
    [name \in PinnedPools |->
        LET pool == CHOOSE p \in ToSet(SomePools) : p.name = name
        IN  <<Len(pool.entries), PoolTotal(pool)>>]

\* Two groups of six layouts, with different commons and factors 1 and 2.
OutcomeOrder ==
    << <<"Rare", "Rfcommon">>, <<"Rare", "RFRare">>, <<"Rare", "RFMajestic">>,
       <<"Majestic", "Rfcommon">>, <<"Majestic", "RFRare">>, <<"Majestic", "RFMajestic">> >>
SomeLayout(id, factor, outcome, commons) ==
    [id |-> id, weight |-> factor * Coefficient[outcome],
     slots |-> commons
        \o (IF outcome[1] = "Rare" THEN <<[count |-> 2, pool |-> "Rare"]>>
            ELSE <<[count |-> 1, pool |-> "Rare"], [count |-> 1, pool |-> "Majestic"]>>)
        \o <<[count |-> 1, pool |-> outcome[2]]>>]
Commons(w, i, u, l, g) ==
    << [count |-> w, pool |-> "Wizard"], [count |-> i, pool |-> "Illusionist"],
       [count |-> u, pool |-> "Runeblade"], [count |-> l, pool |-> "Lightning"],
       [count |-> g, pool |-> "Generic"], [count |-> 1, pool |-> "Equipment"] >>
SomeLayouts ==
    [n \in 1..6 |-> SomeLayout(n, 1, OutcomeOrder[n], Commons(2, 2, 2, 2, 2))]
    \o [n \in 1..6 |-> SomeLayout(6 + n, 2, OutcomeOrder[7 - n], Commons(3, 1, 2, 3, 1))]
MCDerivedTotals ==
    [Rare |-> 5100, Majestic |-> 2100, Rfcommon |-> 5976, RFRare |-> 1080, RFMajestic |-> 144]

SomeRecipe == [cards |-> SomeCards, pools |-> SomePools, layouts |-> SomeLayouts]

-----------------------------------------------------------------------------
\* Edits of one slot (of three layouts), of a layout's weight, of two layouts, or of a pool's name
\* wherever layouts name it.
SlotEdits ==
    LET At == {<<l, s>> \in {1, 4, 12} \X (1..9) : s \in DOMAIN SomeLayouts[l].slots}
    IN  {[SomeLayouts EXCEPT ![a[1]].slots[a[2]].pool = p] : a \in At, p \in {"Wizard", "Rare", "Majestic", "RFRare"}}
        \cup {[SomeLayouts EXCEPT ![a[1]].slots[a[2]].count = @ + 1] : a \in At}
        \cup {[SomeLayouts EXCEPT ![a[1]].slots[a[2]].count = @ + 1, ![a[1]].slots[a[2]+1].count = @ - 1] :
                a \in {<<l, s>> \in {1, 4, 12} \X (1..3) : SomeLayouts[l].slots[s+1].count > 1}}
        \cup {[SomeLayouts EXCEPT ![l].slots = RemoveAt(@, 1)] : l \in {1, 4, 12}}
        \cup {[SomeLayouts EXCEPT ![l].slots = <<Last(@)>> \o Front(@)] : l \in {1, 4, 12}}
WeightEdits ==
    {[SomeLayouts EXCEPT ![l].weight = w] : l \in {1, 4, 12}, w \in {Coefficient[o] : o \in DOMAIN Coefficient}}
    \cup {[n \in 1..12 |-> [SomeLayouts[n] EXCEPT !.weight =
            IF n <= 6 THEN 2 * @ ELSE @ \div 2]]}
OrderEdits ==
    {[SomeLayouts EXCEPT ![k] = SomeLayouts[l], ![l] = SomeLayouts[k]] : k \in {1, 6, 9}, l \in 1..12}
    \cup {[SomeLayouts EXCEPT ![k].weight = SomeLayouts[l].weight, ![l].weight = SomeLayouts[k].weight] :
            k \in {1, 6, 9}, l \in 1..12}
Renamed(p, q) ==
    [n \in 1..12 |-> [SomeLayouts[n] EXCEPT !.slots =
        [s \in DOMAIN @ |-> IF @[s].pool = p THEN [@[s] EXCEPT !.pool = q] ELSE @[s]]]]
LayoutEdits ==
    SlotEdits \cup WeightEdits \cup OrderEdits
    \cup {Renamed(p, q) : p \in PinnedPools, q \in {"Generic", "Rare"}} \cup {Tail(SomeLayouts)}

\* Edits of one entry, of two entries exchanged, and of the list of pools.
EntryPlaces == EntriesOf(SomePools, PinnedPools)
PoolEdits ==
    {[SomePools EXCEPT ![a[1]].entries[a[2]].card = c] :
        a \in EntryPlaces, c \in {card.name : card \in ToSet(SomeCards)} \cup {"x1"}}
    \cup {[SomePools EXCEPT ![a[1]].entries[a[2]].card = CardAt(SomePools, b),
                            ![b[1]].entries[b[2]].card = CardAt(SomePools, a)] :
            a \in EntryPlaces, b \in EntriesOf(SomePools, {"Wizard", "Equipment", "Rare", "Rfcommon"})}
    \cup {[SomePools EXCEPT ![1].entries[1].weight = w] : w \in 1..3}
    \cup {[SomePools EXCEPT ![1].entries[1].weight = 1, ![1].entries[2].weight = 2]}
    \cup {Tail(SomePools), Reverse(SomePools), [SomePools EXCEPT ![1].name = "Lightning"]}

CardEdits ==
    {[SomeCards EXCEPT ![c].rarity = r] : c \in DOMAIN SomeCards, r \in DOMAIN FabRarity}
    \cup {[SomeCards EXCEPT ![c].name = "x1"] : c \in DOMAIN SomeCards}
    \cup {[SomeCards EXCEPT ![1].number = SomeCards[2].number, ![2].number = SomeCards[1].number]}
    \cup {[SomeCards EXCEPT ![1].rarity = "rare", ![8].rarity = "common"], Reverse(SomeCards)}

MCRecipes ==
    {[SomeRecipe EXCEPT !.layouts = l] : l \in LayoutEdits}
    \cup {[SomeRecipe EXCEPT !.pools = p] : p \in PoolEdits}
    \cup {[SomeRecipe EXCEPT !.cards = c] : c \in CardEdits}

-----------------------------------------------------------------------------
CodesPrinted(n) ==
    CASE n \in {3, 7} -> <<"C", "V">> [] n = 6 -> <<"C">> [] n \in {8, 9} -> <<"R", "R">>
      [] n = 10 -> <<"M", "M">> [] OTHER -> <<"C", "C">>
MCRarityCodeTotals ==
    [codes \in {<<"C", "C">>, <<"R", "R">>, <<"M", "M">>, <<"C">>, <<"C", "V">>, <<"R">>, <<"M">>} |->
        Cardinality({n \in 1..10 : CodesPrinted(n) = codes})]
Record(name, n, marker, suffix) ==
    [print |-> IF suffix = "none" THEN n ELSE 100 + n, base |-> n, card |-> <<n>>,
     marker |-> marker, suffix |-> suffix, name |-> name, codes |-> CodesPrinted(n)]
SomeOfficial ==
    [n \in 1..10 |-> Record(SomeCards[n].name, n, "OMN", "none")]
    \o << Record("x1", 11, "OMN", "none"), Record("w1", 12, "OMN", "RF"), Record("y1", 13, "IAR", "MV") >>
MCOfficialTotals ==
    [cards |-> 10, official |-> 13, candidates |-> 11,
     unmapped |-> [OMN |-> 2, IAR |-> 1, none |-> 1, RF |-> 1, CF |-> 0, MV |-> 1],
     unclassified |-> [none |-> 1, RF |-> 1, CF |-> 0, MV |-> 0]]
MCOfficials ==
    {SomeOfficial, Reverse(SomeOfficial)}
    \cup {[SomeOfficial EXCEPT ![a].name = SomeOfficial[b].name, ![b].name = SomeOfficial[a].name] :
            a, b \in {1, 2, 11}}
    \cup {[SomeOfficial EXCEPT ![a].card = SomeOfficial[b].card, ![b].card = SomeOfficial[a].card] :
            a, b \in {1, 2, 11}}
    \cup {[SomeOfficial EXCEPT ![12].marker = "IAR", ![13].marker = "OMN"],
          [SomeOfficial EXCEPT ![1].base = 2], [SomeOfficial EXCEPT ![13].suffix = "CF"],
          [SomeOfficial EXCEPT ![1].codes = <<"C", "V">>, ![3].codes = <<"C", "C">>],
          [SomeOfficial EXCEPT ![8].codes = <<"M", "M">>, ![10].codes = <<"R", "R">>]}

-----------------------------------------------------------------------------
\* Texts: a section of layouts made of any few lines, or sections of pools.
LayoutLines == {HeadingLine("x", 1), HeadingLine("y", 1), SlotLine(14, "Rare"), SlotLine(7, "Rare"), OtherLine}
PoolLines == {SectionLine("P"), SectionLine("Layouts"), EntryLine(1, "a"), EntryLine(2, "b"), OtherLine}
Settings == <<SectionLine("Settings"), SettingsLine>>
Opening ==
    Settings \o <<SectionLine("CustomCards"), CardsLine(SubSeq(SomeCards, 1, 1)), SectionLine("Layouts")>>
OneLayout == <<HeadingLine("x", 1), SlotLine(14, "Rare")>>
OnePool == <<SectionLine("Q"), EntryLine(1, "a")>>
MCTexts ==
    {Opening \o body \o OnePool : body \in BoundedSeq(LayoutLines, 5)}
    \cup {Opening \o OneLayout \o OnePool \o body : body \in BoundedSeq(PoolLines, 4)}
    \cup {Settings \o <<first, second>> \o OneLayout \o OnePool :
            first, second \in {SectionLine("CustomCards"), SectionLine("Layouts"), CardsLine(<<>>)}}
    \cup {first \o Opening \o OneLayout \o last :
            first \in BoundedSeq({SectionLine("Settings"), SettingsLine, OtherLine}, 2),
            last \in {<<>>, OnePool, OnePool \o Settings}}
    \cup {Tail(Opening) \o OneLayout \o OnePool, <<OtherLine>> \o Tail(Opening) \o OneLayout \o OnePool}

=============================================================================
