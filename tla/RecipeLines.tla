---------------------------- MODULE RecipeLines -----------------------------
(***************************************************************************)
(* Reading the set recipe, packages/set-omens/src: settings.ts,            *)
(* custom-cards.ts, layouts.ts and pools.ts each read the whole text       *)
(* again, each behind the reader before it.                                *)
(*                                                                         *)
(* The text is a sequence of lines, already told apart by their shape: a   *)
(* section header, the one object of settings that is accepted, the JSON   *)
(* list of cards, the heading of a layout, a slot of a layout, an entry of *)
(* a pool, or something else.  Bytes, encoding, JSON, the normalisation of *)
(* names and integers too large to be safe are left out: a line with such  *)
(* a fault is one of the others.                                           *)
(***************************************************************************)
EXTENDS Naturals, Sequences, SequencesExt

CONSTANTS
    VisibleCardTotal,   \* the cards of a pack, 14
    Refused             \* what a stage gives that throws

ASSUME VisibleCardsAssumption == VisibleCardTotal \in Nat \ {0}

SectionLine(name) == [line |-> "section", name |-> name]
SettingsLine == [line |-> "settings"]
CardsLine(cards) == [line |-> "cards", cards |-> cards]
HeadingLine(id, weight) == [line |-> "layout", id |-> id, weight |-> weight]
SlotLine(count, pool) == [line |-> "slot", count |-> count, pool |-> pool]
EntryLine(weight, card) == [line |-> "entry", weight |-> weight, card |-> card]
OtherLine == [line |-> "other"]

\* What JSON and the lines' patterns let through: lists, the three rarities,
\* and numbers that are whole and positive.
Listing(s) == s \in Seq(ToSet(s))
IsCard(c) == c.number \in Nat /\ c.rarity \in {"common", "rare", "mythic"}
IsLine(l) ==
    \/ l.line = "section" /\ l = SectionLine(l.name)
    \/ l.line = "cards" /\ l = CardsLine(l.cards) /\ Listing(l.cards) /\ \A c \in ToSet(l.cards) : IsCard(c)
    \/ l.line = "layout" /\ l = HeadingLine(l.id, l.weight) /\ l.weight \in Nat \ {0}
    \/ l.line = "slot" /\ l = SlotLine(l.count, l.pool) /\ l.count \in Nat \ {0}
    \/ l.line = "entry" /\ l = EntryLine(l.weight, l.card) /\ l.weight \in Nat \ {0}
    \/ l \in {SettingsLine, OtherLine}
IsText(lines) == Listing(lines) /\ \A i \in DOMAIN lines : IsLine(lines[i])

Total(numbers) ==
    LET sum[i \in 0..Len(numbers)] == IF i = 0 THEN 0 ELSE sum[i-1] + numbers[i]
    IN  sum[Len(numbers)]
Distinct(s) == \A i, j \in DOMAIN s : i # j => s[i] # s[j]

\* Numbers in their order, and what a list holds at some of its places.
InOrder(S) ==
    [n \in 1..Cardinality(S) |-> CHOOSE i \in S : Cardinality({j \in S : j <= i}) = n]
Kept(s, S) ==
    LET at == InOrder(S) IN [n \in DOMAIN at |-> s[at[n]]]

-----------------------------------------------------------------------------
(* Sections.  A section ends at the next header or at the end of the text. *)

Headers(lines) == {i \in DOMAIN lines : lines[i].line = "section"}
Named(lines, name) == {i \in Headers(lines) : lines[i].name = name}
First(indices) == CHOOSE i \in indices : \A j \in indices : i <= j
Following(lines, i) == {j \in Headers(lines) : j > i}
Body(lines, i) ==
    SubSeq(lines, i + 1, IF Following(lines, i) = {} THEN Len(lines)
                         ELSE First(Following(lines, i)) - 1)

\* The settings come first, once, and the list of cards right after them.
ReadsSettings(lines) ==
    /\ Named(lines, "Settings") = {1}
    /\ Following(lines, 1) # {} /\ lines[First(Following(lines, 1))].name = "CustomCards"
    /\ Body(lines, 1) = <<SettingsLine>>

\* The list of cards: not empty, no name and no collector number twice.
ReadCards(lines) ==
    LET here == Named(lines, "CustomCards")
        body == Body(lines, First(here))
    IN  IF /\ ReadsSettings(lines)
           /\ Cardinality(here) = 1 /\ Following(lines, First(here)) # {}
           /\ Len(body) = 1 /\ body[1].line = "cards"
           /\ body[1].cards # <<>>
           /\ Distinct([i \in DOMAIN body[1].cards |-> body[1].cards[i].name])
           /\ Distinct([i \in DOMAIN body[1].cards |-> body[1].cards[i].number])
        THEN body[1].cards
        ELSE Refused

-----------------------------------------------------------------------------
(* Layouts.  A layout is a heading and the slots up to the next heading,   *)
(* which finishes it, or to the end of the section.                        *)

VisibleTotal(slots) == Total([i \in DOMAIN slots |-> slots[i].count])
Whole(layout) == layout.slots # <<>> /\ VisibleTotal(layout.slots) = VisibleCardTotal

\* A heading checks the layout it finishes, the end of the section the last.
FinishedByHeading(layouts) == \A l \in ToSet(Front(layouts)) : Whole(l)

\* Mutant: the last layout is taken without the check headings make.
FinishedByEnd_unchecked(layouts) == TRUE

FinishedByEnd(layouts) == Whole(Last(layouts))

Headings(body) == {i \in DOMAIN body : body[i].line = "layout"}

LayoutAt(body, i) ==
    LET later == {j \in Headings(body) : j > i}
        slots == SubSeq(body, i + 1, IF later = {} THEN Len(body) ELSE First(later) - 1)
    IN  [id |-> body[i].id, weight |-> body[i].weight,
         slots |-> [s \in DOMAIN slots |-> [count |-> slots[s].count, pool |-> slots[s].pool]]]

LayoutsOf(body) ==
    LET at == InOrder(Headings(body))
        layouts == [n \in DOMAIN at |-> LayoutAt(body, at[n])]
    IN  IF /\ \A i \in DOMAIN body : body[i].line \in {"layout", "slot"}
           /\ 1 \in Headings(body)
           /\ Distinct([n \in DOMAIN layouts |-> layouts[n].id])
           /\ FinishedByHeading(layouts) /\ FinishedByEnd(layouts)
        THEN layouts
        ELSE Refused

\* The section stands right after the list of cards, and pools follow it.
ReadLayouts(lines) ==
    LET here == Named(lines, "Layouts")
        at == First(here)
        before == {i \in Headers(lines) : i < at}
    IN  IF /\ ReadCards(lines) # Refused
           /\ Cardinality(here) = 1
           /\ \E i \in before : lines[i].name = "CustomCards" /\ \A j \in before : j <= i
           /\ Following(lines, at) # {}
        THEN LayoutsOf(Body(lines, at))
        ELSE Refused

-----------------------------------------------------------------------------
(* Pools: every section after the layouts is one.                          *)

IsPoolBody(body) ==
    /\ body # <<>>
    /\ \A i \in DOMAIN body : body[i].line = "entry"
    /\ Distinct([i \in DOMAIN body |-> body[i].card])

ReadPools(lines) ==
    LET at == InOrder(Following(lines, First(Named(lines, "Layouts"))))
        PoolAt(i) == [name |-> lines[i].name,
                      entries |-> [e \in DOMAIN Body(lines, i) |->
                                    [weight |-> Body(lines, i)[e].weight,
                                     card |-> Body(lines, i)[e].card]]]
    IN  IF /\ ReadLayouts(lines) # Refused
           /\ Distinct([i \in DOMAIN at |-> lines[at[i]].name])
           /\ \A i \in DOMAIN at : IsPoolBody(Body(lines, at[i]))
        THEN [i \in DOMAIN at |-> PoolAt(at[i])]
        ELSE Refused

ReadRecipe(lines) ==
    IF ReadPools(lines) = Refused THEN Refused
    ELSE [cards |-> ReadCards(lines), layouts |-> ReadLayouts(lines), pools |-> ReadPools(lines)]

-----------------------------------------------------------------------------
(* The other direction, for reference: what a recipe looks like as text,   *)
(* and the recipes that have one.                                          *)

IsRecipe(recipe) ==
    /\ recipe = [cards |-> recipe.cards, layouts |-> recipe.layouts, pools |-> recipe.pools]
    /\ Listing(recipe.cards) /\ \A c \in ToSet(recipe.cards) : IsCard(c)
    /\ Listing(recipe.layouts) /\ Listing(recipe.pools)
    /\ \A l \in ToSet(recipe.layouts) :
        /\ l = [id |-> l.id, weight |-> l.weight, slots |-> l.slots]
        /\ l.weight \in Nat \ {0} /\ Listing(l.slots)
        /\ \A s \in ToSet(l.slots) : s = [count |-> s.count, pool |-> s.pool] /\ s.count \in Nat \ {0}
    /\ \A p \in ToSet(recipe.pools) :
        /\ p = [name |-> p.name, entries |-> p.entries] /\ Listing(p.entries)
        /\ \A e \in ToSet(p.entries) : e = [weight |-> e.weight, card |-> e.card] /\ e.weight \in Nat \ {0}

PrintedLayout(layout) ==
    <<HeadingLine(layout.id, layout.weight)>> \o
    [i \in DOMAIN layout.slots |-> SlotLine(layout.slots[i].count, layout.slots[i].pool)]

PrintedPool(pool) ==
    <<SectionLine(pool.name)>> \o
    [i \in DOMAIN pool.entries |-> EntryLine(pool.entries[i].weight, pool.entries[i].card)]

Printed(recipe) ==
    <<SectionLine("Settings"), SettingsLine, SectionLine("CustomCards"), CardsLine(recipe.cards),
      SectionLine("Layouts")>>
    \o FlattenSeq([i \in DOMAIN recipe.layouts |-> PrintedLayout(recipe.layouts[i])])
    \o FlattenSeq([i \in DOMAIN recipe.pools |-> PrintedPool(recipe.pools[i])])

Printable(recipe) ==
    /\ recipe.cards # <<>> /\ recipe.layouts # <<>> /\ recipe.pools # <<>>
    /\ \A i, j \in DOMAIN recipe.cards : i # j =>
        /\ recipe.cards[i].name # recipe.cards[j].name
        /\ recipe.cards[i].number # recipe.cards[j].number
    /\ \A i, j \in DOMAIN recipe.layouts : recipe.layouts[i].id = recipe.layouts[j].id => i = j
    /\ \A l \in ToSet(recipe.layouts) : VisibleTotal(l.slots) = VisibleCardTotal
    /\ \A i, j \in DOMAIN recipe.pools : recipe.pools[i].name = recipe.pools[j].name => i = j
    /\ \A p \in ToSet(recipe.pools) :
        /\ p.entries # <<>> /\ p.name \notin {"Settings", "CustomCards", "Layouts"}
        /\ \A i, j \in DOMAIN p.entries : p.entries[i].card = p.entries[j].card => i = j

=============================================================================
