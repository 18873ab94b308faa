------------------------------ MODULE SetToPack ------------------------------
(***************************************************************************)
(* The two halves of set-omens in the order they run: the set is compiled, *)
(* or refused, and only then packs are opened.  The tables themselves are  *)
(* the constants Layouts and PoolEntries of PackConstruction, so that      *)
(* opening can be explored on small ones.                                  *)
(***************************************************************************)
EXTENDS PackConstruction, SetCompilation, SeededSource

CONSTANTS Seeds, Domains    \* of the replayable sources

ASSUME SourceFitsAssumption == RotationBits \in 1..3 /\ SampleEnd = 2^SampleBits

\* A seeded source: its word and the domain that fixes its increment.
SeededSources == [word : Word, domain : Domains]
FreshlySeeded == {[word |-> Seeded(seed, domain), domain |-> domain] : seed \in Seeds, domain \in Domains}
SeededSample(source) == SampleOf(source.word)
SeededAfter(source) == [source EXCEPT !.word = Advance(source.word, source.domain)]

SetInit == ReadingInit /\ Init /\ feed = AnySource

Compiling == ReadingNext /\ phase' # "compiled" /\ UNCHANGED vars
TablesReady ==
    /\ ReadingNext /\ phase' = "compiled"
    /\ feed' \in FreshSources \cup {AnySource} /\ UNCHANGED <<stage, parts, unplanned, builder>>
OpeningPack == phase = "compiled" /\ Next /\ UNCHANGED reading

SetNext == Compiling \/ TablesReady \/ OpeningPack

SetSpec == SetInit /\ [][SetNext]_<<vars, reading>> /\ WF_feed(SeededCallerGoesOn)

=============================================================================
