------------------------------- MODULE MCPacks ------------------------------
(* A small instance of SetToPack for TLC: 4-bit samples, four             *)
(* positions, two pools that share an identity; and the recipe of MCRecipe *)
(* that such tables come from.                                             *)
EXTENDS SetToPack, MCRecipe

\* The third layout asks pool Q for more than it holds.
MCLayouts ==
    << [weight |-> 3, slots |-> <<"P", "Q", "P", "Q">>],
       [weight |-> 2, slots |-> <<"Q", "P", "P", "P">>],
       [weight |-> 1, slots |-> <<"Q", "Q", "P", "Q">>] >>

\* Totals of 6, 7 and 5 leave rejection tails of 4, 2 and 1 samples of 16;
\* removals lead to further totals, some of them divisors of 16.
MCPoolEntries ==
    [P |-> << [key |-> "a", weight |-> 3], [key |-> "b", weight |-> 1], [key |-> "c", weight |-> 3] >>,
     Q |-> << [key |-> "a", weight |-> 1], [key |-> "d", weight |-> 4] >>]

\* Pairs are made of samples at the edges of the ends and of the tails.
Edge == {0, 3, 6, 11, 12, 14, 15}
Single == {<<s>> : s \in Sample}
MCBatches == {<<>>} \cup Single \cup (Edge \X Edge)
MCCalls == {<<>>} \cup {<<b>> : b \in MCBatches} \cup {<< <<s>>, <<t>> >> : s, t \in Edge}

=============================================================================
