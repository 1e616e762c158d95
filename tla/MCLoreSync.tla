---------------------------- MODULE MCLoreSync ----------------------------
(* Two titles and two texts: pairs by content, by title, by text and by    *)
(* position, and entries that cross over.                                  *)
EXTENDS LoreSync, TLC

Swaps == Permutations(RowIds) \cup Permutations(Names) \cup Permutations(LoreTexts)
=============================================================================
