--------------------------- MODULE MCMentionWatch ---------------------------
(* MentionWatch for TLC: comments and pull requests are interchangeable.   *)
EXTENDS MentionWatch, TLC

Symmetry == Permutations(Mentions) \cup Permutations(Prs)

=============================================================================
