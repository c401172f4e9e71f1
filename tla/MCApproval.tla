------------------------------ MODULE MCApproval ------------------------------
EXTENDS Approval, TLC

CONSTANTS j1, j2, owner

\* Two reviews of the pull request side by side, or a review and the owner.
AllCasts == {[who |-> {j1, j2}, acts |-> 1], [who |-> {j1, owner}, acts |-> 2]}
=============================================================================
