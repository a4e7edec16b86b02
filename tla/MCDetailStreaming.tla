------------------------- MODULE MCDetailStreaming -------------------------
(***************************************************************************)
(* DetailStreaming for TLC: a textured and an untextured region for which  *)
(* the smaller budgets have no room together.  Two cameras see both, one   *)
(* the smaller in front and one the larger; a third sees only the larger.  *)
(***************************************************************************)
EXTENDS DetailStreaming

TwoRegions == {1, 2}
TwoCosts == [r \in TwoRegions |-> r]
TwoFallbacks == [r \in TwoRegions |-> IF r = 1 THEN 1 ELSE 0]
NoFallbacks == [r \in TwoRegions |-> 0]
ThreeViews == {[r \in TwoRegions |-> 1], [r \in TwoRegions |-> r],
             [r \in TwoRegions |-> IF r = 2 THEN 1 ELSE 0]}
=============================================================================
