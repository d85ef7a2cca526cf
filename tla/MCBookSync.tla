----------------------------- MODULE MCBookSync ------------------------------
(* Two offers of one coin, or of two.                                      *)
EXTENDS BookSync, TLC

CONSTANTS o1, o2, c1, c2
OneCoin == o1 :> c1 @@ o2 :> c1
OneOffer == o1 :> c1
TwoCoins == o1 :> c1 @@ o2 :> c2
=============================================================================
