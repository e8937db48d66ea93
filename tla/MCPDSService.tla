----------------------------- MODULE MCPDSService -----------------------------
(* Instances of PDSService for TLC.                                         *)
EXTENDS PDSService, TLC

CONSTANTS issuer, alice, pds, c1, c2, d1, d2, p1, p2, p3, x1, x2, x3

(* One distribution of one pack with two collectibles.                     *)
OneDist == {d1}
OneContract == d1 :> c1
OnePack == {p1}
TwoCollectibles == {x1, x2}
BothInOne == p1 :> {x1, x2}
OnePackRow == d1 :> <<p1>>
TwoCollectibleRows == d1 :> <<x1, x2>>

(* Two distributions of one pack each, of one contract or of two.          *)
TwoDists == {d1, d2}
TwoPacks == {p1, p2}
OneEach == p1 :> {x1} @@ p2 :> {x2}
SameContract == d1 :> c1 @@ d2 :> c1
OwnContract == d1 :> c1 @@ d2 :> c2
RowEach == d1 :> <<p1>> @@ d2 :> <<p2>>
CollectibleRowEach == d1 :> <<x1>> @@ d2 :> <<x2>>

(* Two distributions that were created with the same collectible.          *)
OneCollectible == {x1}
SameInBoth == p1 :> {x1} @@ p2 :> {x1}
SameCollectibleRows == d1 :> <<x1>> @@ d2 :> <<x1>>

(* Two distributions, of two packs and of one.                              *)
ThreePacks == {p1, p2, p3}
ThreeCollectibles == {x1, x2, x3}
OneEachOfThree == p1 :> {x1} @@ p2 :> {x2} @@ p3 :> {x3}
TwoRowsAndOne == d1 :> <<p1, p2>> @@ d2 :> <<p3>>
TwoCollectibleRowsAndOne == d1 :> <<x1, x2>> @@ d2 :> <<x3>>

(* What the accounts may do with collectibles and packs.                   *)
NoMoves == {}
NoSales == {}
FirstSale == {<<issuer, alice>>}
Resale == {<<x1, issuer, pds>>, <<x1, alice, issuer>>}
=============================================================================
