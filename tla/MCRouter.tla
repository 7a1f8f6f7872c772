------------------------------ MODULE MCRouter ------------------------------
(* Two destinations behind a next hop each, on links of their own, and one *)
(* that no route leads to.                                                 *)
EXTENDS RouterLinks, TLC

CONSTANTS h1, h2, d1, d2, dx

Routes == d1 :> h1 @@ d2 :> h2 @@ dx :> NoRoute
HopLinks == h1 :> 0 @@ h2 :> 1

=============================================================================
