------------------------- MODULE MCOneTimePrekeys -------------------------
(* Model checking of OneTimePrekeys: two requesters, the first of which    *)
(* fetches twice (MCBy), and one requester on its own (MCByAnn).           *)
EXTENDS OneTimePrekeys, TLC

CONSTANTS ann, bob, f1, f2, f3

MCBy == f1 :> ann @@ f2 :> ann @@ f3 :> bob
MCByAnn == f1 :> ann @@ f2 :> ann @@ f3 :> ann
=============================================================================
