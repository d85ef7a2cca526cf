------------------------------ MODULE MCSwapJobs -----------------------------
(* Instances of SwapJobs: routes are functions, which a cfg cannot write.  *)
EXTENDS SwapJobs

CONSTANTS j1, j2, o1, o2

\* Two jobs that want an offer in common; one of them has two maker offers.
SharedRoute == j1 :> {o1, o2} @@ j2 :> {o2}
\* One job with one or two maker offers.
OneRoute == j1 :> {o1}
PairRoute == j1 :> {o1, o2}
=============================================================================
