----------------------------- MODULE MCHubJobs -----------------------------
(***************************************************************************)
(* Small instances of HubJobs: two targets, the housekeeping target and a  *)
(* node that serves both targets.                                          *)
(***************************************************************************)
EXTENDS HubJobs, TLC

CONSTANTS j1, j2, j3, a, b, h, n1, c1, c2

\* A batch and a single-target job compete for target a.
PlanPair == (j1 :> <<a, b>>) @@ (j2 :> <<a>>)
\* Housekeeping, beside a job with a target and one without that it may trim.
PlanTrim == (j1 :> <<h>>) @@ (j2 :> <<a>>) @@ (j3 :> <<>>)
\* A batch alone.
PlanBatch == j1 :> <<a, b>>
\* Two calls for the same target.
PlanSame == (j1 :> <<a>>) @@ (j2 :> <<a>>)

ServesOne == n1 :> {a, b}

OneLink  == c1 :> n1
Relink   == (c1 :> n1) @@ (c2 :> n1)

=============================================================================
