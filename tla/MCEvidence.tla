----------------------------- MODULE MCEvidence -----------------------------
(***************************************************************************)
(* An instance of Evidence for TLC.                                        *)
(***************************************************************************)
EXTENDS Evidence, TLC

CONSTANTS w1, w2

\* A collect timer next to an operator who asks for other candidates.
Regenerating == w1 :> {"collect"} @@ w2 :> {"regenerate"}
=============================================================================
