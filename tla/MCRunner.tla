------------------------------ MODULE MCRunner ------------------------------
(***************************************************************************)
(* Instances of Runner for TLC: which commands run side by side, and where *)
(* processes are killed.                                                   *)
(***************************************************************************)
EXTENDS Runner, TLC

CONSTANTS w1, w2

\* Two operators race over what a collect run has found.
Racing == w1 :> {"collect", "approve"} @@ w2 :> {"approve", "reject"}

\* Two collect timers.
Timers == w1 :> {"collect"} @@ w2 :> {"collect"}

\* A collect timer next to an operator who approves and rejects.
Deciders == w1 :> {"collect"} @@ w2 :> {"approve", "reject"}

\* A collect timer next to one operator with every command.
OneOperator == w1 :> {"collect"} @@ w2 :> {"approve", "reject", "regenerate"}

Anywhere == PC \ {"idle"}
Nowhere == {}

\* The points between a decision or expiry in the table and its audit line.
BeforeLogging == {"audit_decided", "sweep_audit"}
=============================================================================
