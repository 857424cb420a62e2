-------------------------- MODULE MCDecisionQueue --------------------------
(***************************************************************************)
(* Instances of DecisionQueue for TLC: a collect timer, pollers, and       *)
(* operators at the command line beside them.                              *)
(***************************************************************************)
EXTENDS DecisionQueue, TLC

CONSTANTS w1, w2, w3

Clicks == {"approve", "reject", "regenerate"}

\* A collect timer and one poller.
TimerAndPoller == w1 :> {"collect"} @@ w2 :> Clicks

\* A collect timer and two pollers.
TimerAndPollers == w1 :> {"collect"} @@ w2 :> {"approve", "reject"} @@ w3 :> {"approve", "reject"}

\* A poller next to an operator who approves at the command line.
PollerAndOperator == w1 :> {"collect", "approve"} @@ w2 :> {"approve"}

\* Two pollers with the same commands are interchangeable.
Interchangeable == Permutations(Poller)

Nowhere == {}
\* A command's statements up to the one that decides.
UpToDecision == {"get", "decide", "cas"}
=============================================================================
