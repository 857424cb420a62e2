------------------------- MODULE ApprovalLifecycle -------------------------
(***************************************************************************)
(* What the approval workflow promises of one request, whoever handles it: *)
(* it is created once, an operator decides it at most once, its patch is   *)
(* written at most once and only on the strength of that one approval, and *)
(* it never comes back.  The expiry sweep alone may overwrite a decision.  *)
(***************************************************************************)
EXTENDS Naturals

CONSTANT Request

VARIABLES
    status,    \* status[r]: the status of request r
    carrying,  \* the approved requests whose patch may still be written
    applied    \* applied[r]: how often the patch of r has been written

lvars == <<status, carrying, applied>>

LInit ==
    /\ status = [r \in Request |-> "none"]
    /\ carrying = {}
    /\ applied = [r \in Request |-> 0]

Create(r) ==
    /\ status[r] = "none"
    /\ status' = [status EXCEPT ![r] = "pending"]
    /\ UNCHANGED <<carrying, applied>>

Approve(r) ==
    /\ status[r] = "pending"
    /\ status' = [status EXCEPT ![r] = "approved"]
    /\ carrying' = carrying \cup {r}
    /\ UNCHANGED applied

Close(r) ==
    /\ status[r] = "pending"
    /\ \E d \in {"rejected", "superseded"} : status' = [status EXCEPT ![r] = d]
    /\ UNCHANGED <<carrying, applied>>

Sweep(S) ==
    /\ \A r \in S : status[r] # "none"
    /\ status' = [r \in Request |-> IF r \in S THEN "expired" ELSE status[r]]
    /\ UNCHANGED <<carrying, applied>>

\* The one use of an approval: its patch is written ...
Apply(r) ==
    /\ r \in carrying
    /\ carrying' = carrying \ {r}
    /\ applied' = [applied EXCEPT ![r] = @ + 1]
    /\ UNCHANGED status

\* ... or does not fit, or the process dies first, and then never will be.
Lapse(r) ==
    /\ r \in carrying
    /\ carrying' = carrying \ {r}
    /\ UNCHANGED <<status, applied>>

LNext ==
    \/ \E r \in Request : Create(r) \/ Approve(r) \/ Close(r) \/ Apply(r) \/ Lapse(r)
    \/ \E S \in SUBSET Request : Sweep(S)

LSpec == LInit /\ [][LNext]_lvars
=============================================================================
