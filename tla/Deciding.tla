------------------------------ MODULE Deciding ------------------------------
(***************************************************************************)
(* app/approval/state_machine.py, and the check with which each of the     *)
(* three operator commands begins.  The check, the re-check in _decide,    *)
(* the UPDATE and the audit line are four steps: other processes may run   *)
(* between any two of them.                                                *)
(***************************************************************************)
EXTENDS RunnerState

DecisionOf(kind) ==
    CASE kind = "approve" -> "approved"
      [] kind = "reject" -> "rejected"
      [] OTHER -> "superseded"

\* An operator at the command line, or the poller dispatching a decision:
\* any command about any id, however stale.
Begin(w, kind, id) ==
    /\ kind \in Commands[w] \ {"collect"}
    /\ Step(w, "idle", "get")
    /\ job' = [job EXCEPT ![w] = [NoJob EXCEPT !.kind = kind, !.id = id]]
    /\ UNCHANGED <<row, audit, files, world, ghost>>

\* LookupError, ApprovalNotPending or PreviousApprovalNotEligible.
GetRefused(w) ==
    /\ job[w].id \notin Pending(row)
    /\ Exit(w, "get")
    /\ UNCHANGED <<row, audit, files, world, ghost>>

\* Variant to be refuted: the patch is applied before the decision.
AfterGetApplyFirst(kind) == IF kind = "approve" THEN "read"
                            ELSE IF kind = "regenerate" THEN "count" ELSE "decide"

AfterGet(kind) == IF kind = "regenerate" THEN "count" ELSE "decide"

Get(w) ==
    LET id == job[w].id IN
    /\ id \in Pending(row)
    /\ Step(w, "get", AfterGet(job[w].kind))
    /\ job' = [job EXCEPT ![w].site = row[id].site]
    /\ UNCHANGED <<row, audit, files, world, ghost>>

\* _decide: repo.get again; ApprovalAlreadyDecided if it is not pending.
Recheck(w) ==
    /\ job[w].id \in Pending(row)
    /\ Step(w, "decide", "cas")
    /\ UNCHANGED <<row, audit, job, files, world, ghost>>

RecheckRefused(w) ==
    /\ job[w].id \notin Pending(row)
    /\ Exit(w, "decide")
    /\ UNCHANGED <<row, audit, files, world, ghost>>

\* Variant to be refuted: the row count is not tested.
DecideUnchecked(w) ==
    LET id == job[w].id IN
    /\ Step(w, "cas", "audit_decided")
    /\ row' = UpdateStatus(row, id, DecisionOf(job[w].kind), now)
    /\ UNCHANGED <<audit, job, files, world, ghost>>

\* _decide: update_status, and the test of its row count.
Decide(w) ==
    LET id == job[w].id IN
    /\ Matches(row, id)
    /\ Step(w, "cas", "audit_decided")
    /\ row' = UpdateStatus(row, id, DecisionOf(job[w].kind), now)
    /\ UNCHANGED <<audit, job, files, world, ghost>>

DecideLost(w) ==
    LET id == job[w].id IN
    /\ ~Matches(row, id)
    /\ row' = UpdateStatus(row, id, DecisionOf(job[w].kind), now)
    /\ Exit(w, "cas")
    /\ UNCHANGED <<audit, files, world, ghost>>

\* The audit line ends reject, and a regenerate that has no usable candidate
\* (it raises); approve goes on to the patch, regenerate to the new card.
AuditDecided(w) ==
    LET j == job[w] IN
    /\ Log(DecisionOf(j.kind), j.id)
    /\ \/ j.kind = "approve" /\ Step(w, "audit_decided", "read") /\ job' = job
       \/ j.kind = "regenerate" /\ j.new # 0
          /\ Step(w, "audit_decided", "post") /\ job' = job
       \/ j.kind = "reject" /\ Exit(w, "audit_decided")
       \/ j.kind = "regenerate" /\ j.new = 0 /\ Exit(w, "audit_decided")
    /\ UNCHANGED <<row, files, world, ghost>>

DecidingStep(w) ==
    \/ \E kind \in Kind \ {"collect"}, id \in Id : Begin(w, kind, id)
    \/ Get(w) \/ GetRefused(w)
    \/ Recheck(w) \/ RecheckRefused(w)
    \/ Decide(w) \/ DecideLost(w)
    \/ AuditDecided(w)
=============================================================================
