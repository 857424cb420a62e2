----------------------------- MODULE Collecting -----------------------------
(***************************************************************************)
(* A collect run: main in app/runner/cli.py under RunLock                  *)
(* (app/locking.py), with the expiry sweep it begins with.                 *)
(***************************************************************************)
EXTENDS Healing

\* load_all_sites precedes the lock and raises on a config that is not
\* whole; the plan is whatever the runtime policy allows.
Collect(w) ==
    /\ "collect" \in Commands[w]
    /\ \A s \in Site : yaml[s] # Torn
    /\ Step(w, "idle", "acquire")
    /\ \E plan \in (SUBSET Site) \ {{}} :
         job' = [job EXCEPT ![w] = [NoJob EXCEPT !.kind = "collect", !.todo = plan]]
    /\ UNCHANGED <<row, audit, files, world, ghost>>

\* Variant to be refuted: O_CREAT without O_EXCL.
AcquireAlways(w) ==
    /\ Step(w, "acquire", "sweep")
    /\ lock' = TRUE
    /\ UNCHANGED <<row, audit, files, hist, now, crashes, job, ghost>>

\* RunLock.acquire: O_CREAT | O_EXCL.
Acquire(w) ==
    /\ ~lock
    /\ Step(w, "acquire", "sweep")
    /\ lock' = TRUE
    /\ UNCHANGED <<row, audit, files, hist, now, crashes, job, ghost>>

\* "another run is in progress": the process exits and leaves the lock alone.
AcquireRefused(w) ==
    /\ lock
    /\ Exit(w, "acquire")
    /\ UNCHANGED <<row, audit, files, world, ghost>>

\* expire_due: the SELECT, the UPDATE and one audit line per id.
SweepSelect(w) ==
    LET due == Due(row, now) IN
    /\ Step(w, "sweep", IF due = {} THEN "next_site" ELSE "sweep_update")
    /\ job' = [job EXCEPT ![w].due = due, ![w].stamp = now]
    /\ UNCHANGED <<row, audit, files, world, ghost>>

SweepUpdate(w) ==
    /\ Step(w, "sweep_update", "sweep_audit")
    /\ row' = Expire(row, job[w].due, job[w].stamp)
    /\ UNCHANGED <<audit, job, files, world, ghost>>

\* Variant to be refuted: one audit line for all the ids.
SweepAuditFirst(w) ==
    \E id \in job[w].due :
        /\ Step(w, "sweep_audit", "next_site")
        /\ Log("expired", id)
        /\ job' = [job EXCEPT ![w].due = {}]
        /\ UNCHANGED <<row, files, world, ghost>>

SweepAudit(w) ==
    \E id \in job[w].due :
        /\ \A j \in job[w].due : id <= j
        /\ Step(w, "sweep_audit",
                IF job[w].due = {id} THEN "next_site" ELSE "sweep_audit")
        /\ Log("expired", id)
        /\ job' = [job EXCEPT ![w].due = @ \ {id}]
        /\ UNCHANGED <<row, files, world, ghost>>

CollectSite(w) ==
    \E s \in job[w].todo :
        /\ RunSite(w, s, "next_site")
        /\ UNCHANGED <<row, audit, files, lock, now, crashes, ghost>>

\* RunLock.release, in the finally clause: unlink whatever lock is there.
Release(w) ==
    /\ job[w].todo = {}
    /\ Exit(w, "next_site")
    /\ lock' = FALSE
    /\ UNCHANGED <<row, audit, files, hist, now, crashes, ghost>>

CollectingStep(w) ==
    \/ Collect(w) \/ Acquire(w) \/ AcquireRefused(w)
    \/ SweepSelect(w) \/ SweepUpdate(w) \/ SweepAudit(w)
    \/ CollectSite(w) \/ Release(w)
=============================================================================
