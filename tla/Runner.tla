------------------------------- MODULE Runner -------------------------------
(***************************************************************************)
(* The self-healing runner: collect runs and operator commands over one    *)
(* database, one audit log and one directory of configs.                   *)
(***************************************************************************)
EXTENDS Deciding, Patching, Collecting

ASSUME FiniteWorkers == IsFiniteSet(Worker)

\* A process is killed, or ended by an error nothing catches: what it has
\* stored stays, its lock file included.
Crash(w) ==
    /\ crashes < MaxCrash
    /\ pc[w] \in CrashAt
    /\ crashes' = crashes + 1
    /\ Exit(w, pc[w])
    /\ UNCHANGED <<row, audit, files, hist, lock, now, ghost>>

HoldsLock(w) == job[w].kind = "collect" /\ pc[w] # "acquire"

\* The operator removes the lock file a killed collect run has left.
ClearStaleLock ==
    /\ lock
    /\ \A w \in Worker : ~HoldsLock(w)
    /\ lock' = FALSE
    /\ UNCHANGED <<row, audit, files, hist, now, crashes, pc, job, ghost>>

Tick ==
    /\ now < MaxTime
    /\ now' = now + 1
    /\ UNCHANGED <<row, audit, files, hist, lock, crashes, pc, job, ghost>>

ProcessStep(w) == DecidingStep(w) \/ HealingStep(w) \/ PatchingStep(w) \/ CollectingStep(w)

Next ==
    \/ \E w \in Worker : ProcessStep(w) \/ Crash(w)
    \/ ClearStaleLock
    \/ Tick

Spec == Init /\ [][Next]_vars

\* A process that has started goes on, the timer keeps starting collect runs,
\* time passes, and an operator who finds a stale lock removes it.  Nothing
\* makes anyone start an approve, reject or regenerate command.
Fairness ==
    /\ \A w \in Worker : WF_vars(pc[w] # "idle" /\ ProcessStep(w))
    /\ \A w \in Worker : WF_vars(Collect(w))
    /\ WF_vars(Tick)
    /\ WF_vars(ClearStaleLock)

FairSpec == Spec /\ Fairness

-----------------------------------------------------------------------------
(* Safety. *)

\* However many approve commands, timers and stale decisions meet, the patch
\* of a request is written to its config at most once: the UPDATE in
\* ApprovalRepository.update_status admits one process past _decide, and
\* nothing makes a decided row pending again.
AppliedAtMostOnce == \A id \in Id : applied[id] <= 1

\* A patch reaches a config file only after its approval is in the audit
\* log; a backup or a rollback never brings in any other.
PatchHasAuditedApproval ==
    \A id \in Id :
        \/ applied[id] > 0
        \/ \E s \in Site : yaml[s] # Torn /\ id \in yaml[s]
        => <<"approved", id>> \in audit

\* The audit log shows at most one operator decision for a request, even
\* when approve, reject and regenerate race for it.
OneOperatorDecision ==
    \A id \in Id, d, e \in Decision :
        <<d, id>> \in audit /\ <<e, id>> \in audit => d = e

\* The audit log never claims what the table does not bear out, whatever
\* processes are killed: a recorded decision is the row's status, unless
\* the sweep has overwritten it, and a recorded expiry is final.
AuditBearsOut ==
    \A id \in Id :
        /\ \A d \in Decision :
             <<d, id>> \in audit => row[id].status \in {d, "expired"}
        /\ <<"expired", id>> \in audit => row[id].status = "expired"

\* As long as no process is killed, the table is never ahead of the log
\* either: when all is quiet, every request and every way it was closed is
\* on record.
Quiet == \A w \in Worker : pc[w] = "idle"

QuietlyAudited ==
    Quiet => \A id \in Id :
        /\ Exists(row, id) => <<"created", id>> \in audit
        /\ Exists(row, id) /\ id \notin Pending(row)
             => <<row[id].status, id>> \in audit

Regenerators == {w \in Worker : "regenerate" \in Commands[w]}

\* Regenerating a run's candidates is bounded even when the commands race:
\* each process that passes count_for_run before the others insert adds at
\* most one row to the run.
RegenerationBounded ==
    \A id \in Id : Exists(row, id) =>
        CountForRun(row, row[id].run)
            <= RegenLimit + (IF Regenerators = {} THEN 0 ELSE Cardinality(Regenerators) - 1)

\* Whenever no approve command is under way, a config file is whole and
\* every patch in it was kept after a rerun that collected records; the
\* others were rolled back (README: rollback on failure is automatic).
ConfigsVerified ==
    (\A w \in Worker : job[w].kind # "approve") =>
        \A s \in Site : /\ yaml[s] # Torn
                        /\ \A id \in yaml[s] : outcome[id] = "kept"

\* An operator decision, once taken, is never changed (state_machine.py:
\* a second decision about a decided row is refused).
DecidedOnce ==
    [][\A id \in Id : row[id].status \in Decision
                        => row'[id].status = row[id].status]_vars

\* Automatic healing asks the operator about a site only while no request
\* about it is pending (README, automatic healing, condition 3).  Only rows
\* regenerate inserts carry the run of an older one.
HealingAsksOnce ==
    [][\A id \in Id :
          ~Exists(row, id) /\ Exists(row', id) /\ row'[id].run = id
            => PendingAt(row, row'[id].site) = {}]_vars

-----------------------------------------------------------------------------
(* Refinement and liveness. *)

\* The processes that hold an approval they have not used yet.
Carrying == {"audit_decided", "read", "backup", "truncate", "write"}

Lifecycle == INSTANCE ApprovalLifecycle WITH
    Request <- Id,
    status <- [id \in Id |-> row[id].status],
    carrying <- {id \in Id : \E w \in Worker : /\ job[w].kind = "approve"
                                               /\ job[w].id = id
                                               /\ pc[w] \in Carrying}

\* The interleaved statements of all the processes implement the lifecycle
\* of every request.
LifecycleSpec == Lifecycle!LSpec

\* A request nobody decides does not block its site for ever: once it is
\* due, it is decided or the sweep of some collect run closes it.
DueIsClosed ==
    \A id \in Id : (id \in Pending(row) /\ row[id].expires <= now)
                     ~> id \notin Pending(row)

\* Every approval comes to an end the operator is told of: the patch was
\* kept, rolled back, or did not fit.
ApprovalSettles ==
    \A id \in Id : <<"approved", id>> \in audit ~> outcome[id] # "none"
=============================================================================
