------------------------------ MODULE Healing ------------------------------
(***************************************************************************)
(* One run of a site (_run_site in app/runner/cli.py), the healing that a  *)
(* failed run may trigger, and regenerate (both app/runner/healing_flow.py)*)
(* A site run is executed by a collect process, and by an approve process  *)
(* as the rerun that verifies the patch it has just written.               *)
(***************************************************************************)
EXTENDS RunnerState

\* Where a process goes on when a site run, its healing included, is over.
AfterRun(w, ok) ==
    IF job[w].kind = "collect" THEN "next_site"
    ELSE IF ok THEN "report" ELSE "rb_truncate"

\* What a site run may come to.  It succeeds or fails (no records, and
\* issues, from some collector), with or without records from the others:
\* "new" ones, or only ones the database already had ("same").
Results == [status : {"success", "failed"}, records : {"new", "same", "none"}]

\* The site's configuration and API decide the result; an exception of the
\* collector or the database fails the run without healing.  The rerun of an
\* approve command succeeds (ok) when there are records.
RunSite(w, s, from) ==
    \/ \E r \in Results :
          LET ok == job[w].kind = "approve" /\ r.records # "none" IN
          /\ Step(w, from, IF r.status = "failed" THEN "heal_history"
                                                  ELSE AfterRun(w, ok))
          /\ job' = [job EXCEPT ![w].site = s, ![w].ok = ok,
                                ![w].todo = @ \ {s}]
          /\ hist' = IF r = [status |-> "success", records |-> "new"]
                     THEN [hist EXCEPT ![s] = TRUE] ELSE hist
    \/ /\ Step(w, from, AfterRun(w, FALSE))
       /\ job' = [job EXCEPT ![w].site = s, ![w].todo = @ \ {s}]
       /\ hist' = hist

\* A guard of maybe_trigger_healing says no, or the pipeline ends without a
\* candidate; either way the site run is over.
HealSkip(w, from) ==
    /\ Step(w, from, AfterRun(w, job[w].ok))
    /\ UNCHANGED <<row, audit, job, files, world, ghost>>

HealGuard(w, from, to) ==
    /\ Step(w, from, to)
    /\ UNCHANGED <<row, audit, job, files, world, ghost>>

\* The diagnosis is healable and the site has been collected before.
HealHistory(w) ==
    \/ HealGuard(w, "heal_history", "heal_pending") /\ hist[job[w].site]
    \/ HealSkip(w, "heal_history")

HealPending(w) ==
    IF PendingAt(row, job[w].site) = {}
    THEN HealGuard(w, "heal_pending", "heal_rejected")
    ELSE HealSkip(w, "heal_pending")

HealRejected(w) ==
    IF RecentRejected(row, job[w].site, now - RejectGuard) = {}
    THEN HealGuard(w, "heal_rejected", "heal_llm")
    ELSE HealSkip(w, "heal_rejected")

\* Bound: a candidate is usable only while there is an id left for it.
IdsLeft ==
    Cardinality({w \in Worker : pc[w] = "insert"})
        < Cardinality({id \in Id : ~Exists(row, id)})

\* The sample, the LLM and the dry run give a usable candidate, or not.
HealLlm(w) ==
    \/ HealGuard(w, "heal_llm", "insert") /\ IdsLeft
    \/ HealSkip(w, "heal_llm")

\* Variant to be refuted: the limit is off by one.
CountOffByOne(w) ==
    LET n == CountForRun(row, row[job[w].id].run) IN
    \/ HealGuard(w, "count", "llm") /\ n <= RegenLimit
    \/ /\ Exit(w, "count")
       /\ n > RegenLimit
       /\ UNCHANGED <<row, audit, files, world, ghost>>

\* regenerate_approval: RegenerateLimitReached, or on to the LLM.
Count(w) ==
    LET n == CountForRun(row, row[job[w].id].run) IN
    \/ HealGuard(w, "count", "llm") /\ n < RegenLimit
    \/ /\ Exit(w, "count")
       /\ n >= RegenLimit
       /\ UNCHANGED <<row, audit, files, world, ghost>>

\* A usable candidate, an unusable one (which still supersedes the request
\* it was to replace), or an exception that leaves everything as it is.
Llm(w) ==
    \/ HealGuard(w, "llm", "insert") /\ IdsLeft
    \/ HealGuard(w, "llm", "decide")
    \/ Exit(w, "llm") /\ UNCHANGED <<row, audit, files, world, ghost>>

\* create_approval: the row, then its audit line.
Insert(w) ==
    \E id \in Id :
        /\ IsNextId(row, id)
        /\ Step(w, "insert", "audit_created")
        /\ LET run == IF job[w].kind = "regenerate"
                      THEN row[job[w].id].run ELSE id
           IN row' = Inserted(row, id, job[w].site, run, now)
        /\ job' = [job EXCEPT ![w].new = id]
        /\ UNCHANGED <<audit, files, world, ghost>>

AuditCreated(w) ==
    /\ Step(w, "audit_created",
            IF job[w].kind = "regenerate" THEN "decide" ELSE "post")
    /\ Log("created", job[w].new)
    /\ UNCHANGED <<row, job, files, world, ghost>>

\* The Slack card is posted, or lost; attach_slack only for a posted one.
CardDone(w, from) ==
    IF job[w].kind = "regenerate"
    THEN Exit(w, from)
    ELSE Step(w, from, AfterRun(w, job[w].ok)) /\ job' = job

Post(w) ==
    /\ \/ Step(w, "post", "attach") /\ job' = job
       \/ CardDone(w, "post")
    /\ UNCHANGED <<row, audit, files, world, ghost>>

Attach(w) ==
    /\ CardDone(w, "attach")
    /\ row' = AttachSlack(row, job[w].new)
    /\ UNCHANGED <<audit, files, world, ghost>>

HealingStep(w) ==
    \/ HealHistory(w) \/ HealPending(w) \/ HealRejected(w) \/ HealLlm(w)
    \/ Count(w) \/ Llm(w)
    \/ Insert(w) \/ AuditCreated(w) \/ Post(w) \/ Attach(w)
=============================================================================
