---------------------------- MODULE SelfHealing ----------------------------
(***************************************************************************)
(* One site, from its answers to its config: a collect run fetches page    *)
(* after page, a failed run is diagnosed and handed to the LLM, a candidate*)
(* is tried on the sample of the run and put before the operator, and an   *)
(* approved one is written, verified by a rerun and kept or rolled back.   *)
(* Meanwhile the site may be redesigned at any time, or answer badly.      *)
(*                                                                         *)
(* Runner has many such processes interleaved and leaves open what they    *)
(* see; here one process runs at a time and all of what it sees is there.  *)
(***************************************************************************)
EXTENDS DryRun

CONSTANTS
    Items,         \* the items of its answers: [id, title]
    Sites,         \* what the site may be: how it lays out its answers, the
                   \* postings it has, page by page, the request that gets them, the
                   \* name of its page parameter and its value for the first page,
                   \* the answer to anything else (elsewhere), and whether the
                   \* config has a second collector, of another part of it (other)
    FirstConfigs,  \* the configs it may begin with
    Candidates,    \* what the LLM may propose: [changes, forbidden]
    OtherResults,  \* what the site's second collector may get
    Retries,       \* LLMConfig.max_retries
    RegenLimit,    \* REGENERATE_LIMIT_PER_RUN
    MaxRequest,    \* bound: how many requests are ever created
    MaxRedesign    \* bound: how often the site changes

ASSUME SelfHealingAssumption ==
    /\ \A s \in Sites :
          /\ s.pages \in Seq(Seq(Items)) /\ s.first \in Int
          /\ s.elsewhere.body.items \in Seq(Items)
          /\ s.elsewhere.blocked => s.elsewhere = Blocked
          /\ s.other \in BOOLEAN
    /\ \A cfg \in FirstConfigs :
          /\ DOMAIN cfg \subseteq Key /\ Valid(cfg)
          /\ cfg["items_path"] \notin BadPath /\ ~Unreadable(cfg)
    /\ \A c \in Candidates : Len(c.changes) \in Nat
    /\ \A r \in OtherResults : r.records \in BOOLEAN /\ (~r.records => r.issues # {})
    /\ Retries \in Nat /\ RegenLimit \in Nat /\ MaxRequest \in Nat /\ MaxRedesign \in Nat

VARIABLES
    site,       \* the API
    redesigns,  \* how often it has changed
    yaml,       \* the config file of the site (its first collector)
    posts,      \* table job_postings: the postings of the first collector
    hist,       \* has_successful_history
    req,        \* table approval_request, with history variables of each row
    pc,         \* the next step of the one process
    run,        \* the local variables of its page loop
    job,        \* its other local variables
    steady      \* history: nothing has changed or failed since the run began

vars == <<site, redesigns, yaml, posts, hist, req, pc, run, job, steady>>

PC == {"idle", "fetch", "other", "close", "llm", "dry_run", "verify"}

\* by: the command; id: the request it is about; backup: the copy of the config
\* apply_patch_to_file made; failed: last_status; stored, changed: total, as far
\* as it is asked about; sample: the run's api_sample file; run: the run_id of
\* the request to come; tries: failed attempts of the LLM client; empty: history,
\* whether some collector has got no records.
NoJob == [by |-> "none", id |-> 0, backup |-> Nothing, issues |-> {},
          failed |-> FALSE, empty |-> FALSE, stored |-> FALSE, changed |-> FALSE,
          sample |-> Nothing, run |-> 0, tries |-> 0, candidate |-> Nothing]

\* A row that is decided is not read again: its patch and the sample of its run
\* are forgotten.
Decided(r, status) == [r EXCEPT !.status = status, !.changes = <<>>, !.sample = Nothing]

TypeOK ==
    /\ site \in Sites
    /\ redesigns \in 0..MaxRedesign
    /\ DOMAIN yaml \subseteq Key
    /\ hist \in BOOLEAN /\ steady \in BOOLEAN
    /\ pc \in PC
    /\ Len(req) <= MaxRequest
    /\ \A i \in DOMAIN req :
          /\ req[i].status \in {"pending", "approved", "rejected", "superseded", "expired"}
          /\ req[i].outcome \in {"none", "kept", "rolled_back", "apply_failed"}
          /\ req[i].outcome # "none" => req[i].status = "approved"
    \* At most one request is pending, and every posting is stored once.
    /\ \A i, j \in DOMAIN req : req[i].status = "pending" /\ req[j].status = "pending" => i = j
    /\ \A p, q \in posts : p.external_id = q.external_id => p = q
    \* The page loop stays within its limit, and the attempts within theirs.
    /\ run.pages = 0 \/ run.pages <= MaxPages(yaml) \/ pc \notin {"fetch", "other", "close"}
    /\ job.tries <= Retries

Init ==
    /\ site \in Sites
    /\ redesigns = 0
    /\ yaml \in FirstConfigs
    /\ posts = {}
    /\ hist = FALSE
    /\ req = <<>>
    /\ pc = "idle"
    /\ run = Begun
    /\ job = NoJob
    /\ steady = FALSE

Step(from, to) == pc = from /\ pc' = to

\* A change of the site or of the config, or a bad answer: what was seen
\* before need not come again.
Unsettled == [i \in DOMAIN req |-> [req[i] EXCEPT !.steady = FALSE]]

table == <<posts, hist>>
world == <<site, redesigns>>

Redesign ==
    /\ redesigns < MaxRedesign
    /\ redesigns' = redesigns + 1
    /\ site' \in {s \in Sites : s.other = site.other}
    /\ req' = Unsettled
    /\ steady' = FALSE
    /\ UNCHANGED <<yaml, table, pc, run, job>>

-----------------------------------------------------------------------------
(* A site run. *)

\* The loop over the site's collectors begins with the page loop of the first.
BeginRun(by, id) ==
    /\ Step("idle", "fetch")
    /\ run' = Begun
    /\ job' = [NoJob EXCEPT !.by = by, !.id = id,
                            !.backup = IF by = "rerun" THEN yaml ELSE Nothing]
    /\ steady' = TRUE

\* The expiry sweep comes first; which requests are due is left open.
Collect ==
    /\ BeginRun("collect", 0)
    /\ \E due \in SUBSET {i \in DOMAIN req : req[i].status = "pending"} :
          req' = [i \in DOMAIN req |-> IF i \in due THEN Decided(req[i], "expired")
                                                   ELSE req[i]]
    /\ UNCHANGED <<world, yaml, table>>

\* The site answers the right request with the page it is asked for, or with its
\* first one, and any other request, or page parameter, with what is elsewhere.
Reply(s, asked) ==
    LET n == IF asked.param = Nowhere THEN 1 ELSE asked.page - s.first + 1 IN
    IF asked.request # s.request \/ asked.param \notin {s.param, Nowhere} THEN s.elsewhere
    ELSE Page(Body(s.layout, IF n \in DOMAIN s.pages THEN s.pages[n] ELSE <<>>))

Answer == Reply(site, Asked(yaml, run))

\* A connection that fails, a refusal, a page that is no JSON.
Faults == {Blocked, Page(EmptyBody)}

\* A collector for diagnostics or enrichment is passed over.
ForPostings == Purpose(yaml) = "postings"

AfterFirst == IF site.other THEN "other" ELSE "close"

Skip ==
    /\ ~ForPostings
    /\ Step("fetch", AfterFirst)
    /\ UNCHANGED <<world, yaml, table, req, run, job, steady>>

Fetch ==
    /\ ForPostings
    /\ Step("fetch", "fetch")
    /\ More(yaml, run)
    /\ \/ run' = OnAnswer(yaml, run, Answer) /\ UNCHANGED <<req, steady>>
       \/ /\ \E fault \in Faults : run' = OnAnswer(yaml, run, fault)
          /\ req' = Unsettled
          /\ steady' = FALSE
    /\ UNCHANGED <<world, yaml, table, job>>

\* upsert_postings, by external_id; of two records the later one stays.
Upserted(records) ==
    LET ids == {records[i].external_id : i \in DOMAIN records}
        latest == {i \in DOMAIN records : \A j \in DOMAIN records :
                     j > i => records[j].external_id # records[i].external_id}
    IN {p \in posts : p.external_id \notin ids} \cup {records[i] : i \in latest}

\* The site run is over, its healing included: what it has collected decides
\* what becomes of the patch it verifies.
Over(from, success) ==
    /\ IF job.by = "rerun"
       THEN /\ Step(from, "verify")
            /\ job' = [NoJob EXCEPT !.by = "rerun", !.id = job.id, !.backup = job.backup,
                                    !.stored = success]
       ELSE Step(from, "idle") /\ job' = NoJob
    /\ run' = Begun

\* What a collector adds to the issues and counts of its site run: no records,
\* and issues, fail it.
Counted(records, codes, changed) ==
    [job EXCEPT !.issues = @ \cup codes,
                !.failed = @ \/ (~records /\ codes # {}),
                !.empty = @ \/ ~records,
                !.stored = @ \/ records,
                !.changed = @ \/ changed]

\* The collector is done: its sample is saved, its records are validated and
\* stored.
Store ==
    LET codes == run.issues \cup Validate(yaml, run.records, Cardinality(posts)) IN
    /\ ForPostings /\ ~More(yaml, run) /\ ~run.raised
    /\ Step("fetch", AfterFirst)
    /\ posts' = Upserted(run.records)
    /\ job' = [Counted(run.records # <<>>, codes, posts' # posts) EXCEPT !.sample = run.sample]
    /\ UNCHANGED <<world, yaml, hist, req, run, steady>>

\* The second collector writes its sample over the first one's: an answer in
\* which the first finds nothing.
OtherBody == [EmptyBody EXCEPT !.others = {Root}]

Other ==
    /\ Step("other", "close")
    /\ \E r \in OtherResults :
          job' = [Counted(r.records, r.issues, r.records) EXCEPT
                    !.sample = IF "fetch_failed" \in r.issues THEN @ ELSE OtherBody]
    /\ UNCHANGED <<world, yaml, table, req, run, steady>>

\* An exception of a collector: the run is failed, there is no healing, and
\* the rerun callback reports no success.
Raise ==
    /\ \/ Over("fetch", FALSE) /\ run.raised /\ UNCHANGED <<req, steady>>
       \/ Over("other", FALSE) /\ req' = Unsettled /\ steady' = FALSE
    /\ UNCHANGED <<world, yaml, table>>

\* The conditions of maybe_trigger_healing that are decided here.
HealingAllowed ==
    /\ job.failed
    /\ Classify(job.issues) \in Healable
    /\ hist
    /\ ~\E i \in DOMAIN req : req[i].status = "pending"
    /\ job.sample # Nothing

\* finish_run, and healing, unless a recent rejection bars it or the LLM is not
\* configured.  Bound: there is room for a request.
Close ==
    /\ \/ Over("close", job.stored)
       \/ /\ HealingAllowed /\ Len(req) < MaxRequest
          /\ Step("close", "llm")
          /\ job' = [job EXCEPT !.run = Len(req) + 1]
          /\ run' = Begun
    /\ hist' = (hist \/ (~job.failed /\ job.changed))
    /\ UNCHANGED <<world, yaml, posts, req, steady>>

-----------------------------------------------------------------------------
(* The LLM client and the dry run. *)

\* detect_violations
Acceptable(c) == ~c.forbidden

\* LLMClient.parse: an answer that fits the schema and proposes nothing that is
\* forbidden is returned ...
Propose ==
    /\ Step("llm", "dry_run")
    /\ \E c \in Candidates : Acceptable(c) /\ job' = [job EXCEPT !.candidate = c]
    /\ UNCHANGED <<world, yaml, table, req, run, steady>>

\* ... any other is asked for again ...
AskAgain ==
    /\ Step("llm", "llm")
    /\ job.tries < Retries
    /\ job' = [job EXCEPT !.tries = @ + 1]
    /\ UNCHANGED <<world, yaml, table, req, run, steady>>

\* ... until the attempts are used up, or the API or its JSON fails.  A
\* notice (forbidden proposals) or the log (the rest) tells of it; regenerate
\* ends with the exception.
LlmFails ==
    /\ Over("llm", job.stored)
    /\ UNCHANGED <<world, yaml, table, req, steady>>

\* Variant to be refuted: regenerate adds a request to the one it is about.
ReplacedNot == req

\* regenerate supersedes the request whatever the dry run says, unless it raises.
Replaced == IF job.by = "regenerate" THEN [req EXCEPT ![job.id] = Decided(@, "superseded")] ELSE req

Request(verdict) ==
    [status |-> "pending", changes |-> job.candidate.changes, verdict |-> verdict,
     run |-> job.run, sample |-> job.sample, outcome |-> "none",
     blocked |-> "fetch_failed" \in job.issues, forbidden |-> job.candidate.forbidden,
     steady |-> steady,
     alike |-> Unseen(Patched(yaml, job.candidate.changes).cfg) = Unseen(yaml)]

\* Empty changes (infeasible), and verdicts that come with a reason instead of
\* counts, are announced and not requested.
TryCandidate ==
    LET c == job.candidate
        verdict == RunDryRun(yaml, c.changes, job.sample) IN
    /\ Over("dry_run", job.stored)
    /\ req' = CASE c.changes = <<>> -> Replaced
                [] c.changes # <<>> /\ verdict = "raised" -> req
                [] c.changes # <<>> /\ verdict \in {"patch_invalid", "patch_apply_failed"} -> Replaced
                [] OTHER -> Append(Replaced, Request(verdict))
    /\ UNCHANGED <<world, yaml, table, steady>>

-----------------------------------------------------------------------------
(* The operator. *)

Pending(id) == id \in DOMAIN req /\ req[id].status = "pending"

Reject(id) ==
    /\ pc = "idle"
    /\ Pending(id)
    /\ req' = [req EXCEPT ![id] = Decided(@, "rejected")]
    /\ UNCHANGED <<world, yaml, table, pc, run, job, steady>>

\* apply_patch_to_file applies the patch to the file as it is by now.
Applies(id) ==
    LET patched == Patched(yaml, req[id].changes) IN patched.ok /\ Valid(patched.cfg)

\* approve_and_apply, up to the rerun.
Approve(id) ==
    /\ Pending(id) /\ Applies(id)
    /\ BeginRun("rerun", id)
    /\ req' = [i \in DOMAIN req |-> IF i = id THEN Decided(req[i], "approved")
                                               ELSE Unsettled[i]]
    /\ yaml' = Patched(yaml, req[id].changes).cfg
    /\ UNCHANGED <<world, table>>

ApproveUnfit(id) ==
    /\ pc = "idle"
    /\ Pending(id) /\ ~Applies(id)
    /\ req' = [req EXCEPT ![id] = [Decided(@, "approved") EXCEPT !.outcome = "apply_failed"]]
    /\ UNCHANGED <<world, yaml, table, pc, run, job, steady>>

\* The rerun has stored records, of whichever collector: the patch is kept.
Keep ==
    /\ Step("verify", "idle")
    /\ job.stored
    /\ job' = NoJob
    /\ req' = [req EXCEPT ![job.id].outcome = "kept"]
    /\ UNCHANGED <<world, yaml, table, run, steady>>

Rollback ==
    /\ Step("verify", "idle")
    /\ ~job.stored
    /\ req' = [i \in DOMAIN req |-> IF i = job.id THEN [req[i] EXCEPT !.outcome = "rolled_back"]
                                                  ELSE Unsettled[i]]
    /\ job' = NoJob
    /\ yaml' = job.backup
    /\ UNCHANGED <<world, table, run, steady>>

\* regenerate_approval, with the sample of the run the request is from.
Regenerate(id) ==
    /\ Step("idle", "llm")
    /\ Pending(id)
    /\ Cardinality({i \in DOMAIN req : req[i].run = req[id].run}) < RegenLimit
    /\ Len(req) < MaxRequest
    /\ job' = [NoJob EXCEPT !.by = "regenerate", !.id = id, !.run = req[id].run,
                            !.sample = req[id].sample,
                            !.issues = IF req[id].blocked THEN {"fetch_failed"} ELSE {}]
    /\ steady' = req[id].steady
    /\ UNCHANGED <<world, yaml, table, req, run>>

-----------------------------------------------------------------------------

\* What the process does once it has started ...
Proceed ==
    \/ Skip \/ Fetch \/ Store \/ Other \/ Raise \/ Close
    \/ Propose \/ AskAgain \/ LlmFails \/ TryCandidate
    \/ Keep \/ Rollback

\* ... and what the timer and the operator start.
Command ==
    \/ Collect
    \/ \E id \in 1..MaxRequest :
          Approve(id) \/ ApproveUnfit(id) \/ Reject(id) \/ Regenerate(id)

Next == Proceed \/ Command \/ Redesign

Spec == Init /\ [][Next]_vars

-----------------------------------------------------------------------------
(* Properties. *)

\* What the config is answered first, as long as the site does not change.
First(cfg) == Reply(site, Asked(cfg, Begun)).body

\* The sample shows all there is: it is not a list, and an attribute that some
\* item of the listing has, some item of the sample has.
Shown(sample, pages) ==
    /\ sample.at # Root
    /\ \A attr \in {"id", "title"} : \A n \in DOMAIN pages :
          (\E i \in DOMAIN pages[n] : pages[n][i][attr] # Nothing)
             => \E i \in DOMAIN sample.items : sample.items[i][attr] # Nothing

\* The dry run foretells the rerun, as long as the site answers as it did when
\* the run failed and the config is the one the candidate was tried on.  An
\* approved patch fits, and none makes a site with one collector worse.  If the
\* patch asks the site for what was asked before (Unseen), one that was "improved"
\* is kept, and no other is, if there is one collector and the sample shows the
\* site (dry_run.py: whether a patch is worth an approval is decided by this
\* result alone).
DryRunForetells ==
    \A i \in DOMAIN req : req[i].steady =>
        /\ req[i].outcome # "apply_failed"
        /\ ~site.other => req[i].verdict # "regressed"
        /\ req[i].alike =>
              /\ req[i].verdict = "improved" => req[i].outcome # "rolled_back"
              /\ ~site.other /\ Shown(First(yaml), site.pages) =>
                    (req[i].outcome = "kept" => req[i].verdict = "improved")

\* The places of the postings in a listing, page by page, in their order.
Places(pages) ==
    UNION {{n} \X {i \in DOMAIN pages[n] : pages[n][i].id # Nothing} : n \in DOMAIN pages}

UpTo(pages, p) == {q \in Places(pages) : q[1] < p[1] \/ (q[1] = p[1] /\ q[2] <= p[2])}

\* The config fits the site, asks it for one page after the other, from the
\* first up to an empty one, and allows for all of them.
Covers(cfg, s) ==
    /\ Purpose(cfg) = "postings" /\ cfg["request"] = s.request
    /\ PageParam(cfg) = s.param /\ s.param # Nowhere
    /\ Setting(cfg, "start", 1) = s.first
    /\ Setting(cfg, "stop_condition", "empty_items") = "empty_items"
    /\ Len(s.pages) <= MaxPages(cfg)
    /\ \A n \in DOMAIN s.pages : s.pages[n] # <<>>
    /\ cfg["items_path"] = s.layout.at /\ s.layout.at \notin s.layout.others \cup BadPath
    /\ Setting(cfg, "external_id", Nowhere) = s.layout.id /\ s.layout.id # Nowhere
    /\ ~Unreadable(cfg)

\* A listing that does not change while it is read is read completely by a
\* config that covers it, each posting once and in order.
CompleteListing ==
    pc \in {"other", "close"} /\ steady /\ Covers(yaml, site) =>
        /\ Len(run.records) = Cardinality(Places(site.pages))
        /\ \A p \in Places(site.pages) :
              run.records[Cardinality(UpTo(site.pages, p))].external_id
                 = site.pages[p[1]][p[2]].id

\* A run that is called a success got records from every collector: emptiness
\* is always an issue (postings.py), whatever the config asks for.
SuccessHasRecords == pc = "close" /\ ~job.failed => ~job.empty

\* What is put before the operator was allowed to be: no run in which the site
\* refused an answer leads to a request, no forbidden proposal gets through the
\* retries, and every request changes something its dry run could measure.
RequestsVetted ==
    \A i \in DOMAIN req :
        /\ ~req[i].blocked
        /\ ~req[i].forbidden
        /\ req[i].status = "pending" => req[i].changes # <<>>
        /\ req[i].verdict \in {"improved", "regressed", "unchanged"}

\* Through every sequence of patches and rollbacks, those tried on a config
\* that is gone included, the config file loads, and what the page loop of a site
\* with one collector evaluates can be evaluated: the path of the items, because
\* the dry run has tried it, and the paths and the template of the mapping, because
\* only a rerun that has read an item with them lets a patch stay.  (While a patch
\* is verified it may be otherwise: one that turns the pages off is tried on no
\* page, and the mapping is not tried on a sample without items.  The sample of a
\* second collector makes the dry run blind, and its records keep any patch.)
ConfigUsable ==
    /\ Valid(yaml)
    /\ ~site.other =>
          /\ MaxPages(yaml) > 0 \/ pc = "idle" => yaml["items_path"] \notin BadPath
          /\ job.by # "rerun" => ~Unreadable(yaml)

\* Every process comes to its end, whatever config a patch has made and whatever
\* the answers: each of its steps goes on to a later stage, or leaves fewer
\* pages or fewer attempts.
Stage == [idle |-> 0, verify |-> 1, dry_run |-> 2, llm |-> 3, close |-> 4,
          other |-> 5, fetch |-> 6]

Nearer ==
    \/ Stage[pc'] < Stage[pc]
    \/ /\ pc = "fetch" /\ pc' = "fetch" /\ ~run.left
       /\ \/ run'.left
          \/ run.pages < run'.pages /\ run'.pages <= MaxPages(yaml)
    \/ /\ pc = "llm" /\ pc' = "llm"
       /\ job.tries < job'.tries /\ job'.tries <= Retries

ProcessesEnd == [][pc # "idle" => Nearer]_<<pc, run, job>>
=============================================================================
