# scraper-ops in TLA+

scraper-ops collects job postings, and when a site's API changes it asks an LLM
for a patch of the site's config, asks an operator on Slack, applies the patch,
verifies it with a rerun and rolls it back if the rerun brings nothing.  Each
command is a process of its own; they meet in one SQLite database, one audit
log, one directory of yaml files and one lock file.  This directory models that
meeting: what the processes do statement by statement, what they may never do
together, and where the code and its documents disagree.

`PROJECT.json` holds the list of components, the definition-to-source map, the
runs, the findings and the hazards.  Run a model with
`tlc -config race.cfg MCRunner` and check proofs with `tlapm DecisionProofs.tla`.

## 1. Inventory

| component | state | operations | interacts with | what is hard | what makes it correct |
|---|---|---|---|---|---|
| Approval table (`storage/approval.py`) | `approval_request` rows | insert, get, list_pending, update_status, expire, attach, count, recent rejections | every process, autocommit statements | two statements of one function are not atomic | a decided row stays decided; conditional UPDATE admits one winner |
| State machine (`approval/state_machine.py`) | none of its own | create, approve, reject, supersede, expire_due | table, audit log | re-check then UPDATE then log, with other processes in between; kills | one decision per request, log and table agree |
| Audit log (`audit.py`) | `data/audit.log`, append-only | append | state machine, patching | the line is not in the row's transaction | never claims what did not happen |
| Patching (`patching/`) | `configs/sites/*.yaml`, backups | read, backup, overwrite, rerun, roll back | config loader, site run, Slack | several file steps per write, no lock between approve commands, truncation visible to others | only audited patches get in; a patch that fails its rerun gets out |
| Healing flow (`runner/healing_flow.py`) | none of its own | maybe_trigger_healing, regenerate_approval | LLM, dry run, table, Slack | checks made minutes before the insert | one open request per site, bounded regeneration |
| Command line (`runner/cli.py`) | process memory | collect, approve, reject, regenerate, poll_decisions, daily_summary | all | started by timers, operators and the poller without mutual order | |
| Run lock (`locking.py`) | the lock file | acquire, release | collect runs only | survives its process | at most one collect run, and it comes free again |
| Decision poller (`runner/decision_poller.py`) | the fetched batch | fetch, dispatch, ack | server, all three commands | at-least-once delivery, exceptions that must or must not ack | no click lost, none stuck, none out of order, no double effect |
| Approval server (`approval_server/`) | queue file, ack file | click, list_pending, ack | Slack, poller | two files read one after the other | the same |
| Run and posting store (`storage/repository.py`, `sqlite.py`) | `runs`, `job_postings` | start_run, upsert, finish_run, queries | site runs | overlapping writers, deferred transactions, kills | every posting accounted for once, none lost |
| Config loader and schema | none | load, validate | collect, rerun | reads a file another process is writing | |
| Collectors, fetchers (`collectors/`) | the loop's locals | page loop, extraction | HTTP, site run, dry run | pages, limits and stop conditions an LLM may have changed; bad answers between two pages | ends; reads a listing once and completely |
| Validators, diagnosis | none | pure functions | site run, healing | several issues make one category | emptiness is never a success; a blocked site is never healed |
| Patch generation, dry run (`healing/`) | none | apply_patch, two replays, verdict | LLM, collector, sample | tried on one stored page, approved hours later | the verdict foretells the rerun; configs stay usable |
| LLM client (`llm/`) | the attempts | retry loop | OpenAI | rejected answers up to a limit | nothing forbidden gets through, and it ends |
| Evidence store (`evidence.py`) | sample and report files | write, promote, clean up | site run, healing, regenerate | retention may remove what a request needs | a sample outlives its requests |
| Slack notifier | none | messages | all | | only whether a card was posted |
| Slack signature, clock, env, logging | none | pure computation and formatting | | | not modelled |

## 2. Modules

    ApprovalTable       the SQL statements of the approval table
      RunnerState       what the processes share and hold; program points
        Deciding        the checks and _decide (approve, reject, supersede)
        Healing         a site run, automatic healing, regenerate, create
          Patching      approve_and_apply after the decision
          Collecting    a collect run: lock, sweep, sites
            Runner      all processes, kills, the clock; the properties
              DecisionQueue   the server's queue and the pollers
              Evidence        the samples of failed runs and their retention
    ApprovalLifecycle   abstract: what happens to one request
    PostingHistory      abstract: what the store promises the runs of a site
    SiteRun             the transactions of a site run
    Collector           the page loop, one answer at a time
      Diagnosis         the validators and the classification
        DryRun          the schema, apply_patch, the replays and the verdict
          SelfHealing   one site from its answers to its config
    MCRunner, MCDecisionQueue, MCEvidence, MCSelfHealing   instances for TLC
    Induction           induction over the natural numbers, for the proofs
    TypingProofs        Runner: types, what a step may touch, decided stays decided
      DecisionProofs    decisions, lifecycle, patches, verification, log, run lock
        QueueProofs     DecisionQueue: refinement, acknowledgement, order
      RegenerationProofs   the limit of regeneration; Evidence: the samples
    SiteRunProofs       SiteRun
    HealingProofs       SelfHealing: types, vetting, termination, usable configs
      PageProofs        what its replays and page loops compute

**Processes.** `Worker` is a set of slots in which processes run one after
another; `Commands[w]` says which modes are started in a slot.  `pc[w]` is the
next statement, `job[w]` the local variables.  One action is one atomic effect
on what is shared: one autocommit SQL statement, one audit line, one step of a
file operation (`copy2`; `write_text` is two, truncation and writing).  A check
and the statement after it are separate actions whenever the code reads first
and acts later: `Get`/`Recheck`/`Decide`/`AuditDecided`, `SweepSelect`/
`SweepUpdate`/`SweepAudit`, `HealPending`/.../`Insert`.

**Data.** A request is a number (AUTOINCREMENT), a config is the set of
patches in it (or `Torn`, the empty file between truncation and writing), a
backup is named by site and second, a run is the id of the first request made
in it.  The clock counts ticks; a tick is any time between reads that matters.
What the LLM, the dry run and the site's API answer is a free choice; whether a
patch fits a config is free too, except that it never fits an empty one.

**Two readings of the clock are merged** with the statement they feed
(`decided_at`, `created_at`): the code reads the clock in the process and then
executes the statement, with nothing shared in between.  The sweep keeps its
reading (`stamp`), since its UPDATE follows another statement.

**The queue.** A click is a position of `queue`, `acked` the acknowledged ones.
A poller is a slot of Runner: dispatching a click is `Begin` with the click's
command, and its steps are Runner's.  How a command ends tells whether the click
is acknowledged: leaving it at a program point in `Known` is a return or one of
the exceptions of `decision_poller.py:104`, at one in `Unknown` any other.
`except LookupError` also catches a `KeyError` or `IndexError` from inside a
command; the LLM part of regenerate is therefore in both.  `seen` is the ack
file as the server read it, before it reads the queue.

An acknowledgement the poller has given up on (`late`) may be written at any
time after, in the middle of another poll.

**One site in full.** Runner leaves open what a site run collects, what the LLM
proposes and what the dry run says.  `SelfHealing` is the other cut: one process
at a time, but with everything it sees.  The site is a layout and a list of
pages, which it gives to whoever sends its request with its page parameter and a
number from its first one on; to any other request or parameter it gives what is
`elsewhere` (`Reply`).  A config is a function from the keys it sets to their
values (the schema's defaults are `Setting`'s); a key stands for a dotted path a
patch may name, and a request's url, method, headers and params are one setting.
A fetched page is what a mapping can tell apart: at which path the items are, at
which paths something else is, and under which attributes an item keeps its id
and title.  A path or template in `BadPath` raises when it is evaluated, that of
the items at once, those of the mapping at the first item (`Unreadable`).  The page
number is not a variable: it is counted up with `pages_done`, so `Asked` is
`start` plus that.  A collector whose purpose is another than postings is passed
over (`Skip`).  The page loop is one action per
answer (`Fetch`), because the site may be redesigned between two; the dry run
replays the same operator on the stored sample in one step, because nothing can
come in between that it would see.  `FakePages` keeps the code's reading of
a sample that is a list.  A second collector of the site is represented by what it
does to the first: its records and issues count, and its sample overwrites the
other.  `steady` in a request says that nothing has changed or failed since its
run began, `alike` that its patch changes nothing of what the dry run cannot see
(`Unseen`: what the site is asked for first, and the purpose).

**Samples.** `Evidence` joins each step of Runner with what it does to the
samples: written by a failed run, read by healing and by regenerate, removed at
the beginning of a collect run.  A sample belongs to the process until its request
is created and to the run's first request from then on.

**The store.** `SiteRun` opens up `RunSite`, which Runner takes as one step.
`BEGIN` is deferred, so a transaction's first SELECT fixes a snapshot, its first
write asks for the write lock, and SQLite refuses it ("database is locked") when
someone committed in between, to any table.  `Upsert` stores one posting: the loop
works on what its transaction sees (`snap`), which nobody else does, and `Commit`
makes that the table.  `fetched` is a history of what each run's collectors got,
`got` of what the last of them did.  The timestamps, `raw_json` and the summary's
window are left out.

`PostingHistory` has no transactions: a run takes the records of a collector
(`Take`), which are then merged into the table as it is, all at once (`Store`), or
given up (`Fail`); `Close` reports as inserted what the table says the run was the
first to store.  `SiteRun` implements it (`HistorySpec`): its table is the table,
`got` is pending from the collector to the COMMIT, and a run has failed once its
status says so or it has ended without closing its row.

## 3. Runs

Passing runs:

| run | instance | shows |
|---|---|---|
| `race` | timer and two operators over 2 requests of one site, a kill between a decision or expiry and its audit line | `TypeOK`, `AppliedAtMostOnce`, `OneOperatorDecision`, `PatchHasAuditedApproval` with interleaved writes, backups and rollbacks, `AuditBearsOut`, and the refinement `LifecycleSpec` |
| `regenerate` | timer with cleanup and one operator who regenerates, limit 2, 3 rows, a kill before the insert | `RegenerationBounded`, `SampleOutlives`: no request that is open and in time loses its sample to its age |
| `healing` | one site with 12 states, 14 candidates, 2 redesigns, 2 requests, with and without a second collector | `DryRunForetells`, `CompleteListing`, `SuccessHasRecords`, `RequestsVetted`, `ConfigUsable`, and `ProcessesEnd` |
| `collect` | two timers, two sites, one kill, stale lock | `HealingAsksOnce` as long as nothing is approved or regenerated; `DueIsClosed` |
| `approve` | timer, one operator with all commands, no kill | `ConfigsVerified`, `QuietlyAudited`, `ApprovalSettles` |
| `poll` | two pollers, 2 clicks, a fault while deciding | `QTypeOK`, `AckedIsDecided`, `TriedInOrder` |
| `clicks` | poller with all commands, 2 clicks | `ClicksLeave`, and `RunnerSpec`: pollers add no behaviour to Runner |
| `store` | 2 runs, 2 collectors, 2 records a run, 2 postings, 2 contents, a fault | `TypeOK`, `SummaryAddsUp`, `InsertedIsFirstSeen`, `KnownSite`, `SeenByLastRun`, `HistoryKept`, `RunsClose`, `HistorySpec` |

Runs whose property is violated; each is a disagreement between the code and
something its documents or comments say (`PROJECT.json`, findings):

| run | property | what TLC shows |
|---|---|---|
| `decided_once` | `DecidedOnce` | the sweep's UPDATE names ids only; a decision taken after its SELECT is overwritten with `expired` |
| `healing_twice` | `HealingAsksOnce` | the rerun of an approve command heals outside the run lock, next to a collect run |
| `unverified` | `ConfigsVerified` | two approvals of one site: the second backs up the first one's unverified patch and restores it |
| `retry` | `AckedIsSettled` | an approve that died after its decision is redelivered, refused and acknowledged: nothing is retried |

**Bounds.** `MaxId` requests, `MaxTime` ticks, `MaxCrash` kills, `MaxClick`
clicks, `MaxLate` late acknowledgements at a time (one in `poll`, where the next
poll and the order are at stake; none in `clicks`, where one only makes a click
leave sooner), and the slots.  A race about one request needs two deciders, one of whom may also be the
timer's slot after its run (`race`); interference through a config needs two
requests of one site (`race`, `unverified`).  In `regenerate`
one tick is a day, so time passes between
processes only; the samples keep for 2 ticks where requests are open for 1, and
the limit of 2 rows per run leaves a third row to exceed it.  How far two
processes that regenerate at once may overshoot is proved (section 4).  Order and duplicate delivery need two clicks and two pollers
(`poll`).  Overlapping transactions need two runs, partial failure and a posting that comes
again in a later collector's batch two collectors, and half a batch two records
(`store`).  A run gets these two from one collector or from both (`MaxRecords`); two
from each are beyond TLC's five minutes, and the proofs cover any number.  `Expiry` is one
tick, so a request is first not due and then due; `RejectGuard` likewise.  A
row is created only while an id is left (`IdsLeft`).

`healing` uses every way the answer may miss the config: items moved, at the top
level, under other names, with an id missing, none at all, none on the first page
only, and the listing at another address, where pages are numbered from 0 under
another name; what is at the old address is a refusal or a notice.  Listings have
two pages under a `max_pages` of 3.  The candidates fit, do not fit, are invalid,
cannot be evaluated (a path of the items, a template of the mapping), turn the
pages off, ask for fixed pages, take the page parameter away, begin at another
page, ask for something else, or turn the collector off.  So there are
candidates that are "improved" and rolled back, and such that are "unchanged" and
kept.  `MaxRequest` 2 lets a second candidate meet the config the first one left,
and `MaxRedesign` 2 lets the site change and change back.  These bounds give 2.7
million states.  The bound `RegenLimit` is 2 there, as
`MaxRequest`.

`poll` has faults at the three points at which a kill and a busy database differ
from what other actions already show: before and at the decision.  In `clicks`,
`Expiry` is 0, so that every request is due: a click to regenerate a request
that is not due may fail poll after poll, since the LLM may.  `DueIsClosed` is
checked where nothing writes configs (`collect`): a process killed inside
`write_text` leaves an empty config, on which `load_all_sites` raises, and from
then on no collect run of any site starts until someone repairs the file.  For
the same reason `ApprovalSettles` is checked without kills.

**Symmetry** is used in `poll` only (two pollers with the same commands), whose
properties are safety properties.

**Fairness.** A process that has started goes on (weak fairness of its steps);
the systemd timer keeps starting collect runs (`Collect`); time passes; an
operator who finds a stale lock removes it, as `docs/deployment.md` tells them
to.  Nothing makes anyone decide a request or click a button.  For the queue,
polls are restarted by their own timer, and the server can be reached again and
again: any one poll may fail, so fetching, dispatching a given click and
acknowledging it have strong fairness.  Fairness of single runs in `SiteRun`
starts when the run does.  `SelfHealing` has none: that its processes end is
stated as an action property, each step of a process going on to a later stage
or leaving fewer pages or attempts (`ProcessesEnd`), which needs no fairness
beyond that the process goes on, and can be proved.

## 4. Proofs

TLAPS checks these for any number of processes, requests, sites, pollers,
clicks, ticks, runs, postings and kills, and any listings, configs and
candidates, from the named assumptions on the constants.  These give the
constants their types (`TableAssumption`, `RunnerAssumption`, `SiteRunAssumption`,
`SelfHealingAssumption`), make the processes finitely many (`FiniteWorkers`), keep
pollers from running `collect` (`QueueAssumption`), make the volume-drop ratio a
fraction (`DropAssumption`), give samples their 30 days against three times 24
hours (`EvidenceAssumption`), and start a site with a config that loads and whose
paths and template can be evaluated, as the one in `configs/sites/` does.
`SelfHealingAssumption` also says that of a refused answer no body is read, as
the loop breaks off before it.

| theorem | module | says |
|---|---|---|
| `TypeInvariant`, `Typing` | TypingProofs | `TypeInv`, hence `TypeOK` |
| `AppliedOnce` | DecisionProofs | `AppliedAtMostOnce` |
| `DecisionLoggedOnce` | DecisionProofs | `OneOperatorDecision` |
| `AuditTrustworthy` | DecisionProofs | `AuditBearsOut` |
| `RunnerImplementsLifecycle` | DecisionProofs | Runner implements `ApprovalLifecycle` (`LifecycleSpec`) |
| `PatchAudited` | DecisionProofs | `PatchHasAuditedApproval` |
| `AuditComplete` | DecisionProofs | `QuietlyAudited`, unless a process was killed that owed a line |
| `VerifiedUnlessKilled` | DecisionProofs | `ConfigsVerified`, if no two approve commands overlap past their decisions and none is killed while its config is unverified |
| `OneOpenRequest` | DecisionProofs | `HealingAsksOnce`, if nothing is approved or regenerated |
| `QueueRefinesRunner` | QueueProofs | QSpec implements Runner's Spec |
| `DeliveredOnce`, `ClicksDecideOnce` | QueueProofs | the first two safety properties, of clicks |
| `QueueTyping` | QueueProofs | `QTypeOK` |
| `NoClickDropped` | QueueProofs | `AckedIsDecided` |
| `ClicksInOrder` | QueueProofs | `TriedInOrder` |
| `RegenerationIsBounded` | RegenerationProofs | `RegenerationBounded` |
| `EvidenceRefinesRunner`, `SampledRunsBounded` | RegenerationProofs | Evidence implements Runner's Spec, hence the bound there |
| `SampleTyping`, `SamplesOutlive` | RegenerationProofs | `ETypeOK`, `SampleOutlives` |
| `StoreTyping`, `StoreInvariant` | SiteRunProofs | `TypeOK`, and the strengthening the next six rest on |
| `SummaryTrustworthy` | SiteRunProofs | `SummaryAddsUp` |
| `InsertedCounted` | SiteRunProofs | `InsertedIsFirstSeen` |
| `KnownSiteStays` | SiteRunProofs | `KnownSite` |
| `ShownIsSeen` | SiteRunProofs | `SeenByLastRun` |
| `HistoryNeverRewritten` | SiteRunProofs | `HistoryKept` |
| `RunsSerialized` | SiteRunProofs | SiteRun implements `PostingHistory` (`HistorySpec`) |
| `HealingTyping` | HealingProofs | `TypeOK` |
| `OnlyVettedRequests` | HealingProofs | `RequestsVetted` |
| `SuccessNotEmpty` | HealingProofs | `SuccessHasRecords` |
| `EachStepNearer` | HealingProofs | `ProcessesEnd` |
| `ConfigAlwaysUsable` | HealingProofs | `ConfigUsable` |
| `DryRunTrusted` | PageProofs | `DryRunForetells` |
| `ListingComplete` | PageProofs | `CompleteListing` |

So every invariant and every action property of the passing runs is proved, and
the runs tell that the hypotheses are met.

The arguments:

* **Types.** `TypeOK` is not inductive: whether a site or a request id in
  `job[w]` is a real one depends on the program point.  `TypeInv` is `JobsOK`
  (what each process holds at each point), `DataOK` (the shared state; a row
  that exists has a site and a run) and `KeptOK` (requests a process remembers
  exist).
* **Decisions.** A process has *won* a request when its UPDATE changed the row
  and its audit line is not written yet, or its patch is not.  `DecisionInv`:
  what is won is decided (`WonDecided`), by one process (`WonOnce`), its patch
  is unwritten (`WonFresh`) and its decision unlogged (`WonUnlogged`); a
  pending request is in no log and no config (`OpenUntouched`); what a sweep
  is about to log is expired in the table (`SweptExpired`); and what is logged
  is so (`Told`).  The conditional UPDATE is what makes `WonOnce` inductive.
  The three properties are `Told` or follow from the others.
* **The lifecycle.** Every request's abstract status is its row's, and it is
  carried while an approve command that won it has not written yet.  By `WonOnce`
  one process carries it at most, so the write, a refused patch and a kill map to
  `Apply` and `Lapse` of a carried request, the conditional UPDATE to `Approve` or
  `Close`, the sweep to `Sweep`, and every other step to a stutter.
* **Patches.** `PatchInv` follows patches through every copy of a config: the
  text an approve command has read, the files and the backups hold audited
  patches only, and a command on its way to a write has logged its approval.
* **The log is complete.** `Recorded`: what is in the table and not in the log is
  owed by a process that stands between the two writes (`Owes`).  A kill there
  loses the line, so the property holds as long as the state is `Spared`: no
  kill yet, or none possible at those points.  Kills elsewhere do no harm.
* **Verification.** `VerifiedInv`: each config is verified, or attended by the
  approve command that has it in hand, which holds a verified copy of it, as text
  first and as backup later (`TriedAt`).  This is inductive as long as two approve
  commands never overlap between decision and outcome (`Apart`, assumed of the
  behaviour, since no code enforces it); each may be any process, one after the
  other.  Commands for different sites may not overlap either: one that finds
  another's config empty fails in `load_all_sites` and ends without its
  rollback.  The run `unverified` shows that overlapping commands break the
  property; in the run `approve` they never overlap.
* **The run lock.** `AskInv`: one process at most is past the lock, and the lock
  exists while one is (a stale one is removed only when none is); a process
  between its check for a pending request and its insert is past it, and its site
  has none.  Only inserts make requests pending.  Approve commands heal in their
  rerun and regenerate inserts without the lock, which is why neither may occur
  (`OnlyCollectsHeal`; `healing_twice` shows the first).
* **Regeneration.** A process past `count_for_run` is a row to come: the rows of
  a run plus those processes, less the one that may come last, never exceed the
  limit.  The step that checks keeps this because it is below the limit when it
  does; the step that inserts trades one for the other.  Counting needs
  finitely many processes and the library's theorems on cardinalities.
* **Samples.** `SampleInv`: the sample of a run is as old as the run's first
  request or was removed for its age or the size of the store; a process about to
  insert has one of today; and the first request of a run is the first of its own
  run (`FirstRuns`).  What the code measures from a request's creation is measured
  from its `expires` here, `Expiry` later, so the retention covers the
  `RegenLimit` expiries that the requests of a run can last.
* **Delivery.** `QueueInv` types the queue; each step of `QNext` is then a step
  of `Next` or a stutter, so all that is proved of Runner holds of clicks.
  `PhaseInv` ties a poller's phase to its process and its batch, for `QTypeOK`.
* **Acknowledgement.** Decided requests stay decided (`Onward`); a command
  that is past its decision, or refused at its first check, has a decided
  request (`CommandPasses`).  `AckInv` carries this from the dispatch to the
  ack, and to the acknowledgements under way.
* **Order.** A batch may have gaps, but everything below one of its positions
  is in it or has been tried (`BatchInv`).
* **The store.** `StoreInv`: a transaction that comes to write and is not
  outdated has read the table as it is; one that holds the write lock sees the
  table plus what it has stored itself (`Extends`), and its counts so far are
  the number of postings it was the first to store.  SQLite's refusal of outdated
  snapshots is what makes this inductive; the mutants without it fail.  The
  summary is a sum over runs: `OrderListsRuns` and `SumSteps` unfold it,
  `ReportedSum` adds the disjoint sets of first-seen postings up by induction over
  the runs, and `Unreported` says that a run not finished counts nothing.
* **Runs one after the other.** `MergeInv` adds which records a transaction has
  merged: those of `got` that are not left in its batch, each posting with the
  content of one of them (`Merged`).  COMMIT is where the abstract `Store` happens;
  the steps before it are stutters (`StepStutters`), a lost transaction, an exception
  and a kill are `Fail` (`StepFails`), also when nothing was pending.
* **One site.** `HealingInv` types the requests (`ReqOK`), the page loop
  (`RunOK`), the job at each step (`JobOK`) and keeps the config valid.  The
  loop's records and issues tell why a collector came back empty; a refused
  answer stays among the issues of its run, and classification puts it first, so
  the run is not healed.  The page loop ends since each answer adds a page or
  leaves it.  `TypeInv` adds that one request is open at a time and who may make
  the next (`Holds`).
* **Configs stay usable.** `UsableInv`: every pending patch was tried on some
  config that asked for pages (`Tried`), and unless it turned the pages off its
  result had a path that can be evaluated.  Patches assign settings, so a path a
  patch sets is good on any config and one it does not set is the old one's
  (`TriedApplies`, by induction over the changes).  The dry run shows nothing of
  the mapping, since its sample may have no items.  What does is the rerun: a
  loop that has records has read an item, and with a mapping that cannot be
  evaluated it would have raised instead (`TurnUnreadable`); a patch that is kept
  therefore has one that can, and one that is rolled back leaves the backup, which
  could be evaluated before.
* **The dry run.** `ForetellInv` carries the measurement from the sample to the
  rerun: the sample is what the site answers first (`Known`), what the patched
  config gets out of it (`Gets`) stays true as long as the request is steady, if
  the patch asks for what was asked before (`ReplayKnown`), and the rerun's loop
  loses none of it, page by page and collector by collector (`Live`, `Counting`).
  The converse, that nothing else is kept, needs a sample that is `Clear`: see
  `DryRunForetells`.  Without `alike` neither holds, and the run has both cases.
* **The listing.** `ListingInv`: after *n* pages the loop of a config that covers
  the site (`Covers`: its request, page parameter, first page, paths and enough
  pages) holds the postings of the first *n* pages, each at the place it has in the
  listing (`Lists`), and it leaves after the last.  `Before` counts the places of
  earlier pages, `Cardinality`s and lengths being related by induction over the
  items of a page.

**Induction over data.** The library's induction theorems have operator
parameters, which the installed provers cannot instantiate.  Its statement that a
non-empty set has a minimal element under a well-founded order has none, and
neither has the one that `<` on the naturals is one; `Induction` derives from them
that a set with 0 that is closed under successor contains all naturals.  What
is to be proved of all *n* is then written as a set of *n*.  The recursive
functions that are reasoned about (`Sum`, `Records`, `Patched`) are functions on an
interval; a lemma shows first that the recursion has a solution.

Model-checked only: liveness (`DueIsClosed`, `ApprovalSettles`, `ClicksLeave`,
`RunsClose`), because TLAPS reasons about neither fairness nor ENABLED; and the
properties of the violation runs, which are false.

## 5. What is not modelled, and what else was noticed

* Errors of single writes to evidence, Slack and the audit log; the texts of all
  messages; thread replies (so also that a decision may precede `attach_slack`).
* Clicks about requests whose card never appeared are allowed in
  `DecisionQueue`: the model has more clicks than Slack, never fewer.
* `start_run` on a busy database: it raises and there is no run.
* The daily summary's text, the runtime policy (a collect run's plan is any set
  of sites), reports, the sample of the last success (prompts read it), and what
  a prompt says.
* Errors of the second collector's config: it is one that works.
* Of what a patch may reach: whole sub-trees (`request`, `mapping`, ...), `site`,
  `name`, `enabled`, `runtime`, a collector's `type` and `fetcher`, other collectors,
  the paths of link, company and deadline, `request.body`, and the validation's
  two numbers.  Some of them the dry run cannot see either: one
  that sets `enabled` to false is verified by a rerun that does not look at it, and
  collect runs then pass the site over (`runtime.py:34`); one that renames the site
  is not found by the rerun (in Runner, `LoadConfigs`).
* `link_template` is read as on a site whose mapping has no path for links; that
  what it makes is a good link is not stated.  A path that parses can be
  evaluated: that a jmespath function may raise on a value of another type is not
  modelled, nor are items that are no objects.
* Authorisation and request signatures, which refuse and change nothing.
* The migration of the approval table in `sqlite.py`, done once at an upgrade.

Also noticed while modelling, without a run of its own:

* a kill between a row's change and its audit line leaves a change the log does
  not know of, although the product plan puts both into one transaction
  (`docs/product-plan.md:477`): in `approve` with `CrashAt <- Anywhere` and
  `MaxCrash = 1`, TLC refutes `QuietlyAudited`;
* a site whose postings were stored by a run that failed later still counts as
  new after successful runs that find everything unchanged, since
  `has_successful_history` wants one that inserted or updated something, where
  `README.md:92` wants one that succeeded; `KnownSite` therefore says this
  of sites none of whose runs failed;
* `approval/state_machine.py:24` gives requests 24 hours, the product plan 48
  (`docs/product-plan.md:489`);
* the limit of three regenerations counts the original row, so two are possible;
* two backups of a site within one second have the same name;
* a request past its `expires_at` is approved and applied as long as no collect
  run has swept it, where `docs/product-plan.md:468` says that no patch of an
  expired request is applied (TLC refuted the property in `race`); likewise a
  request past due can be regenerated, and may then outlive its sample;
* a site whose answer is a list: `run_dry_run` takes the stored sample for a
  list of pages, finds nothing in any, and every candidate is "unchanged";
* a site with two collectors: the second one's sample overwrites the first one's,
  so that the LLM and the dry run work on the wrong page; the rerun counts the
  records of both, so that a patch that breaks the first is kept; and the issues
  of both make one category.  A patch that sets `max_pages` to 0 is kept there,
  and after it a path that cannot be evaluated passes the dry run, since no page
  is tried (`ConfigUsable` says why it holds for one collector only);
* `healing/dry_run.py:4` lets its caller judge by the dry run alone whether a
  patch is worth an approval, but the fake fetcher ignores the request and its
  parameters and the dry run the purpose: a patch that mends `items_path` and sets
  `start` to 9, or drops the collector's purpose, is "improved" and then rolled back
  with site and config unchanged, and one that follows the listing to its new
  address is "unchanged" and then kept.  `DryRunForetells` says this of patches that
  ask for what was asked before;
* a patch that breaks a path of the mapping passes a dry run on a sample without
  items, and raises or gets nothing in its rerun, which rolls it back; on a site with two collectors it is kept if the second one gets records and
  the first one no items, and later runs raise;
* a patch tried by the dry run is judged by its own `required_fields`: one that
  requires less has fewer incomplete records;
* with pagination `none` or `cursor`, or `page` without a `param`, the loop asks
  for the same page up to `max_pages` times, and with another `start` it skips
  pages (`Covers` excludes both), and that the limit cut a listing off is no issue;
* `previous_count` is the number of all postings ever stored, so that
  `volume_drop` compares a listing with the site's whole past;
* of the LLM's failures only a rejected output is announced; invalid schemas,
  invalid JSON, API errors and a dry run that raises end in the log, although the
  comment at `runner/healing_flow.py:119` promises a plain notice; and regenerate
  passes a rejected output on as an exception, the request staying open;
* the retention of 7 days for the snapshots of successful runs
  (`docs/deployment.md:302`) is a parameter of `cleanup` that nothing reads.

## 6. Plan

Done: the core (Runner), the queue with late acknowledgements, the store, the
site from its pages to its config, the samples, and the proofs of section 4.
Next, in this order:

1. `SiteRun` with the collectors of `SelfHealing` instead of a free outcome, and
   `PostingHistory` in place of `RunSite` in Runner.
2. `SelfHealing` with two collectors of one kind instead of the second's effect.
3. A history of what was sent to Slack: cards, and replies sent nowhere
   because `attach_slack` came later than the decision.
