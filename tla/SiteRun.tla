------------------------------ MODULE SiteRun ------------------------------
(***************************************************************************)
(* The runs of one site and the postings they store: _run_site in          *)
(* app/runner/cli.py over app/storage/repository.py.  What Healing takes as*)
(* one step (RunSite) is here every transaction of it.  A collect run and  *)
(* the reruns of approve commands, which take no run lock, may be at the   *)
(* same site at the same time, each with a connection of its own.          *)
(***************************************************************************)
EXTENDS Integers, FiniteSets, Sequences, SequencesExt

CONSTANTS
    Run,         \* the runs of the site
    NoRun,
    Posting,     \* external ids
    Hash,        \* the contents a posting may have, by content_hash
    NoHash,
    Collectors,  \* how many collectors the site's config has
    MaxRecords,  \* bound: how many records the collectors of a run store and get
    MaxFault     \* bound: how many runs are killed or find the database busy

ASSUME SiteRunAssumption ==
    /\ NoRun \notin Run
    /\ NoHash \notin Hash
    /\ IsFiniteSet(Run) /\ IsFiniteSet(Posting)
    /\ Collectors \in Nat \ {0}
    /\ MaxRecords \in Nat
    /\ MaxFault \in Nat

VARIABLES
    runs,     \* table runs
    posts,    \* table job_postings
    writer,   \* the run whose transaction holds the database's write lock
    stale,    \* the runs whose transaction reads an outdated snapshot
    pc,       \* pc[r]: the next statement of run r
    mem,      \* mem[r]: its local variables
    faults,   \* how many runs were killed or gave up on the database
    fetched,  \* history: the records each run has got from its collectors
    got       \* history: those from the last collector that had any

Record == [id : Posting, hash : Hash]
Batch == UNION {[1..n -> Record] : n \in 1..MaxRecords}
NoStats == [inserted |-> 0, updated |-> 0, unchanged |-> 0]
Stats == [inserted : Nat, updated : Nat, unchanged : Nat]

RunRow == [status : {"none", "running", "success", "failed"}, stats : Stats]
PostRow == [hash : Hash \cup {NoHash}, first : Run \cup {NoRun}, last : Run \cup {NoRun}]
Absent == [hash |-> NoHash, first |-> NoRun, last |-> NoRun]
NoPosts == [p \in Posting |-> Absent]

\* collect: the next collector, or finish_run after the last; select: BEGIN
\* and the first SELECT; write: the lock for the first write; upsert: the
\* postings one by one, and COMMIT.
PC == {"start", "collect", "select", "write", "upsert", "over"}

Mem == [left : 0..Collectors,            \* collectors that have not run yet
        total : Stats,
        status : {"success", "failed"},  \* last_status
        batch : Batch \cup {<<>>},       \* upsert_postings: what is left to store,
        stats : Stats,                   \* its counts,
        snap : [Posting -> PostRow]]     \* and the table as its transaction sees it

vars == <<runs, posts, writer, stale, pc, mem, faults, fetched, got>>

TypeOK ==
    /\ runs \in [Run -> RunRow]
    /\ posts \in [Posting -> PostRow]
    /\ writer \in Run \cup {NoRun}
    /\ stale \subseteq Run
    /\ pc \in [Run -> PC]
    /\ mem \in [Run -> Mem]
    /\ faults \in 0..MaxFault
    /\ fetched \in [Run -> SUBSET Record]
    /\ got \in [Run -> SUBSET Record]

Init ==
    /\ runs = [r \in Run |-> [status |-> "none", stats |-> NoStats]]
    /\ posts = NoPosts
    /\ writer = NoRun
    /\ stale = {}
    /\ pc = [r \in Run |-> "start"]
    /\ mem = [r \in Run |-> [left |-> Collectors, total |-> NoStats, status |-> "success",
                             batch |-> <<>>, stats |-> NoStats, snap |-> NoPosts]]
    /\ faults = 0
    /\ fetched = [r \in Run |-> {}]
    /\ got = [r \in Run |-> {}]

Step(r, from, to) ==
    /\ pc[r] = from
    /\ pc' = [pc EXCEPT ![r] = to]

\* A statement in autocommit mode, or a COMMIT: it needs the write lock, and
\* leaves the snapshots of the transactions that have only read outdated.
Commits(r) ==
    /\ writer \in {NoRun, r}
    /\ writer' = NoRun
    /\ stale' = (stale \cup {q \in Run : pc[q] = "write"}) \ {r}

-----------------------------------------------------------------------------
(* upsert_postings. *)

\* BEGIN is deferred: the first SELECT takes the snapshot, and no lock.
Select(r) ==
    /\ Step(r, "select", "write")
    /\ mem' = [mem EXCEPT ![r].snap = posts]
    /\ UNCHANGED <<runs, posts, writer, stale, faults, fetched, got>>

\* Variant to be refuted: the rows are read outside the transaction.
WriteUnchecked(r) ==
    /\ writer = NoRun
    /\ Step(r, "write", "upsert")
    /\ writer' = r
    /\ stale' = stale \ {r}
    /\ UNCHANGED <<runs, posts, mem, faults, fetched, got>>

\* The first INSERT or UPDATE needs the write lock and an up-to-date snapshot.
Write(r) ==
    /\ writer = NoRun /\ r \notin stale
    /\ Step(r, "write", "upsert")
    /\ writer' = r
    /\ UNCHANGED <<runs, posts, stale, mem, faults, fetched, got>>

\* Otherwise it raises "database is locked": ROLLBACK, and the run fails.
Locked(r) ==
    /\ writer # NoRun \/ r \in stale
    /\ Step(r, "write", "collect")
    /\ stale' = stale \ {r}
    /\ mem' = [mem EXCEPT ![r].status = "failed", ![r].left = 0, ![r].batch = <<>>,
                          ![r].snap = NoPosts]
    /\ UNCHANGED <<runs, posts, writer, faults, fetched, got>>

\* Variant to be refuted: without the BEGIN, each posting is committed at once.
StoresAtOnce(r, new, stats) ==
    /\ Step(r, "upsert", "upsert")
    /\ posts' = [posts EXCEPT ![Head(mem[r].batch).id] = new]
    /\ mem' = [mem EXCEPT ![r].snap = [@ EXCEPT ![Head(mem[r].batch).id] = new],
                          ![r].stats = stats,
                          ![r].batch = Tail(@)]
    /\ UNCHANGED <<runs, writer, stale, faults, fetched, got>>

\* The row of the posting at hand becomes new, for the transaction alone.
Stores(r, new, stats) ==
    /\ Step(r, "upsert", "upsert")
    /\ mem' = [mem EXCEPT ![r].snap = [@ EXCEPT ![Head(mem[r].batch).id] = new],
                          ![r].stats = stats,
                          ![r].batch = Tail(@)]
    /\ UNCHANGED <<runs, posts, writer, stale, faults, fetched, got>>

Stored(r) == mem[r].snap[Head(mem[r].batch).id]

\* Variants to be refuted: a changed posting is taken for an unchanged one ...
UpsertUnhashed(r) ==
    /\ mem[r].batch # <<>>
    /\ \/ /\ Stored(r).hash = NoHash
          /\ Stores(r, [hash |-> Head(mem[r].batch).hash, first |-> r, last |-> r],
                    [mem[r].stats EXCEPT !.inserted = @ + 1])
       \/ /\ Stored(r).hash # NoHash
          /\ Stores(r, [Stored(r) EXCEPT !.last = r],
                    [mem[r].stats EXCEPT !.unchanged = @ + 1])

\* ... or replaced, the run that first saw it included.
UpsertReplacing(r) ==
    LET hash == Head(mem[r].batch).hash IN
    /\ mem[r].batch # <<>>
    /\ \/ /\ Stored(r).hash = NoHash
          /\ Stores(r, [hash |-> hash, first |-> r, last |-> r],
                    [mem[r].stats EXCEPT !.inserted = @ + 1])
       \/ /\ Stored(r).hash # NoHash
          /\ Stores(r, [hash |-> hash, first |-> r, last |-> r],
                    [mem[r].stats EXCEPT !.updated = @ + 1])

\* One posting: INSERT, UPDATE, or last_seen_run alone.
Upsert(r) ==
    LET hash == Head(mem[r].batch).hash IN
    /\ mem[r].batch # <<>>
    /\ \/ /\ Stored(r).hash = NoHash
          /\ Stores(r, [hash |-> hash, first |-> r, last |-> r],
                    [mem[r].stats EXCEPT !.inserted = @ + 1])
       \/ /\ Stored(r).hash \notin {NoHash, hash}
          /\ Stores(r, [Stored(r) EXCEPT !.hash = hash, !.last = r],
                    [mem[r].stats EXCEPT !.updated = @ + 1])
       \/ /\ Stored(r).hash = hash
          /\ Stores(r, [Stored(r) EXCEPT !.last = r],
                    [mem[r].stats EXCEPT !.unchanged = @ + 1])

AddUp(s, t) == [inserted |-> s.inserted + t.inserted, updated |-> s.updated + t.updated,
                unchanged |-> s.unchanged + t.unchanged]

\* Variant to be refuted: the counts of the run are those of its last batch.
CommitLast(r) ==
    /\ mem[r].batch = <<>>
    /\ Step(r, "upsert", "collect")
    /\ Commits(r)
    /\ posts' = mem[r].snap
    /\ mem' = [mem EXCEPT ![r].total = mem[r].stats, ![r].stats = NoStats,
                          ![r].snap = NoPosts]
    /\ UNCHANGED <<runs, faults, fetched, got>>

\* COMMIT, after which _run_site adds the counts to those of the run.
Commit(r) ==
    /\ mem[r].batch = <<>>
    /\ Step(r, "upsert", "collect")
    /\ Commits(r)
    /\ posts' = mem[r].snap
    /\ mem' = [mem EXCEPT ![r].total = AddUp(@, mem[r].stats), ![r].stats = NoStats,
                          ![r].snap = NoPosts]
    /\ UNCHANGED <<runs, faults, fetched, got>>

-----------------------------------------------------------------------------
(* _run_site. *)

\* start_run.  When it finds the database busy it raises, and there is no run.
Start(r) ==
    /\ Step(r, "start", "collect")
    /\ Commits(r)
    /\ runs' = [runs EXCEPT ![r].status = "running"]
    /\ UNCHANGED <<posts, mem, faults, fetched, got>>

\* Variant to be refuted: the loop over the collectors does not end.
CollectOn(r) ==
    /\ Step(r, "collect", "collect")
    /\ mem' = [mem EXCEPT ![r].status = "failed", ![r].left = @ - 1]
    /\ UNCHANGED <<runs, posts, writer, stale, faults, fetched, got>>

\* How many records these counts are of.
Total(stats) == stats.inserted + stats.updated + stats.unchanged

\* The next collector gets records, or none, which is an issue and fails the
\* run, or raises, and then those after it do not run.
Collect(r) ==
    /\ mem[r].left > 0
    /\ \/ \E b \in Batch :
             /\ Len(b) + Total(mem[r].total) <= MaxRecords
             /\ Step(r, "collect", "select")
             /\ mem' = [mem EXCEPT ![r].batch = b, ![r].left = @ - 1]
             /\ got' = [got EXCEPT ![r] = {b[i] : i \in DOMAIN b}]
             /\ fetched' = [fetched EXCEPT ![r] = @ \cup {b[i] : i \in DOMAIN b}]
       \/ /\ Step(r, "collect", "collect")
          /\ mem' = [mem EXCEPT ![r].status = "failed", ![r].left = @ - 1]
          /\ UNCHANGED <<fetched, got>>
       \/ /\ Step(r, "collect", "collect")
          /\ mem' = [mem EXCEPT ![r].status = "failed", ![r].left = 0]
          /\ UNCHANGED <<fetched, got>>
    /\ UNCHANGED <<runs, posts, writer, stale, faults>>

\* Variant to be refuted: a run that raised is not closed.
FinishSucceeded(r) ==
    /\ mem[r].left = 0 /\ mem[r].status = "success"
    /\ Step(r, "collect", "over")
    /\ Commits(r)
    /\ runs' = [runs EXCEPT ![r] = [status |-> mem[r].status, stats |-> mem[r].total]]
    /\ UNCHANGED <<posts, mem, faults, fetched, got>>

\* finish_run, after the last collector or in the exception's handler.
Finish(r) ==
    /\ mem[r].left = 0
    /\ Step(r, "collect", "over")
    /\ Commits(r)
    /\ runs' = [runs EXCEPT ![r] = [status |-> mem[r].status, stats |-> mem[r].total]]
    /\ UNCHANGED <<posts, mem, faults, fetched, got>>

Ends(r) ==
    /\ faults < MaxFault
    /\ faults' = faults + 1
    /\ pc' = [pc EXCEPT ![r] = "over"]
    /\ stale' = stale \ {r}
    /\ UNCHANGED <<runs, posts, mem, fetched, got>>

\* finish_run waits for longer than the busy timeout and raises.
FinishBusy(r) ==
    /\ pc[r] = "collect" /\ mem[r].left = 0 /\ writer # NoRun
    /\ Ends(r)
    /\ writer' = writer

\* A killed process takes its transaction with it.
Kill(r) ==
    /\ pc[r] \notin {"start", "over"}
    /\ Ends(r)
    /\ writer' = IF writer = r THEN NoRun ELSE writer

\* Another process commits to another table of the database.
OtherWrite ==
    /\ writer = NoRun
    /\ stale' = stale \cup {q \in Run : pc[q] = "write"}
    /\ UNCHANGED <<runs, posts, writer, pc, mem, faults, fetched, got>>

RunStep(r) ==
    \/ Start(r) \/ Collect(r)
    \/ Select(r) \/ Write(r) \/ Locked(r) \/ Upsert(r) \/ Commit(r)
    \/ Finish(r)

Next ==
    \/ \E r \in Run : RunStep(r) \/ FinishBusy(r) \/ Kill(r)
    \/ OtherWrite

Spec == Init /\ [][Next]_vars

\* A run that has started goes on; nobody has to start one.
FairSpec == Spec /\ \A r \in Run : WF_vars(pc[r] # "start" /\ RunStep(r))

-----------------------------------------------------------------------------
(* What is asked of the tables. *)

Finished == {r \in Run : runs[r].status \in {"success", "failed"}}

\* previous_count, has_successful_history and summarize_window (over a window
\* that holds all the runs).
previous_count == Cardinality({p \in Posting : posts[p].hash # NoHash})

has_successful_history ==
    \E r \in Run : /\ runs[r].status = "success"
                   /\ runs[r].stats.inserted + runs[r].stats.updated > 0

Sum(field) ==
    LET order == SetToSeq(Run)
        upTo[n \in 0..Len(order)] ==
          IF n = 0 THEN 0 ELSE upTo[n - 1] + runs[order[n]].stats[field]
    IN upTo[Len(order)]

summarize_window ==
    [runs |-> Cardinality({r \in Run : runs[r].status # "none"}),
     success |-> Cardinality({r \in Run : runs[r].status = "success"}),
     failed |-> Cardinality({r \in Run : runs[r].status = "failed"}),
     inserted |-> Sum("inserted"), updated |-> Sum("updated"),
     unchanged |-> Sum("unchanged")]

-----------------------------------------------------------------------------
(* Properties. *)

\* The summary tells the truth: it counts a posting as inserted once, in the
\* run that first stored it, whatever runs overlap, fail halfway or are
\* killed; what it does not count, a run that never finished stored.
SummaryAddsUp ==
    LET s == summarize_window
        unfinished == {p \in Posting : posts[p].first \in Run \ Finished} IN
    /\ s.inserted = previous_count - Cardinality(unfinished)
    /\ s.success + s.failed = Cardinality(Finished)
    /\ faults = 0 /\ (\A r \in Run : pc[r] = "over") => unfinished = {}

\* Behind that sum, run by run: a finished run reports as inserted the postings
\* it was the first to store, no more and no fewer, also when it failed halfway,
\* lost a transaction to another run or met a posting twice.
InsertedIsFirstSeen ==
    \A r \in Finished :
        runs[r].stats.inserted = Cardinality({p \in Posting : posts[p].first = r})

\* As long as every run has succeeded, a site that has postings is not taken
\* for a new one, which healing would leave alone: one of them says it has
\* stored something, even if the last ones found nothing new.
KnownSite ==
    previous_count > 0 /\ summarize_window.runs = summarize_window.success
        => has_successful_history

\* A posting shows what its last_seen_run has seen: no row mixes two runs.
SeenByLastRun ==
    \A p \in Posting : posts[p].hash # NoHash =>
        [id |-> p, hash |-> posts[p].hash] \in fetched[posts[p].last]

\* Postings are never lost and never change the run that first stored them,
\* and the record of a finished run is final.
HistoryKept ==
    [][/\ \A p \in Posting : posts[p].hash # NoHash =>
             posts'[p].hash # NoHash /\ posts'[p].first = posts[p].first
       /\ \A r \in Finished : runs'[r] = runs[r]]_vars

\* The state of PostingHistory: a run's records are pending until its COMMIT,
\* and it has failed once something in it has, or it has ended unclosed.
Status == [r \in Run |-> runs[r].status]
Inserted == [r \in Run |-> runs[r].stats.inserted]
Pending == [r \in Run |-> IF pc[r] \in {"select", "write", "upsert"} THEN got[r] ELSE {}]
GivenUp == {r \in Run : mem[r].status = "failed" \/ (pc[r] = "over" /\ r \notin Finished)}

History == INSTANCE PostingHistory WITH
    status <- Status, table <- posts, pending <- Pending, failed <- GivenUp,
    inserted <- Inserted

\* Whatever runs overlap, lose transactions or are killed, each does to the
\* table what it would do alone, one after the other: all the records of a
\* collector are merged into the table as it is, or none; a run in which
\* something failed ends as failed; and what it reports is what it stored.
HistorySpec == History!HSpec

\* A run is closed, failed or not, also when a collector raises or its
\* transaction loses against another's; only a run that was killed or waited
\* for the database in vain stays as it is.
RunsClose ==
    \A r \in Run : runs[r].status = "running"
                     ~> runs[r].status # "running" \/ faults > 0
=============================================================================
