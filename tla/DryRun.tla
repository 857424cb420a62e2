------------------------------- MODULE DryRun -------------------------------
(***************************************************************************)
(* app/healing/dry_run.py: a patch applied to a config, and the collector  *)
(* run on a stored sample with the config before and after it.             *)
(***************************************************************************)
EXTENDS Diagnosis

CONSTANTS
    Key,        \* the keys of a collector's config a path can reach
    ExtraKey    \* those of them the schema does not know

\* SiteConfig.model_validate: items_path and the request's url have no default,
\* the literals and the numbers are checked, and extra keys are forbidden.
Valid(cfg) ==
    /\ {"items_path", "request"} \subseteq DOMAIN cfg
    /\ DOMAIN cfg \cap ExtraKey = {}
    /\ Setting(cfg, "type", "none") \in {"none", "page", "cursor"}
    /\ Setting(cfg, "stop_condition", "empty_items") \in {"empty_items", "fixed_pages"}
    /\ Purpose(cfg) \in {"postings", "diagnostics", "enrichment"}
    /\ MaxPages(cfg) \in Int /\ Setting(cfg, "start", 1) \in Int

\* _apply_one: replace and remove want the key to be there; a path that
\* leaves the tree of the config (no such parent) fits no operation.
Fits(cfg, op) ==
    /\ op.path \in Key
    /\ op.op \in {"replace", "remove"} => op.path \in DOMAIN cfg

ApplyOne(cfg, op) ==
    IF op.op = "remove"
    THEN [key \in DOMAIN cfg \ {op.path} |-> cfg[key]]
    ELSE [key \in DOMAIN cfg \cup {op.path} |->
            IF key = op.path THEN op.new ELSE cfg[key]]

\* apply_patch, on a copy: one operation after the other, up to the first
\* that does not fit (PatchApplyError).
Patched(cfg, changes) ==
    LET after[n \in 0..Len(changes)] ==
          IF n = 0 THEN [ok |-> TRUE, cfg |-> cfg]
          ELSE LET was == after[n - 1] IN
               IF was.ok /\ Fits(was.cfg, changes[n])
               THEN [ok |-> TRUE, cfg |-> ApplyOne(was.cfg, changes[n])]
               ELSE [ok |-> FALSE, cfg |-> was.cfg]
    IN after[Len(changes)]

-----------------------------------------------------------------------------

\* The payloads of the FakeFetcher.  A sample that is a list is taken for a
\* list of pages, also when the site's answer is one.
FakePages(sample) ==
    IF sample.at = Root
    THEN [i \in DOMAIN sample.items |-> [EmptyBody EXCEPT !.others = {Root}]]
    ELSE <<sample>>

\* One payload per call, whatever page is asked for, and then {}.
FakeAnswer(pages, call) ==
    Page(IF call \in DOMAIN pages THEN pages[call] ELSE EmptyBody)

\* _run_collector
Replay(cfg, sample) ==
    LET pages == FakePages(sample)
        turns == IF MaxPages(cfg) > 0 THEN MaxPages(cfg) ELSE 0
        after[n \in 0..turns] ==
            IF n = 0 THEN Begun
            ELSE LET run == after[n - 1] IN
                 IF More(cfg, run) THEN OnAnswer(cfg, run, FakeAnswer(pages, n)) ELSE run
    IN after[turns]

\* What the replay cannot see of a config, since the FakeFetcher ignores what it
\* is asked and run_dry_run the purpose: what the site is asked for first, and
\* whether the collector is run at all.
Unseen(cfg) == [asked |-> Asked(cfg, Begun), purpose |-> Purpose(cfg)]

MissingRequired(cfg, run) ==
    Cardinality({i \in DOMAIN run.records :
                   \E field \in Required(cfg) : run.records[i][field] = Nothing})

\* Variant to be refuted: as good as before is improved.
VerdictLenient(before, after, missing_before, missing_after) ==
    CASE after >= before -> "improved"
      [] OTHER -> "regressed"

\* _verdict: the number of records decides, then that of incomplete ones.
Verdict(before, after, missing_before, missing_after) ==
    CASE after > before \/ (after = before /\ missing_after < missing_before) -> "improved"
      [] after < before \/ (after = before /\ missing_after > missing_before) -> "regressed"
      [] OTHER -> "unchanged"

\* Variant to be refuted: a replay that raises counts for what it has collected.
RunDryRunTolerant(cfg, changes, sample) ==
    LET patched == Patched(cfg, changes)
        before == Replay(cfg, sample)
        after == Replay(patched.cfg, sample) IN
    CASE ~patched.ok -> "patch_apply_failed"
      [] patched.ok /\ ~Valid(patched.cfg) -> "patch_invalid"
      [] OTHER -> Verdict(Len(before.records), Len(after.records),
                          MissingRequired(cfg, before), MissingRequired(patched.cfg, after))

\* run_dry_run; a replay that raises ends the pipeline.
RunDryRun(cfg, changes, sample) ==
    LET patched == Patched(cfg, changes)
        before == Replay(cfg, sample)
        after == Replay(patched.cfg, sample) IN
    CASE ~patched.ok -> "patch_apply_failed"
      [] patched.ok /\ ~Valid(patched.cfg) -> "patch_invalid"
      [] patched.ok /\ Valid(patched.cfg) /\ (before.raised \/ after.raised) -> "raised"
      [] OTHER -> Verdict(Len(before.records), Len(after.records),
                          MissingRequired(cfg, before), MissingRequired(patched.cfg, after))
=============================================================================
