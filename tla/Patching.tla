------------------------------ MODULE Patching ------------------------------
(***************************************************************************)
(* The part of approve_and_apply (app/patching/decision.py) that follows   *)
(* the decision: apply_patch_to_file and rollback_from_backup              *)
(* (app/patching/apply.py) around a rerun of the site.  Path.write_text    *)
(* and shutil.copy2 truncate the file before they fill it.                 *)
(***************************************************************************)
EXTENDS Healing

\* read_text and apply_patch.  A truncated file reads as {}, in which no
\* path of a patch exists; in a whole one the patch may or may not fit.
ReadConfig(w) ==
    LET text == yaml[job[w].site] IN
    /\ \/ /\ Step(w, "read", "backup")
          /\ text # Torn
          /\ job' = [job EXCEPT ![w].text = text]
       \/ Step(w, "read", "audit_failed") /\ job' = job
    /\ UNCHANGED <<row, audit, files, world, ghost>>

\* PatchApplyError or PatchApplyValidationError: the row stays approved.
AuditApplyFailed(w) ==
    LET id == job[w].id IN
    /\ Exit(w, "audit_failed")
    /\ Log("apply_failed", id)
    /\ outcome' = [outcome EXCEPT ![id] = "apply_failed"]
    /\ UNCHANGED <<row, files, world, applied>>

\* Variant to be refuted: the backup is made of the patched text.
BackupAfterWrite(w) ==
    LET s == job[w].site IN
    /\ Step(w, "backup", "truncate")
    /\ job' = [job EXCEPT ![w].stamp = now]
    /\ backup' = [backup EXCEPT ![s][now] = job[w].text \cup {job[w].id}]
    /\ UNCHANGED <<row, audit, yaml, world, ghost>>

\* copy2 copies the file as it is by now, to a path made of site and time.
BackupConfig(w) ==
    LET s == job[w].site IN
    /\ Step(w, "backup", "truncate")
    /\ job' = [job EXCEPT ![w].stamp = now]
    /\ backup' = [backup EXCEPT ![s][now] = yaml[s]]
    /\ UNCHANGED <<row, audit, yaml, world, ghost>>

TruncateConfig(w, from, to) ==
    /\ Step(w, from, to)
    /\ yaml' = [yaml EXCEPT ![job[w].site] = Torn]
    /\ UNCHANGED <<row, audit, job, backup, world, ghost>>

WriteConfig(w) ==
    LET id == job[w].id IN
    /\ Step(w, "write", "audit_applied")
    /\ yaml' = [yaml EXCEPT ![job[w].site] = job[w].text \cup {id}]
    /\ applied' = [applied EXCEPT ![id] = @ + 1]
    /\ UNCHANGED <<row, audit, job, backup, world, outcome>>

AuditApplied(w) ==
    /\ Step(w, "audit_applied", "load")
    /\ Log("applied", job[w].id)
    /\ UNCHANGED <<row, job, files, world, ghost>>

\* Variant to be refuted: a site that is not in the configs is not looked for.
LoadConfigsUnchecked(w) ==
    LET whole == \A s \in Site : yaml[s] # Torn IN
    /\ \/ whole /\ Step(w, "load", "rerun") /\ job' = job
       \/ Exit(w, "load")
    /\ UNCHANGED <<row, audit, files, world, ghost>>

\* The rerun callback begins with load_all_sites, which reads the config of
\* every site and raises if one of them is not a config.  A patch may have
\* renamed the site, and then there is nothing to run and the rerun failed.
LoadConfigs(w) ==
    LET whole == \A s \in Site : yaml[s] # Torn IN
    /\ \/ whole /\ Step(w, "load", "rerun") /\ job' = job
       \/ whole /\ Step(w, "load", "rb_truncate") /\ job' = job
       \/ ~whole /\ Exit(w, "load")
    /\ UNCHANGED <<row, audit, files, world, ghost>>

Rerun(w) ==
    /\ RunSite(w, job[w].site, "rerun")
    /\ UNCHANGED <<row, audit, files, lock, now, crashes, ghost>>

\* The rerun collected records: the patch stays, and Slack hears of it.
Report(w) ==
    /\ Exit(w, "report")
    /\ outcome' = [outcome EXCEPT ![job[w].id] = "kept"]
    /\ UNCHANGED <<row, audit, files, world, applied>>

Rollback(w) ==
    LET j == job[w] IN
    /\ Step(w, "rb_write", "audit_rolled_back")
    /\ yaml' = [yaml EXCEPT ![j.site] = backup[j.site][j.stamp]]
    /\ UNCHANGED <<row, audit, job, backup, world, ghost>>

AuditRolledBack(w) ==
    LET id == job[w].id IN
    /\ Exit(w, "audit_rolled_back")
    /\ Log("rolled_back", id)
    /\ outcome' = [outcome EXCEPT ![id] = "rolled_back"]
    /\ UNCHANGED <<row, files, world, applied>>

PatchingStep(w) ==
    \/ ReadConfig(w) \/ AuditApplyFailed(w) \/ BackupConfig(w)
    \/ TruncateConfig(w, "truncate", "write") \/ WriteConfig(w)
    \/ AuditApplied(w) \/ LoadConfigs(w) \/ Rerun(w) \/ Report(w)
    \/ TruncateConfig(w, "rb_truncate", "rb_write") \/ Rollback(w)
    \/ AuditRolledBack(w)
=============================================================================
