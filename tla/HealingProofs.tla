--------------------------- MODULE HealingProofs ---------------------------
(***************************************************************************)
(* SelfHealing for any listings, configs and candidates: what reaches the  *)
(* operator has been vetted, a success has records, every process ends,    *)
(* the types hold, and the config file can always be used.                 *)
(***************************************************************************)
EXTENDS SelfHealing, Induction, FiniteSetTheorems

-----------------------------------------------------------------------------
(* The recursions of the model, unfolded: each has a solution, and a fact  *)
(* about it is proved by induction over its steps.                         *)

PatchStep(was, op) ==
    IF was.ok /\ Fits(was.cfg, op)
    THEN [ok |-> TRUE, cfg |-> ApplyOne(was.cfg, op)]
    ELSE [ok |-> FALSE, cfg |-> was.cfg]

PatchStart(cfg) == [ok |-> TRUE, cfg |-> cfg]

Patches(f, cfg, changes, N) ==
    /\ f[0] = PatchStart(cfg)
    /\ \A n \in 1..N : f[n] = PatchStep(f[n - 1], changes[n])

\* The recursion Patched is defined by has a solution.
LEMMA PatchSteps ==
    ASSUME NEW cfg, NEW changes, NEW N \in Nat, N = Len(changes)
    PROVE  \E f : Patches(f, cfg, changes, N) /\ Patched(cfg, changes) = f[N]
<1> DEFINE S == {m \in 0..N : \E g : Patches(g, cfg, changes, m)}
<1>1. 0 \in S
  <2>1. Patches([n \in 0..0 |-> PatchStart(cfg)], cfg, changes, 0)
    BY DEF Patches
  <2> QED BY <2>1
<1>2. ASSUME NEW m \in 0..(N - 1), m \in S PROVE m + 1 \in S
  <2>1. PICK g : Patches(g, cfg, changes, m)
    BY <1>2
  <2> DEFINE h == [n \in 0..(m + 1) |-> IF n = m + 1 THEN PatchStep(g[m], changes[n])
                                                     ELSE g[n]]
  <2>2. h[m + 1] = PatchStep(g[m], changes[m + 1]) /\ \A n \in 0..m : h[n] = g[n]
    OBVIOUS
  <2> HIDE DEF h
  <2>3. ASSUME NEW n \in 1..(m + 1) PROVE h[n] = PatchStep(h[n - 1], changes[n])
    <3>1. CASE n = m + 1
      BY <2>2, <3>1
    <3>2. CASE n \in 1..m
      BY <2>1, <2>2, <3>2 DEF Patches
    <3> QED BY <3>1, <3>2
  <2>4. Patches(h, cfg, changes, m + 1)
    BY <2>1, <2>2, <2>3 DEF Patches
  <2> QED BY <2>4
<1>3. N \in S
  <2> HIDE DEF S
  <2> QED BY <1>1, <1>2, BoundedInduction
<1>4. PICK g : Patches(g, cfg, changes, N)
  BY <1>3
<1> DEFINE Solves(f) == f = [n \in 0..N |-> IF n = 0 THEN PatchStart(cfg)
                                            ELSE PatchStep(f[n - 1], changes[n])]
           s == [n \in 0..N |-> g[n]]
<1>5. Solves(s)
  <2>1. ASSUME NEW n \in 0..N
        PROVE  g[n] = IF n = 0 THEN PatchStart(cfg) ELSE PatchStep(s[n - 1], changes[n])
    BY <1>4 DEF Patches
  <2> QED BY <2>1
<1>6. \E f : Solves(f) /\ Patched(cfg, changes) = f[N]
  BY <1>5 DEF Patched, PatchStep, PatchStart
<1>7. PICK f : Solves(f) /\ Patched(cfg, changes) = f[N]
  BY <1>6
<1>8. f[0] = PatchStart(cfg) /\ \A n \in 1..N : f[n] = PatchStep(f[n - 1], changes[n])
  BY <1>7
<1> QED BY <1>7, <1>8 DEF Patches

\* Two configs agree about a key.
Agree(c, d, key) ==
    /\ key \in DOMAIN c <=> key \in DOMAIN d
    /\ key \in DOMAIN c => c[key] = d[key]

LEMMA ApplyAgrees ==
    ASSUME NEW c, NEW d, NEW op, NEW key
    PROVE  /\ Agree(c, d, key) => Agree(ApplyOne(c, op), ApplyOne(d, op), key)
           /\ op.path = key => Agree(ApplyOne(c, op), ApplyOne(d, op), key)
           /\ op.path # key => Agree(ApplyOne(c, op), c, key)
BY DEF Agree, ApplyOne

LEMMA AgreeTransitive ==
    ASSUME NEW b, NEW c, NEW d, NEW key, Agree(b, c, key), Agree(c, d, key)
    PROVE  Agree(b, d, key)
BY DEF Agree

\* What a patch does to a key does not depend on the config, or it leaves the
\* key alone in every config it fits.
LEMMA PatchedKey ==
    ASSUME NEW c, NEW d, NEW changes, NEW N \in Nat, N = Len(changes), NEW key,
           Patched(c, changes).ok, Patched(d, changes).ok
    PROVE  LET p == Patched(c, changes).cfg
               q == Patched(d, changes).cfg IN
           Agree(p, q, key) \/ (Agree(p, c, key) /\ Agree(q, d, key))
<1>2. PICK f : Patches(f, c, changes, N) /\ Patched(c, changes) = f[N]
  BY PatchSteps
<1>3. PICK g : Patches(g, d, changes, N) /\ Patched(d, changes) = g[N]
  BY PatchSteps
<1> DEFINE Tied(p, q) == Agree(p, q, key) \/ (Agree(p, c, key) /\ Agree(q, d, key))
           S == {n \in 0..N : f[n].ok /\ g[n].ok => Tied(f[n].cfg, g[n].cfg)}
<1>4. 0 \in S
  BY <1>2, <1>3 DEF Patches, PatchStart, Agree
<1>5. ASSUME NEW n \in 0..(N - 1), n \in S, f[n + 1].ok, g[n + 1].ok
      PROVE  Tied(f[n + 1].cfg, g[n + 1].cfg)
  <2>1. f[n + 1] = PatchStep(f[n], changes[n + 1])
        /\ g[n + 1] = PatchStep(g[n], changes[n + 1])
    BY <1>2, <1>3 DEF Patches
  <2>2. f[n].ok /\ f[n + 1].cfg = ApplyOne(f[n].cfg, changes[n + 1])
    BY <1>5, <2>1 DEF PatchStep
  <2>3. g[n].ok /\ g[n + 1].cfg = ApplyOne(g[n].cfg, changes[n + 1])
    BY <1>5, <2>1 DEF PatchStep
  <2>4. Tied(f[n].cfg, g[n].cfg)
    BY <1>5, <2>2, <2>3
  <2> DEFINE op == changes[n + 1]
             p == f[n].cfg
             q == g[n].cfg
  <2>5. CASE op.path = key \/ Agree(p, q, key)
    BY <2>2, <2>3, <2>5, ApplyAgrees
  <2>6. CASE op.path # key /\ Agree(p, c, key) /\ Agree(q, d, key)
    <3>1. Agree(ApplyOne(p, op), p, key) /\ Agree(ApplyOne(q, op), q, key)
      BY <2>6, ApplyAgrees
    <3>2. Agree(ApplyOne(p, op), c, key) /\ Agree(ApplyOne(q, op), d, key)
      BY <2>6, <3>1, AgreeTransitive
    <3> QED BY <2>2, <2>3, <3>2
  <2> QED BY <2>4, <2>5, <2>6
<1>6. \A n \in 0..(N - 1) : n \in S => n + 1 \in S
  BY <1>5
<1>7. N \in S
  <2> HIDE DEF S
  <2>1. 0..N \subseteq S
    BY <1>4, <1>6, BoundedInduction
  <2> QED BY <2>1
<1> QED BY <1>2, <1>3, <1>7

\* A patch adds no keys but those a path can reach.
LEMMA PatchedReach ==
    ASSUME NEW cfg, NEW changes, NEW N \in Nat, N = Len(changes), DOMAIN cfg \subseteq Key
    PROVE  DOMAIN Patched(cfg, changes).cfg \subseteq Key
<1>2. PICK f : Patches(f, cfg, changes, N) /\ Patched(cfg, changes) = f[N]
  BY PatchSteps
<1> DEFINE S == {n \in 0..N : DOMAIN f[n].cfg \subseteq Key}
<1>3. 0 \in S
  BY <1>2 DEF Patches, PatchStart
<1>4. ASSUME NEW n \in 0..(N - 1), n \in S PROVE DOMAIN f[n + 1].cfg \subseteq Key
  <2>1. f[n + 1] = PatchStep(f[n], changes[n + 1])
    BY <1>2 DEF Patches
  <2>2. \/ f[n + 1].cfg = f[n].cfg
        \/ f[n + 1].cfg = ApplyOne(f[n].cfg, changes[n + 1]) /\ changes[n + 1].path \in Key
    BY <2>1 DEF PatchStep, Fits
  <2> QED BY <1>4, <2>2 DEF ApplyOne
<1>5. \A n \in 0..(N - 1) : n \in S => n + 1 \in S
  BY <1>4
<1>6. N \in S
  <2> HIDE DEF S
  <2> QED BY <1>3, <1>5, BoundedInduction
<1> QED BY <1>2, <1>6

ReplayTurn(cfg, sample, r, n) ==
    IF More(cfg, r) THEN OnAnswer(cfg, r, FakeAnswer(FakePages(sample), n)) ELSE r

Replays(f, cfg, sample, N) ==
    /\ f[0] = Begun
    /\ \A n \in 1..N : f[n] = ReplayTurn(cfg, sample, f[n - 1], n)

\* So has the recursion Replay is defined by.
LEMMA ReplaySteps ==
    ASSUME NEW cfg, NEW sample, NEW N \in Nat,
           N = IF MaxPages(cfg) > 0 THEN MaxPages(cfg) ELSE 0
    PROVE  \E f : Replays(f, cfg, sample, N) /\ Replay(cfg, sample) = f[N]
<1> DEFINE S == {m \in 0..N : \E g : Replays(g, cfg, sample, m)}
<1>1. 0 \in S
  <2>1. Replays([n \in 0..0 |-> Begun], cfg, sample, 0)
    BY DEF Replays
  <2> QED BY <2>1
<1>2. ASSUME NEW m \in 0..(N - 1), m \in S PROVE m + 1 \in S
  <2>1. PICK g : Replays(g, cfg, sample, m)
    BY <1>2
  <2> DEFINE h == [n \in 0..(m + 1) |-> IF n = m + 1 THEN ReplayTurn(cfg, sample, g[m], n)
                                                     ELSE g[n]]
  <2>2. h[m + 1] = ReplayTurn(cfg, sample, g[m], m + 1) /\ \A n \in 0..m : h[n] = g[n]
    OBVIOUS
  <2> HIDE DEF h
  <2>3. ASSUME NEW n \in 1..(m + 1) PROVE h[n] = ReplayTurn(cfg, sample, h[n - 1], n)
    <3>1. CASE n = m + 1
      BY <2>2, <3>1
    <3>2. CASE n \in 1..m
      BY <2>1, <2>2, <3>2 DEF Replays
    <3> QED BY <3>1, <3>2
  <2>4. Replays(h, cfg, sample, m + 1)
    BY <2>1, <2>2, <2>3 DEF Replays
  <2> QED BY <2>4
<1>3. N \in S
  <2> HIDE DEF S
  <2> QED BY <1>1, <1>2, BoundedInduction
<1>4. PICK g : Replays(g, cfg, sample, N)
  BY <1>3
<1> DEFINE Solves(f) == f = [n \in 0..N |-> IF n = 0 THEN Begun
                                            ELSE ReplayTurn(cfg, sample, f[n - 1], n)]
           s == [n \in 0..N |-> g[n]]
<1>5. Solves(s)
  <2>1. ASSUME NEW n \in 0..N
        PROVE  g[n] = IF n = 0 THEN Begun ELSE ReplayTurn(cfg, sample, s[n - 1], n)
    BY <1>4 DEF Replays
  <2> QED BY <2>1
<1>6. \E f : Solves(f) /\ Replay(cfg, sample) = f[N]
  BY <1>5 DEF Replay, ReplayTurn
<1>7. PICK f : Solves(f) /\ Replay(cfg, sample) = f[N]
  BY <1>6
<1>8. f[0] = Begun /\ \A n \in 1..N : f[n] = ReplayTurn(cfg, sample, f[n - 1], n)
  BY <1>7
<1> QED BY <1>7, <1>8 DEF Replays

\* A replay with a page to read evaluates the path of the items.
LEMMA ReplayTriesPath ==
    ASSUME NEW cfg, NEW sample, MaxPages(cfg) \in Int, MaxPages(cfg) > 0,
           cfg["items_path"] \in BadPath
    PROVE  Replay(cfg, sample).raised
<1> DEFINE N == MaxPages(cfg)
<1>1. PICK f : Replays(f, cfg, sample, N) /\ Replay(cfg, sample) = f[N]
  BY ReplaySteps
<1> DEFINE Lost(r) == r.raised = TRUE /\ r.left = TRUE
           S == {n \in 0..N : n # 0 => Lost(f[n])}
<1>2. Lost(f[1])
  <2>1. f[1] = ReplayTurn(cfg, sample, Begun, 1)
    BY <1>1 DEF Replays
  <2>2. More(cfg, Begun)
    BY DEF More, Begun
  <2> DEFINE answer == FakeAnswer(FakePages(sample), 1)
  <2>3. ~answer.blocked
    BY DEF FakeAnswer, Page
  <2> HIDE DEF answer
  <2>4. f[1] = OnAnswer(cfg, Begun, answer)
    BY <2>1, <2>2 DEF ReplayTurn, answer
  <2>5. Begun.pages = 0
    BY DEF Begun
  <2>6. f[1] = Raised([Begun EXCEPT !.sample = answer.body])
    BY <2>3, <2>4, <2>5 DEF OnAnswer
  <2> QED BY <2>6 DEF Raised, Begun
<1>3. ASSUME NEW n \in 0..(N - 1), n \in S PROVE n + 1 \in S
  <2>1. f[n + 1] = ReplayTurn(cfg, sample, f[n], n + 1)
    BY <1>1 DEF Replays
  <2>2. CASE n = 0
    BY <1>2, <2>2
  <2>3. CASE n # 0
    <3>1. f[n + 1] = f[n]
      BY <1>3, <2>1, <2>3 DEF ReplayTurn, More
    <3> QED BY <1>3, <2>3, <3>1
  <2> QED BY <2>2, <2>3
<1>4. N \in S
  <2>1. 0 \in S
    OBVIOUS
  <2> HIDE DEF S
  <2> QED BY <1>3, <2>1, BoundedInduction
<1> QED BY <1>1, <1>4

RecordsUpTo(f, found, N) ==
    /\ f[0] = <<>>
    /\ \A n \in 1..N : f[n] = IF Identified(found[n]) THEN Append(f[n - 1], found[n])
                              ELSE f[n - 1]

\* And the one of Records.
LEMMA RecordSteps ==
    ASSUME NEW found, NEW N \in Nat, N = Len(found)
    PROVE  \E f : RecordsUpTo(f, found, N) /\ Records(found) = f[N]
<1> DEFINE Next1(was, n) == IF Identified(found[n]) THEN Append(was, found[n]) ELSE was
           S == {m \in 0..N : \E g : RecordsUpTo(g, found, m)}
<1>1. 0 \in S
  <2>1. RecordsUpTo([n \in 0..0 |-> <<>>], found, 0)
    BY DEF RecordsUpTo
  <2> QED BY <2>1
<1> HIDE DEF Next1
<1>2. ASSUME NEW m \in 0..(N - 1), m \in S PROVE m + 1 \in S
  <2>1. PICK g : RecordsUpTo(g, found, m)
    BY <1>2
  <2> DEFINE h == [n \in 0..(m + 1) |-> IF n = m + 1 THEN Next1(g[m], n) ELSE g[n]]
  <2>2. h[m + 1] = Next1(g[m], m + 1) /\ \A n \in 0..m : h[n] = g[n]
    OBVIOUS
  <2> HIDE DEF h
  <2>3. ASSUME NEW n \in 1..(m + 1) PROVE h[n] = Next1(h[n - 1], n)
    <3>1. CASE n = m + 1
      BY <2>2, <3>1
    <3>2. CASE n \in 1..m
      BY <2>1, <2>2, <3>2 DEF RecordsUpTo, Next1
    <3> QED BY <3>1, <3>2
  <2>4. RecordsUpTo(h, found, m + 1)
    BY <2>1, <2>2, <2>3 DEF RecordsUpTo, Next1
  <2> QED BY <2>4
<1>3. N \in S
  <2> HIDE DEF S
  <2> QED BY <1>1, <1>2, BoundedInduction
<1>4. PICK g : RecordsUpTo(g, found, N)
  BY <1>3
<1> DEFINE Solves(f) == f = [n \in 0..N |-> IF n = 0 THEN <<>> ELSE Next1(f[n - 1], n)]
           s == [n \in 0..N |-> g[n]]
<1>5. Solves(s)
  <2>1. ASSUME NEW n \in 0..N
        PROVE  g[n] = IF n = 0 THEN <<>> ELSE Next1(s[n - 1], n)
    BY <1>4 DEF RecordsUpTo, Next1
  <2> QED BY <2>1
<1>6. \E f : Solves(f) /\ Records(found) = f[N]
  BY <1>5 DEF Records, Next1
<1>7. PICK f : Solves(f) /\ Records(found) = f[N]
  BY <1>6
<1>8. f[0] = <<>> /\ \A n \in 1..N : f[n] = Next1(f[n - 1], n)
  BY <1>7
<1> QED BY <1>7, <1>8 DEF RecordsUpTo, Next1

-----------------------------------------------------------------------------
(* What reaches the operator. *)

RunFields == {"pages", "records", "issues", "sample", "left", "raised"}

JobFields == {"by", "id", "backup", "issues", "failed", "empty", "stored", "changed",
              "sample", "run", "tries", "candidate"}

ReqFields == {"status", "changes", "verdict", "run", "sample", "outcome", "blocked",
              "forbidden", "steady", "alike"}

Measured == {"improved", "regressed", "unchanged"}

Vetted(r) ==
    /\ DOMAIN r = ReqFields
    /\ ~r.blocked
    /\ ~r.forbidden
    /\ r.status = "pending" => r.changes # <<>>
    /\ r.verdict \in Measured

\* The table is a sequence of vetted rows.
ReqOK(s) == \E n \in Nat : s = [i \in 1..n |-> s[i]] /\ \A i \in 1..n : Vetted(s[i])

RunOK(r) == DOMAIN r = RunFields /\ r.pages \in Nat

\* What a process holds at each step: no refused page once it asks the LLM, an
\* acceptable candidate once it has one, and a config to go back to.
JobOK(p, j) ==
    /\ DOMAIN j = JobFields
    /\ j.tries \in 0..Retries
    /\ j.failed \in BOOLEAN
    /\ ~j.failed => ~j.empty
    /\ p \in {"llm", "dry_run"} => "fetch_failed" \notin j.issues
    /\ p = "dry_run" => ~j.candidate.forbidden
    /\ j.by = "rerun" => Valid(j.backup)
    /\ p = "verify" => j.by = "rerun"

HealingInv == ReqOK(req) /\ RunOK(run) /\ JobOK(pc, job) /\ Valid(yaml)

-----------------------------------------------------------------------------
(* The page loop, the diagnosis and the dry run. *)

\* One turn ends the loop or counts a page, whatever the answer is.
LEMMA Turn ==
    ASSUME NEW cfg, NEW r, RunOK(r), NEW answer
    PROVE  LET s == OnAnswer(cfg, r, answer) IN
           RunOK(s) /\ ((s.left = TRUE /\ s.pages = r.pages) \/ s.pages = r.pages + 1)
<1> DEFINE Next1(q, s) ==
             RunOK(s) /\ ((s.left = TRUE /\ s.pages = q.pages) \/ s.pages = q.pages + 1)
<1>1. ASSUME NEW q, RunOK(q), NEW codes PROVE Next1(q, Break(q, codes))
  BY <1>1 DEF Break, RunOK, RunFields
<1>2. ASSUME NEW q, RunOK(q), NEW body, NEW items PROVE Next1(q, Take(cfg, q, body, items))
  BY <1>2 DEF Take, RunOK, RunFields
<1>3. ASSUME NEW q, RunOK(q) PROVE Next1(q, Raised(q))
  BY <1>3 DEF Raised, RunOK, RunFields
<1>4. ASSUME NEW q, RunOK(q), NEW body, NEW items PROVE Next1(q, OnItems(cfg, q, body, items))
  BY <1>1, <1>2, <1>3, <1>4 DEF OnItems
<1> DEFINE seen == IF r.pages = 0 THEN [r EXCEPT !.sample = answer.body] ELSE r
<1>5. RunOK(seen) /\ seen.pages = r.pages
  BY DEF RunOK, RunFields
<1> HIDE DEF seen
<1>6. Next1(seen, Break(seen, {"items_path_not_list"})) /\ Next1(seen, Raised(seen))
      /\ \A body, items : Next1(seen, OnItems(cfg, seen, body, items))
  BY <1>1, <1>3, <1>4, <1>5
<1>7. Next1(r, Break(r, {"fetch_failed"}))
  BY <1>1
<1>8. \A s : Next1(seen, s) => Next1(r, s)
  BY <1>5
<1> HIDE DEF Next1
<1>9. Next1(r, OnAnswer(cfg, r, answer))
  BY <1>6, <1>7, <1>8 DEF OnAnswer, seen
<1> QED BY <1>9 DEF Next1

\* A refused page puts the run in a category that is not healed.
LEMMA RefusedNotHealed ==
    ASSUME NEW codes, "fetch_failed" \in codes
    PROVE  Classify(codes) \notin Healable
<1> DEFINE seen == {CategoryByCode(code) : code \in codes}
           ranks == {i \in DOMAIN Priority : Priority[i] \in seen}
           first == CHOOSE i \in ranks : \A j \in ranks : i <= j
<1>1. CategoryByCode("fetch_failed") = "network_blocked"
  BY DEF CategoryByCode
<1>2. DOMAIN Priority = 1..5 /\ Priority[1] = "network_blocked"
  BY DEF Priority
<1>3. 1 \in ranks /\ ranks \subseteq 1..5
  BY <1>1, <1>2
<1> HIDE DEF ranks
<1>4. \E i \in ranks : \A j \in ranks : i <= j
  BY <1>3
<1>5. first \in ranks /\ \A j \in ranks : first <= j
  BY <1>4
<1> HIDE DEF first
<1>6. first = 1
  BY <1>3, <1>5
<1>7. Classify(codes) = "network_blocked"
  BY <1>2, <1>6 DEF Classify, first, ranks
<1> QED BY <1>7 DEF Healable

LEMMA VerdictMeasured ==
    ASSUME NEW a, NEW b, NEW m, NEW n PROVE Verdict(a, b, m, n) \in Measured
BY DEF Verdict, Measured

LEMMA DryRunVerdicts ==
    ASSUME NEW cfg, NEW changes, NEW sample
    PROVE  RunDryRun(cfg, changes, sample)
             \in Measured \cup {"raised", "patch_invalid", "patch_apply_failed"}
BY VerdictMeasured DEF RunDryRun

-----------------------------------------------------------------------------
(* The table. *)

LEMMA ReqMapped ==
    ASSUME ReqOK(req), NEW s, s = [i \in DOMAIN req |-> s[i]],
           \A i \in DOMAIN req : Vetted(req[i]) => Vetted(s[i])
    PROVE  ReqOK(s)
<1>1. PICK n \in Nat : req = [i \in 1..n |-> req[i]] /\ \A i \in 1..n : Vetted(req[i])
  BY DEF ReqOK
<1>2. DOMAIN req = 1..n
  BY <1>1
<1> QED BY <1>1, <1>2 DEF ReqOK

\* Every change of a row but its insertion.
LEMMA VettedStays ==
    ASSUME NEW r, Vetted(r)
    PROVE  /\ \A st : st # "pending" => Vetted(Decided(r, st))
           /\ \A st, out : st # "pending" =>
                Vetted([Decided(r, st) EXCEPT !.outcome = out])
           /\ Vetted([r EXCEPT !.steady = FALSE])
           /\ \A out : Vetted([r EXCEPT !.outcome = out])
<1>1. ASSUME NEW st, st # "pending" PROVE Vetted(Decided(r, st))
  BY <1>1 DEF Vetted, Decided, ReqFields
<1>2. ASSUME NEW q, Vetted(q), NEW out PROVE Vetted([q EXCEPT !.outcome = out])
  BY <1>2 DEF Vetted, ReqFields
<1>3. Vetted([r EXCEPT !.steady = FALSE])
  BY DEF Vetted, ReqFields
<1> HIDE DEF Vetted, Decided
<1> QED BY <1>1, <1>2, <1>3

LEMMA ReqSet ==
    ASSUME ReqOK(req), NEW id, NEW r, id \in DOMAIN req => Vetted(r)
    PROVE  ReqOK([req EXCEPT ![id] = r])
<1> DEFINE s == [req EXCEPT ![id] = r]
<1>1. s = [i \in DOMAIN req |-> s[i]]
  OBVIOUS
<1>2. \A i \in DOMAIN req : Vetted(req[i]) => Vetted(s[i])
  BY DEF s
<1> HIDE DEF s
<1>3. ReqOK(s)
  BY <1>1, <1>2, ReqMapped
<1> QED BY <1>3 DEF s

LEMMA ReqAppended ==
    ASSUME NEW s, ReqOK(s), NEW r, Vetted(r)
    PROVE  ReqOK(Append(s, r))
<1>1. PICK n \in Nat : s = [i \in 1..n |-> s[i]] /\ \A i \in 1..n : Vetted(s[i])
  BY DEF ReqOK
<1> DEFINE S == {s[i] : i \in 1..n} \cup {r}
           t == Append(s, r)
<1>2. s \in Seq(S) /\ Len(s) = n
  <2>1. s \in [1..n -> S]
    BY <1>1
  <2> QED BY <2>1
<1>3. t \in Seq(S) /\ Len(t) = n + 1 /\ t[n + 1] = r /\ \A i \in 1..n : t[i] = s[i]
  BY <1>2
<1> HIDE DEF t, S
<1>4. DOMAIN t = 1..(n + 1) /\ t = [i \in 1..(n + 1) |-> t[i]]
  <2>1. t \in [1..(n + 1) -> S]
    BY <1>3
  <2> QED BY <2>1
<1>5. \A i \in 1..(n + 1) : Vetted(t[i])
  BY <1>1, <1>3
<1>6. ReqOK(t)
  BY <1>4, <1>5 DEF ReqOK
<1> QED BY <1>6 DEF t

LEMMA UnsettledOK == ReqOK(req) => ReqOK(Unsettled)
<1> SUFFICES ASSUME ReqOK(req) PROVE ReqOK(Unsettled)
  OBVIOUS
<1> DEFINE s == Unsettled
<1>1. s = [i \in DOMAIN req |-> s[i]]
      /\ \A i \in DOMAIN req : s[i] = [req[i] EXCEPT !.steady = FALSE]
  BY DEF Unsettled
<1> HIDE DEF s
<1>2. ReqOK(s)
  BY <1>1, VettedStays, ReqMapped
<1> QED BY <1>2 DEF s

LEMMA RowVetted == ASSUME ReqOK(req), NEW id \in DOMAIN req PROVE Vetted(req[id])
<1>1. PICK n \in Nat : req = [i \in 1..n |-> req[i]] /\ \A i \in 1..n : Vetted(req[i])
  BY DEF ReqOK
<1> QED BY <1>1

-----------------------------------------------------------------------------
(* The steps. *)

LEMMA FreshOK == JobOK("idle", NoJob) /\ RunOK(Begun)
BY SelfHealingAssumption DEF JobOK, RunOK, NoJob, Begun, JobFields, RunFields

LEMMA OverOK ==
    ASSUME HealingInv, NEW from, NEW success, Over(from, success)
    PROVE  JobOK(pc', job') /\ RunOK(run') /\ pc' \in {"idle", "verify"} /\ pc = from
<1>1. RunOK(run') /\ pc = from
  BY FreshOK DEF Over, Step
<1>2. CASE job.by = "rerun"
  <2> DEFINE j == [NoJob EXCEPT !.by = "rerun", !.id = job.id, !.backup = job.backup,
                                !.stored = success]
  <2>1. j.backup = job.backup /\ j.tries = 0 /\ j.failed \in BOOLEAN /\ j.by = "rerun"
        /\ (~j.failed => ~j.empty) /\ DOMAIN j = JobFields
    BY DEF NoJob, JobFields
  <2>2. job' = j /\ pc' = "verify"
    BY <1>2 DEF Over, Step
  <2> HIDE DEF j
  <2>3. Valid(j.backup)
    BY <1>2, <2>1 DEF HealingInv, JobOK
  <2>4. JobOK("verify", j)
    BY <2>1, <2>3, SelfHealingAssumption DEF JobOK
  <2> QED BY <1>1, <2>2, <2>4
<1>3. CASE job.by # "rerun"
  BY <1>1, <1>3, FreshOK DEF Over, Step
<1> QED BY <1>2, <1>3

LEMMA BeginOK ==
    ASSUME HealingInv, NEW by, NEW id, BeginRun(by, id)
    PROVE  JobOK(pc', job') /\ RunOK(run')
<1> DEFINE j == [NoJob EXCEPT !.by = by, !.id = id,
                              !.backup = IF by = "rerun" THEN yaml ELSE Nothing]
<1>1. j.by = by /\ (by = "rerun" => j.backup = yaml) /\ j.tries = 0
      /\ j.failed \in BOOLEAN /\ (~j.failed => ~j.empty) /\ DOMAIN j = JobFields
  BY DEF NoJob, JobFields
<1>2. job' = j /\ pc' = "fetch" /\ run' = Begun
  BY DEF BeginRun, Step
<1> HIDE DEF j
<1>3. JobOK("fetch", j)
  BY <1>1, SelfHealingAssumption DEF JobOK, HealingInv
<1> QED BY <1>2, <1>3, FreshOK

\* Counting a collector without records as empty fails the run, if there are
\* issues.
LEMMA CountedOK ==
    ASSUME HealingInv, pc \in {"fetch", "other"}, NEW records \in BOOLEAN, NEW codes,
           ~records => codes # {}, NEW changed, NEW sample, NEW p, p \in {"other", "close"},
           job' = [Counted(records, codes, changed) EXCEPT !.sample = sample]
    PROVE  JobOK(p, job')
<1>1. /\ DOMAIN job' = JobFields /\ job'.tries = job.tries
      /\ job'.by = job.by /\ job'.backup = job.backup
      /\ job'.failed = (job.failed \/ (~records /\ codes # {}))
      /\ job'.empty = (job.empty \/ ~records)
  BY DEF HealingInv, JobOK, JobFields, Counted
<1>2. job'.failed \in BOOLEAN /\ (~job'.failed => ~job'.empty)
  BY <1>1 DEF HealingInv, JobOK
<1> QED BY <1>1, <1>2 DEF HealingInv, JobOK

LEMMA FetchOK ==
    ASSUME HealingInv, Fetch
    PROVE  /\ HealingInv'
           /\ ~run.left /\ run.pages < MaxPages(yaml) /\ pc = "fetch" /\ pc' = "fetch"
           /\ (run'.left = TRUE /\ run'.pages = run.pages) \/ run'.pages = run.pages + 1
<1>1. PICK answer : run' = OnAnswer(yaml, run, answer)
  BY DEF Fetch
<1>2. ReqOK(req')
  BY UnsettledOK DEF Fetch, HealingInv
<1>3. pc = "fetch" /\ pc' = "fetch" /\ job' = job /\ yaml' = yaml /\ More(yaml, run)
  BY DEF Fetch, Step
<1>4. RunOK(run')
      /\ ((run'.left = TRUE /\ run'.pages = run.pages) \/ run'.pages = run.pages + 1)
  BY <1>1, Turn DEF HealingInv
<1>5. JobOK(pc', job')
  BY <1>3 DEF HealingInv
<1>6. HealingInv'
  BY <1>2, <1>3, <1>4, <1>5 DEF HealingInv
<1> QED BY <1>3, <1>4, <1>6 DEF More

LEMMA SkipOK == ASSUME HealingInv, Skip PROVE HealingInv'
<1>1. PICK p : p \in {"other", "close"} /\ pc' = p /\ UNCHANGED <<yaml, req, run, job>>
  BY DEF Skip, Step, AfterFirst
<1>2. JobOK(p, job)
  BY <1>1 DEF HealingInv, JobOK
<1> QED BY <1>1, <1>2 DEF HealingInv

LEMMA StoreOK == ASSUME HealingInv, Store PROVE HealingInv'
<1> DEFINE codes == run.issues \cup Validate(yaml, run.records, Cardinality(posts))
           records == run.records # <<>>
<1>1. PICK p : /\ p \in {"other", "close"} /\ pc = "fetch" /\ pc' = p
               /\ job' = [Counted(records, codes, posts' # posts) EXCEPT !.sample = run.sample]
               /\ UNCHANGED <<yaml, req, run>>
  BY DEF Store, Step, AfterFirst, table
<1>2. ~records => codes # {}
  <2>1. ~records => "empty_results" \in Issue(NoItems(run.records), "empty_results")
    BY DEF NoItems, Issue
  <2>2. ~records => "empty_results" \in Validate(yaml, run.records, Cardinality(posts))
    BY <2>1 DEF Validate
  <2> QED BY <2>2
<1>3. records \in BOOLEAN
  OBVIOUS
<1> HIDE DEF codes, records
<1>4. JobOK(p, job')
  BY <1>1, <1>2, <1>3, CountedOK
<1> QED BY <1>1, <1>4 DEF HealingInv

LEMMA OtherOK == ASSUME HealingInv, Other PROVE HealingInv'
<1>1. PICK r \in OtherResults :
        job' = [Counted(r.records, r.issues, r.records) EXCEPT
                  !.sample = IF "fetch_failed" \in r.issues THEN @ ELSE OtherBody]
  BY DEF Other
<1>2. PICK sample :
        job' = [Counted(r.records, r.issues, r.records) EXCEPT !.sample = sample]
  BY <1>1
<1>3. pc = "other" /\ pc' = "close" /\ UNCHANGED <<yaml, req, run>>
  BY DEF Other, Step
<1>4. r.records \in BOOLEAN /\ (~r.records => r.issues # {})
  BY SelfHealingAssumption
<1>5. JobOK("close", job')
  BY <1>2, <1>3, <1>4, CountedOK
<1> QED BY <1>3, <1>5 DEF HealingInv

LEMMA CloseOK == ASSUME HealingInv, Close PROVE HealingInv'
<1>1. UNCHANGED <<yaml, req>>
  BY DEF Close
<1>2. CASE Over("close", job.stored)
  BY <1>1, <1>2, OverOK DEF HealingInv
<1>3. CASE /\ HealingAllowed
           /\ Step("close", "llm")
           /\ job' = [job EXCEPT !.run = Len(req) + 1]
           /\ run' = Begun
  <2>1. "fetch_failed" \notin job.issues
    BY <1>3, RefusedNotHealed DEF HealingAllowed
  <2>2. JobOK("llm", job')
    BY <1>3, <2>1 DEF HealingInv, JobOK, JobFields
  <2> QED BY <1>1, <1>3, <2>2, FreshOK DEF HealingInv, Step
<1> QED BY <1>2, <1>3 DEF Close

LEMMA ProposalOK == ASSUME HealingInv, Propose \/ AskAgain PROVE HealingInv'
<1>1. UNCHANGED <<yaml, req, run>> /\ pc = "llm"
  BY DEF Propose, AskAgain, Step
<1>2. CASE Propose
  <2>1. PICK c \in Candidates : ~c.forbidden /\ job' = [job EXCEPT !.candidate = c]
    BY <1>2 DEF Propose, Acceptable
  <2>2. JobOK("dry_run", job')
    BY <1>1, <2>1 DEF HealingInv, JobOK, JobFields
  <2> QED BY <1>1, <1>2, <2>2 DEF HealingInv, Propose, Step
<1>3. CASE AskAgain
  <2>1. job.tries + 1 \in 0..Retries
    BY <1>3, SelfHealingAssumption DEF HealingInv, JobOK, AskAgain
  <2>2. JobOK("llm", job')
    BY <1>1, <1>3, <2>1 DEF HealingInv, JobOK, JobFields, AskAgain
  <2> QED BY <1>1, <1>3, <2>2 DEF HealingInv, AskAgain, Step
<1> QED BY <1>2, <1>3

\* What is requested has a dry run with counts, and changes something.
LEMMA TryCandidateOK == ASSUME HealingInv, TryCandidate PROVE HealingInv'
<1> DEFINE c == job.candidate
           verdict == RunDryRun(yaml, c.changes, job.sample)
<1>1. Over("dry_run", job.stored) /\ yaml' = yaml
  BY DEF TryCandidate
<1>2. pc = "dry_run" /\ RunOK(run') /\ JobOK(pc', job')
  BY <1>1, OverOK
<1>3. ReqOK(Replaced)
  <2>1. CASE job.by = "regenerate"
    <3>1. job.id \in DOMAIN req => Vetted(Decided(req[job.id], "superseded"))
      BY RowVetted, VettedStays DEF HealingInv
    <3>2. ReqOK([req EXCEPT ![job.id] = Decided(req[job.id], "superseded")])
      BY <3>1, ReqSet DEF HealingInv
    <3> QED BY <2>1, <3>2 DEF Replaced
  <2>2. CASE job.by # "regenerate"
    BY <2>2 DEF Replaced, HealingInv
  <2> QED BY <2>1, <2>2
<1>4. CASE \/ c.changes = <<>>
           \/ verdict \in {"raised", "patch_invalid", "patch_apply_failed"}
  <2>1. req' = Replaced \/ req' = req
    BY <1>4 DEF TryCandidate
  <2> QED BY <1>1, <1>2, <1>3, <2>1 DEF HealingInv
<1>5. CASE /\ c.changes # <<>>
           /\ verdict \notin {"raised", "patch_invalid", "patch_apply_failed"}
  <2>1. verdict \in Measured
    BY <1>5, DryRunVerdicts
  <2>2. req' = Append(Replaced, Request(verdict))
    BY <1>5 DEF TryCandidate
  <2>3. ~c.forbidden /\ "fetch_failed" \notin job.issues
    BY <1>2 DEF HealingInv, JobOK
  <2> HIDE DEF verdict
  <2>4. Vetted(Request(verdict))
    BY <1>5, <2>1, <2>3 DEF Vetted, Request, ReqFields
  <2>5. ReqOK(req')
    BY <1>3, <2>2, <2>4, ReqAppended
  <2> QED BY <1>1, <1>2, <2>5 DEF HealingInv
<1> QED BY <1>4, <1>5

\* A decision about the row leaves it vetted.
LEMMA DecisionOK ==
    ASSUME HealingInv, NEW id, Reject(id) \/ ApproveUnfit(id) PROVE HealingInv'
<1>1. UNCHANGED <<yaml, pc, run, job>>
  BY DEF Reject, ApproveUnfit
<1>2. PICK r : req' = [req EXCEPT ![id] = r]
               /\ (id \in DOMAIN req => Vetted(r))
  <2>1. CASE Reject(id)
    <3>1. id \in DOMAIN req => Vetted(Decided(req[id], "rejected"))
      BY RowVetted, VettedStays DEF HealingInv
    <3> QED BY <2>1, <3>1 DEF Reject
  <2>2. CASE ApproveUnfit(id)
    <3>1. id \in DOMAIN req =>
            Vetted([Decided(req[id], "approved") EXCEPT !.outcome = "apply_failed"])
      BY RowVetted, VettedStays DEF HealingInv
    <3> QED BY <2>2, <3>1 DEF ApproveUnfit
  <2> QED BY <2>1, <2>2
<1>3. ReqOK(req')
  BY <1>2, ReqSet DEF HealingInv
<1> QED BY <1>1, <1>3 DEF HealingInv

LEMMA ApproveOK == ASSUME HealingInv, NEW id, Approve(id) PROVE HealingInv'
<1>1. JobOK(pc', job') /\ RunOK(run')
  BY BeginOK DEF Approve
<1>2. Valid(yaml')
  BY DEF Approve, Applies
<1> DEFINE s == [i \in DOMAIN req |-> IF i = id THEN Decided(req[i], "approved")
                                                ELSE Unsettled[i]]
<1>3. \A i \in DOMAIN req : s[i] = Decided(req[i], "approved")
                            \/ s[i] = [req[i] EXCEPT !.steady = FALSE]
  BY DEF Unsettled
<1>4. s = [i \in DOMAIN req |-> s[i]] /\ req' = s
  BY DEF Approve
<1> HIDE DEF s
<1>5. ASSUME NEW i \in DOMAIN req, Vetted(req[i]) PROVE Vetted(s[i])
  <2>1. Vetted(Decided(req[i], "approved")) /\ Vetted([req[i] EXCEPT !.steady = FALSE])
    BY <1>5, VettedStays
  <2> QED BY <1>3, <2>1
<1>6. ReqOK(s)
  BY <1>4, <1>5, ReqMapped DEF HealingInv
<1> QED BY <1>1, <1>2, <1>4, <1>6 DEF HealingInv

LEMMA CollectOK == ASSUME HealingInv, Collect PROVE HealingInv'
<1>1. JobOK(pc', job') /\ RunOK(run') /\ yaml' = yaml
  BY BeginOK DEF Collect
<1>2. PICK due : req' = [i \in DOMAIN req |-> IF i \in due THEN Decided(req[i], "expired")
                                                           ELSE req[i]]
  BY DEF Collect
<1>3. \A i \in DOMAIN req : req'[i] = Decided(req[i], "expired") \/ req'[i] = req[i]
  BY <1>2
<1>4. req' = [i \in DOMAIN req |-> req'[i]]
  BY <1>2
<1>5. \A i \in DOMAIN req : Vetted(req[i]) => Vetted(req'[i])
  BY <1>3, VettedStays
<1>6. ReqOK(req')
  BY <1>4, <1>5, ReqMapped DEF HealingInv
<1> QED BY <1>1, <1>6 DEF HealingInv

LEMMA VerifiedOK == ASSUME HealingInv, Keep \/ Rollback PROVE HealingInv'
<1>1. pc' = "idle" /\ job' = NoJob /\ run' = run
  BY DEF Keep, Rollback, Step
<1>2. CASE Keep
  <2>1. req' = [req EXCEPT ![job.id] = [req[job.id] EXCEPT !.outcome = "kept"]]
    BY <1>2 DEF Keep
  <2>2. job.id \in DOMAIN req => Vetted([req[job.id] EXCEPT !.outcome = "kept"])
    BY RowVetted, VettedStays DEF HealingInv
  <2>3. ReqOK(req')
    BY <2>1, <2>2, ReqSet DEF HealingInv
  <2> QED BY <1>1, <1>2, <2>3, FreshOK DEF HealingInv, Keep
<1>3. CASE Rollback
  <2>1. \A i \in DOMAIN req : req'[i] = [req[i] EXCEPT !.outcome = "rolled_back"]
                              \/ req'[i] = [req[i] EXCEPT !.steady = FALSE]
    BY <1>3 DEF Rollback, Unsettled
  <2>2. req' = [i \in DOMAIN req |-> req'[i]]
    BY <1>3 DEF Rollback
  <2>3. ASSUME NEW i \in DOMAIN req, Vetted(req[i]) PROVE Vetted(req'[i])
    <3>1. Vetted([req[i] EXCEPT !.outcome = "rolled_back"])
          /\ Vetted([req[i] EXCEPT !.steady = FALSE])
      BY <2>3, VettedStays
    <3> QED BY <2>1, <3>1
  <2>4. ReqOK(req')
    BY <2>2, <2>3, ReqMapped DEF HealingInv
  <2>5. Valid(yaml')
    BY <1>3 DEF Rollback, Step, HealingInv, JobOK
  <2> QED BY <1>1, <2>4, <2>5, FreshOK DEF HealingInv
<1> QED BY <1>2, <1>3

LEMMA RegenerateOK == ASSUME HealingInv, NEW id, Regenerate(id) PROVE HealingInv'
<1>1. id \in DOMAIN req /\ ~req[id].blocked
  BY RowVetted DEF Regenerate, Pending, HealingInv, Vetted
<1> DEFINE j == [NoJob EXCEPT !.by = "regenerate", !.id = id, !.run = req[id].run,
                              !.sample = req[id].sample,
                              !.issues = IF req[id].blocked THEN {"fetch_failed"} ELSE {}]
<1>2. j.by = "regenerate" /\ j.issues = {} /\ j.tries = 0 /\ j.failed \in BOOLEAN
      /\ (~j.failed => ~j.empty) /\ DOMAIN j = JobFields
  BY <1>1 DEF NoJob, JobFields
<1>3. job' = j /\ pc' = "llm" /\ UNCHANGED <<yaml, req, run>>
  BY DEF Regenerate, Step
<1> HIDE DEF j
<1>4. JobOK("llm", j)
  BY <1>2, SelfHealingAssumption DEF JobOK
<1> QED BY <1>3, <1>4 DEF HealingInv

-----------------------------------------------------------------------------
(* The theorems. *)

LEMMA HealingInit == Init => HealingInv
<1> SUFFICES ASSUME Init PROVE HealingInv
  OBVIOUS
<1>1. ReqOK(req)
  <2>1. req = [i \in 1..0 |-> req[i]] /\ \A i \in 1..0 : Vetted(req[i])
    BY DEF Init
  <2> QED BY <2>1 DEF ReqOK
<1>2. Valid(yaml)
  BY SelfHealingAssumption DEF Init
<1> QED BY <1>1, <1>2, FreshOK DEF Init, HealingInv

LEMMA HealingNext == HealingInv /\ [Next]_vars => HealingInv'
<1> SUFFICES ASSUME HealingInv, [Next]_vars PROVE HealingInv'
  OBVIOUS
<1>1. CASE Proceed
  <2>1. CASE Skip \/ Fetch \/ Store \/ Other \/ Close
    BY <2>1, SkipOK, FetchOK, StoreOK, OtherOK, CloseOK
  <2>2. CASE Raise
    <3>1. PICK from, success : Over(from, success)
      BY <2>2 DEF Raise
    <3>2. ReqOK(req') /\ yaml' = yaml
      BY <2>2, UnsettledOK DEF Raise, HealingInv
    <3> QED BY <3>1, <3>2, OverOK DEF HealingInv
  <2>3. CASE LlmFails
    BY <2>3, OverOK DEF LlmFails, HealingInv
  <2>4. CASE Propose \/ AskAgain \/ TryCandidate \/ Keep \/ Rollback
    BY <2>4, ProposalOK, TryCandidateOK, VerifiedOK
  <2> QED BY <1>1, <2>1, <2>2, <2>3, <2>4 DEF Proceed
<1>2. CASE Command
  BY <1>2, CollectOK, ApproveOK, DecisionOK, RegenerateOK DEF Command
<1>3. CASE Redesign
  BY <1>3, UnsettledOK DEF Redesign, HealingInv
<1>4. CASE UNCHANGED vars
  BY <1>4 DEF vars, HealingInv
<1> QED BY <1>1, <1>2, <1>3, <1>4 DEF Next

LEMMA HealingInvariant == Spec => []HealingInv
BY HealingInit, HealingNext, PTL DEF Spec

\* Nothing reaches the operator that the code meant to keep from him: no
\* request follows from a run in which a page was refused, none carries a
\* forbidden proposal, however often the LLM is asked, and each one changes
\* something and has a dry run with counts.
THEOREM OnlyVettedRequests == Spec => []RequestsVetted
<1>1. HealingInv => RequestsVetted
  BY RowVetted DEF HealingInv, RequestsVetted, Vetted, Measured
<1> QED BY <1>1, HealingInvariant, PTL

\* A run is a success only if each of its collectors got records, for any
\* listing, config and number of pages.
THEOREM SuccessNotEmpty == Spec => []SuccessHasRecords
<1>1. HealingInv => SuccessHasRecords
  BY DEF HealingInv, JobOK, SuccessHasRecords
<1> QED BY <1>1, HealingInvariant, PTL

\* Whatever the answers, the patches and the LLM, each step of a process
\* brings it nearer to its end: no config makes the page loop endless.
THEOREM EachStepNearer == Spec => ProcessesEnd
<1>1. HealingInv /\ [Next]_vars => [pc # "idle" => Nearer]_<<pc, run, job>>
  <2> SUFFICES ASSUME HealingInv, [Next]_vars, pc # "idle", ~UNCHANGED <<pc, run, job>>
               PROVE  Nearer
    OBVIOUS
  <2>1. CASE Proceed
    <3>1. CASE Fetch
      <4>1. MaxPages(yaml) \in Int /\ run.pages \in Nat
        BY DEF HealingInv, Valid, RunOK
      <4>2. run.pages + 1 <= MaxPages(yaml) /\ run.pages < run.pages + 1
        BY <3>1, <4>1, FetchOK
      <4> QED BY <3>1, <4>2, FetchOK DEF Nearer
    <3>2. CASE Skip \/ Store \/ Other \/ Propose \/ Keep \/ Rollback
      BY <3>2 DEF Skip, Store, AfterFirst, Other, Propose, Keep, Rollback, Step, Nearer, Stage
    <3>3. CASE AskAgain
      <4>1. job'.tries = job.tries + 1 /\ job.tries \in Nat /\ job.tries < Retries
        BY <3>3 DEF AskAgain, HealingInv, JobOK, JobFields
      <4> QED BY <3>3, <4>1, SelfHealingAssumption DEF AskAgain, Step, Nearer
    <3>4. ASSUME NEW from \in {"fetch", "other", "close", "llm", "dry_run"},
                 NEW success, Over(from, success)
          PROVE  Nearer
      BY <3>4, OverOK DEF Nearer, Stage
    <3>5. CASE Raise \/ LlmFails \/ TryCandidate
      BY <3>4, <3>5 DEF Raise, LlmFails, TryCandidate
    <3>6. CASE Close
      BY <3>4, <3>6 DEF Close, Step, Nearer, Stage
    <3> QED BY <2>1, <3>1, <3>2, <3>3, <3>5, <3>6 DEF Proceed
  <2>2. CASE Command
    BY <2>2 DEF Command, Collect, Approve, ApproveUnfit, Reject, Regenerate, BeginRun, Step
  <2>3. CASE Redesign \/ UNCHANGED vars
    BY <2>3 DEF Redesign, vars
  <2> QED BY <2>1, <2>2, <2>3 DEF Next
<1> QED BY <1>1, HealingInvariant, PTL DEF Spec, ProcessesEnd

-----------------------------------------------------------------------------
(* Types.  What a process is about to write into the table is decided by   *)
(* what it has found there before it asked the LLM or began the rerun.     *)

Status == {"pending", "approved", "rejected", "superseded", "expired"}
Outcome == {"none", "kept", "rolled_back", "apply_failed"}

RowOK(r) ==
    /\ r.status \in Status
    /\ r.outcome \in Outcome
    /\ r.outcome # "none" => r.status = "approved"
    /\ r.steady \in BOOLEAN
    /\ r.status = "pending" => Len(r.changes) \in Nat

TableOK(s) == \E n \in 0..MaxRequest : s = [i \in 1..n |-> s[i]] /\ \A i \in 1..n : RowOK(s[i])

OnePending(s) ==
    \A i, j \in DOMAIN s : s[i].status = "pending" /\ s[j].status = "pending" => i = j

\* The process that is after a new request is the one that may make it, and the
\* row of the patch that is verified stays approved.
Holds(p, j, s) ==
    /\ p = "idle" => j.by = "none"
    /\ p \in {"llm", "dry_run"} =>
          /\ Len(s) < MaxRequest
          /\ \A i \in DOMAIN s : s[i].status = "pending" => j.by = "regenerate" /\ i = j.id
          /\ j.by = "regenerate" => j.id \in DOMAIN s /\ s[j.id].status = "pending"
    /\ p = "dry_run" => j.candidate \in Candidates
    /\ j.by = "regenerate" => p \in {"llm", "dry_run"}
    /\ j.by = "rerun" => /\ j.id \in DOMAIN s /\ s[j.id].status = "approved"
                         /\ DOMAIN j.backup \subseteq Key

PostsOK(s) == \A p, q \in s : p.external_id = q.external_id => p = q

Values == {item.id : item \in Items} \cup {item.title : item \in Items} \cup {Nothing}
Postings == [external_id : Values, title : Values]

LoopOK(r, p, cfg) ==
    /\ r.records \in Seq(Postings)
    /\ p \in {"fetch", "other", "close"} => r.pages = 0 \/ r.pages <= MaxPages(cfg)

TypeInv ==
    /\ site \in Sites
    /\ redesigns \in 0..MaxRedesign
    /\ DOMAIN yaml \subseteq Key
    /\ PostsOK(posts)
    /\ hist \in BOOLEAN /\ steady \in BOOLEAN
    /\ pc \in PC
    /\ TableOK(req) /\ OnePending(req)
    /\ LoopOK(run, pc, yaml)
    /\ Holds(pc, job, req)

LEMMA TableLen ==
    ASSUME NEW s, TableOK(s)
    PROVE  Len(s) \in 0..MaxRequest /\ DOMAIN s = 1..Len(s) /\ \A i \in DOMAIN s : RowOK(s[i])
<1>1. PICK n \in 0..MaxRequest : s = [i \in 1..n |-> s[i]] /\ \A i \in 1..n : RowOK(s[i])
  BY DEF TableOK
<1>2. n \in Nat
  BY <1>1, SelfHealingAssumption
<1> DEFINE S == {s[i] : i \in 1..n}
<1>3. s \in [1..n -> S]
  BY <1>1
<1>4. Len(s) = n
  BY <1>2, <1>3
<1> QED BY <1>1, <1>4

\* A change of the rows: none becomes pending again.
Moves(s, t) ==
    /\ t = [i \in DOMAIN s |-> t[i]]
    /\ \A i \in DOMAIN s : RowOK(t[i]) /\ (t[i].status = "pending" => s[i].status = "pending")

SameStatus(s, t) == \A i \in DOMAIN s : t[i].status = s[i].status

LEMMA SameInterval == ASSUME NEW a \in Nat, NEW b \in Nat, 1..a = 1..b PROVE a = b
<1>1. ASSUME NEW m \in Nat, NEW n \in Nat, 1..m = 1..n PROVE ~(m < n)
  <2>1. n # 0 => n \in 1..n
    OBVIOUS
  <2> QED BY <1>1, <2>1
<1>2. ~(a < b) /\ ~(b < a)
  BY <1>1
<1> QED BY <1>2

LEMMA TableMoves ==
    ASSUME NEW s, TableOK(s), OnePending(s), NEW t, Moves(s, t)
    PROVE  TableOK(t) /\ OnePending(t) /\ Len(t) = Len(s) /\ DOMAIN t = DOMAIN s
<1>1. PICK n \in 0..MaxRequest : s = [i \in 1..n |-> s[i]]
  BY DEF TableOK
<1>2. DOMAIN t = 1..n /\ t = [i \in 1..n |-> t[i]] /\ DOMAIN s = 1..n
  BY <1>1 DEF Moves
<1>3. TableOK(t)
  BY <1>1, <1>2 DEF TableOK, Moves
<1>4. OnePending(t)
  BY <1>2 DEF OnePending, Moves
<1>5. Len(t) = Len(s)
  <2>1. DOMAIN t = 1..Len(t) /\ DOMAIN s = 1..Len(s) /\ Len(t) \in Nat /\ Len(s) \in Nat
    BY <1>3, TableLen, SelfHealingAssumption
  <2>2. 1..Len(t) = 1..Len(s)
    BY <1>2, <2>1
  <2> QED BY <2>1, <2>2, SameInterval
<1> QED BY <1>2, <1>3, <1>4, <1>5

LEMMA HoldsMoves ==
    ASSUME NEW p, NEW j, NEW s, TableOK(s), OnePending(s), NEW t, Moves(s, t),
           SameStatus(s, t), Holds(p, j, s)
    PROVE  Holds(p, j, t)
BY TableMoves DEF Holds, SameStatus

LEMMA RowChanges ==
    ASSUME NEW r, RowOK(r), DOMAIN r = ReqFields
    PROVE  /\ RowOK([r EXCEPT !.steady = FALSE])
           /\ [r EXCEPT !.steady = FALSE].status = r.status
           /\ \A st : Decided(r, st).status = st
           /\ \A st \in Status \ {"pending"} : r.status = "pending" => RowOK(Decided(r, st))
           /\ \A out \in Outcome : r.status = "approved" =>
                 /\ RowOK([r EXCEPT !.outcome = out])
                 /\ [r EXCEPT !.outcome = out].status = "approved"
<1>1. RowOK([r EXCEPT !.steady = FALSE]) /\ [r EXCEPT !.steady = FALSE].status = r.status
  BY DEF RowOK, ReqFields
<1>2. ASSUME NEW st PROVE Decided(r, st).status = st
  BY DEF Decided, ReqFields
<1>3. ASSUME NEW st \in Status \ {"pending"}, r.status = "pending"
      PROVE  RowOK(Decided(r, st))
  <2> DEFINE q == Decided(r, st)
  <2>1. q.status = st /\ q.outcome = r.outcome /\ q.steady = r.steady
    BY DEF Decided, ReqFields
  <2> HIDE DEF q
  <2>2. RowOK(q)
    BY <1>3, <2>1 DEF RowOK
  <2> QED BY <2>2 DEF q
<1>4. ASSUME NEW out \in Outcome, r.status = "approved"
      PROVE  RowOK([r EXCEPT !.outcome = out]) /\ [r EXCEPT !.outcome = out].status = "approved"
  <2> DEFINE q == [r EXCEPT !.outcome = out]
  <2>1. q.status = r.status /\ q.outcome = out /\ q.steady = r.steady
    BY DEF ReqFields
  <2> HIDE DEF q
  <2>2. RowOK(q) /\ q.status = "approved"
    BY <1>4, <2>1 DEF RowOK
  <2> QED BY <2>2 DEF q
<1> QED BY <1>1, <1>2, <1>3, <1>4

LEMMA UnsettledMoves ==
    ASSUME HealingInv, TypeInv PROVE Moves(req, Unsettled) /\ SameStatus(req, Unsettled)
<1>1. \A i \in DOMAIN req : Unsettled[i] = [req[i] EXCEPT !.steady = FALSE]
  BY DEF Unsettled
<1>2. Unsettled = [i \in DOMAIN req |-> Unsettled[i]]
  BY DEF Unsettled
<1>3. \A i \in DOMAIN req : RowOK(req[i]) /\ DOMAIN req[i] = ReqFields
  BY TableLen, RowVetted DEF TypeInv, HealingInv, Vetted
<1>4. \A i \in DOMAIN req : RowOK(Unsettled[i]) /\ Unsettled[i].status = req[i].status
  <2> SUFFICES ASSUME NEW i \in DOMAIN req
               PROVE  RowOK(Unsettled[i]) /\ Unsettled[i].status = req[i].status
    OBVIOUS
  <2> DEFINE r == req[i]
  <2>1. RowOK(r) /\ DOMAIN r = ReqFields /\ Unsettled[i] = [r EXCEPT !.steady = FALSE]
    BY <1>1, <1>3
  <2> HIDE DEF r, Unsettled
  <2>2. RowOK([r EXCEPT !.steady = FALSE]) /\ [r EXCEPT !.steady = FALSE].status = r.status
    BY <2>1, RowChanges
  <2> QED BY <2>1, <2>2 DEF r
<1> HIDE DEF Unsettled
<1> QED BY <1>2, <1>4 DEF Moves, SameStatus

LEMMA MovesItself == ASSUME TypeInv PROVE Moves(req, req) /\ SameStatus(req, req)
<1>1. \A i \in DOMAIN req : RowOK(req[i])
  BY TableLen DEF TypeInv
<1>2. req = [i \in DOMAIN req |-> req[i]]
  BY DEF TypeInv, TableOK
<1> QED BY <1>1, <1>2 DEF Moves, SameStatus

LEMMA SetMoves ==
    ASSUME TypeInv, NEW id, NEW r,
           id \in DOMAIN req => RowOK(r) /\ (r.status = "pending" => req[id].status = "pending")
    PROVE  Moves(req, [req EXCEPT ![id] = r])
<1> DEFINE t == [req EXCEPT ![id] = r]
<1>1. t = [i \in DOMAIN req |-> t[i]] /\ \A i \in DOMAIN req : t[i] = IF i = id THEN r ELSE req[i]
  OBVIOUS
<1> HIDE DEF t
<1>2. \A i \in DOMAIN req : RowOK(req[i])
  BY TableLen DEF TypeInv
<1>3. Moves(req, t)
  BY <1>1, <1>2 DEF Moves
<1> QED BY <1>3 DEF t

-----------------------------------------------------------------------------
(* What the page loop collects: the records of a page are its identified   *)
(* postings in their order.  The place of each is how many come up to it.  *)

Chosen(found, n) == {j \in 1..n : Identified(found[j])}

LEMMA ChosenFinite ==
    ASSUME NEW found, NEW n \in Nat
    PROVE  /\ IsFiniteSet(Chosen(found, n)) /\ Cardinality(Chosen(found, n)) \in Nat
           /\ \A j \in Chosen(found, n) :
                 Cardinality(Chosen(found, j)) \in 1..Cardinality(Chosen(found, n))
<1>1. ASSUME NEW m \in Nat
      PROVE  IsFiniteSet(Chosen(found, m)) /\ Cardinality(Chosen(found, m)) \in Nat
  <2>1. IsFiniteSet(1..m) /\ Chosen(found, m) \in SUBSET (1..m)
    BY FS_Interval DEF Chosen
  <2> QED BY <2>1, FS_Subset, FS_CardinalityType
<1>2. ASSUME NEW j \in Chosen(found, n)
      PROVE  Cardinality(Chosen(found, j)) \in 1..Cardinality(Chosen(found, n))
  <2>1. j \in Nat /\ j \in Chosen(found, j) /\ Chosen(found, j) \in SUBSET Chosen(found, n)
    BY DEF Chosen
  <2>2. Cardinality(Chosen(found, j)) <= Cardinality(Chosen(found, n))
    BY <1>1, <2>1, FS_Subset
  <2>3. Cardinality(Chosen(found, j)) \in Nat /\ Cardinality(Chosen(found, j)) # 0
    BY <1>1, <2>1, FS_EmptySet
  <2> QED BY <1>1, <2>2, <2>3
<1> QED BY <1>1, <1>2

LEMMA RecordsInOrder ==
    ASSUME NEW found, NEW N \in Nat, N = Len(found), NEW P, \A n \in 1..N : found[n] \in P
    PROVE  /\ Records(found) \in Seq(P)
           /\ Len(Records(found)) = Cardinality(Chosen(found, N))
           /\ \A j \in Chosen(found, N) :
                 Records(found)[Cardinality(Chosen(found, j))] = found[j]
<1>1. PICK f : RecordsUpTo(f, found, N) /\ Records(found) = f[N]
  BY RecordSteps
<1> DEFINE Place(j) == Cardinality(Chosen(found, j))
           Holds1(s, n) == /\ s \in Seq(P)
                           /\ Len(s) = Place(n)
                           /\ \A j \in Chosen(found, n) : s[Place(j)] = found[j]
           S == {n \in 0..N : Holds1(f[n], n)}
<1>2. 0 \in S
  <2>1. Chosen(found, 0) = {} /\ f[0] = <<>>
    BY <1>1 DEF RecordsUpTo, Chosen
  <2>2. Place(0) = 0
    BY <2>1, FS_EmptySet
  <2>3. <<>> \in Seq(P) /\ Len(<<>>) = 0
    OBVIOUS
  <2>4. Holds1(<<>>, 0)
    BY <2>1, <2>2, <2>3
  <2>5. Holds1(f[0], 0)
    BY <2>1, <2>4, Zenon
  <2> QED BY <2>5
<1>3. ASSUME NEW n \in 0..(N - 1), n \in S PROVE n + 1 \in S
  <2> DEFINE m == n + 1
  <2>1. m \in 1..N /\ m - 1 = n /\ n \in Nat
    OBVIOUS
  <2>2. f[m] = IF Identified(found[m]) THEN Append(f[n], found[m]) ELSE f[n]
    BY <1>1, <2>1 DEF RecordsUpTo
  <2>3. Holds1(f[n], n)
    BY <1>3
  <2>4. Holds1(f[m], m)
    <3>1. CASE ~Identified(found[m])
      <4>1. Chosen(found, m) = Chosen(found, n)
        BY <2>1, <3>1 DEF Chosen
      <4>2. f[m] = f[n]
        BY <2>2, <3>1
      <4> QED BY <2>3, <4>1, <4>2
    <3>2. CASE Identified(found[m])
      <4>1. Chosen(found, m) = Chosen(found, n) \cup {m} /\ m \notin Chosen(found, n)
        BY <2>1, <3>2 DEF Chosen
      <4>2. Place(m) = Place(n) + 1 /\ Place(n) \in Nat
        BY <2>1, <4>1, ChosenFinite, FS_AddElement
      <4> DEFINE s == f[n]
                 t == Append(s, found[m])
      <4>3. s \in Seq(P) /\ found[m] \in P /\ Len(s) = Place(n)
        BY <2>1, <2>3
      <4> HIDE DEF s
      <4>4. t \in Seq(P) /\ Len(t) = Len(s) + 1 /\ t[Len(s) + 1] = found[m]
            /\ \A k \in 1..Len(s) : t[k] = s[k]
        BY <4>3
      <4> HIDE DEF t
      <4>5. ASSUME NEW j \in Chosen(found, n) PROVE t[Place(j)] = found[j]
        <5>1. Place(j) \in 1..Place(n)
          BY <2>1, ChosenFinite
        <5>2. s[Place(j)] = found[j]
          BY <2>3 DEF s
        <5> QED BY <4>3, <4>4, <5>1, <5>2
      <4>6. t[Place(m)] = found[m]
        BY <4>2, <4>3, <4>4
      <4>7. f[m] = t
        BY <2>2, <3>2 DEF t, s
      <4>8. Len(t) = Place(m)
        BY <4>2, <4>3, <4>4
      <4>9. Holds1(t, m)
        BY <4>1, <4>4, <4>5, <4>6, <4>8
      <4> QED BY <4>7, <4>9, Zenon
    <3> QED BY <3>1, <3>2
  <2> QED BY <2>1, <2>4
<1>4. N \in S
  <2> HIDE DEF S
  <2> QED BY <1>2, <1>3, BoundedInduction
<1> QED BY <1>1, <1>4

\* Nothing is collected exactly where nothing is identified.
LEMMA RecordsEmpty ==
    ASSUME NEW found, NEW N \in Nat, N = Len(found), NEW P, \A n \in 1..N : found[n] \in P
    PROVE  Records(found) = <<>> <=> \A n \in 1..N : ~Identified(found[n])
<1> DEFINE r == Records(found)
<1>1. r \in Seq(P) /\ Len(r) = Cardinality(Chosen(found, N))
  BY RecordsInOrder
<1> HIDE DEF r
<1>2. r = <<>> <=> Len(r) = 0
  BY <1>1
<1>3. Cardinality(Chosen(found, N)) = 0 <=> Chosen(found, N) = {}
  BY ChosenFinite, FS_EmptySet
<1> QED BY <1>1, <1>2, <1>3 DEF Chosen, r

LEMMA RecordsOfNone ==
    ASSUME NEW found, DOMAIN found = {}, found \in Seq(Postings) PROVE Records(found) = <<>>
<1>1. Len(found) \in Nat /\ DOMAIN found = 1..Len(found)
  OBVIOUS
<1>2. 1..Len(found) = {}
  BY <1>1
<1>3. \A n \in 1..Len(found) : found[n] \in Postings /\ ~Identified(found[n])
  BY <1>2
<1> QED BY <1>1, <1>3, RecordsEmpty

LEMMA RecordsType ==
    ASSUME NEW found \in Seq(Postings) PROVE Records(found) \in Seq(Postings)
<1>1. Len(found) \in Nat /\ \A n \in 1..Len(found) : found[n] \in Postings
  OBVIOUS
<1> QED BY <1>1, RecordsInOrder

LEMMA PostingType ==
    ASSUME NEW cfg, NEW body, NEW item \in Items PROVE Posting(cfg, body, item) \in Postings
<1>1. ASSUME NEW field PROVE Pick(cfg, field, body, item) \in Values
  BY DEF Pick, Values
<1> QED BY <1>1 DEF Posting, Postings

\* Every item a page has is taken for a posting.
LEMMA FoundType ==
    ASSUME NEW cfg, NEW body, NEW items \in Seq(Items)
    PROVE  [i \in DOMAIN items |-> Posting(cfg, body, items[i])] \in Seq(Postings)
<1>1. \A i \in DOMAIN items : Posting(cfg, body, items[i]) \in Postings
  BY PostingType
<1> QED BY <1>1

LEMMA TurnType ==
    ASSUME NEW cfg, NEW r, RunOK(r), r.records \in Seq(Postings), NEW answer,
           answer.body.items \in Seq(Items)
    PROVE  OnAnswer(cfg, r, answer).records \in Seq(Postings)
<1> DEFINE Typed(s) == DOMAIN s = RunFields /\ s.records \in Seq(Postings)
<1>1. ASSUME NEW q, Typed(q), NEW codes PROVE Typed(Break(q, codes))
  BY <1>1 DEF Break, RunFields
<1>2. ASSUME NEW q, Typed(q), NEW body, NEW items \in Seq(Items)
      PROVE  Typed(Take(cfg, q, body, items))
  <2> DEFINE found == [i \in DOMAIN items |-> Posting(cfg, body, items[i])]
  <2>1. Records(found) \in Seq(Postings)
    BY FoundType, RecordsType
  <2> DEFINE t == Take(cfg, q, body, items)
  <2>2. DOMAIN t = RunFields /\ t.records = q.records \o Records(found)
    BY <1>2 DEF Take, RunFields
  <2> HIDE DEF t, found
  <2>3. Typed(t)
    BY <1>2, <2>1, <2>2
  <2> QED BY <2>3 DEF t
<1>3. ASSUME NEW q, Typed(q) PROVE Typed(Raised(q))
  BY <1>3 DEF Raised, RunFields
<1>4. ASSUME NEW q, Typed(q), NEW body, NEW items \in Seq(Items)
      PROVE  Typed(OnItems(cfg, q, body, items))
  BY <1>1, <1>2, <1>3, <1>4 DEF OnItems
<1> DEFINE seen == IF r.pages = 0 THEN [r EXCEPT !.sample = answer.body] ELSE r
           items == IF cfg["items_path"] = answer.body.at THEN answer.body.items ELSE <<>>
<1>5. Typed(r) /\ Typed(seen) /\ items \in Seq(Items)
  BY DEF RunOK, RunFields
<1> HIDE DEF seen, items
<1>6. Typed(Break(seen, {"items_path_not_list"})) /\ Typed(Break(r, {"fetch_failed"}))
      /\ Typed(Raised(seen)) /\ Typed(OnItems(cfg, seen, answer.body, items))
  BY <1>1, <1>3, <1>4, <1>5
<1> HIDE DEF Typed
<1>7. Typed(OnAnswer(cfg, r, answer))
  BY <1>6 DEF OnAnswer, seen, items
<1> QED BY <1>7 DEF Typed

\* The site answers with items, of its listing or elsewhere, and a refusal shows
\* nothing.
LEMMA ReplyType ==
    ASSUME NEW s \in Sites, NEW asked
    PROVE  /\ Reply(s, asked).body.items \in Seq(Items)
           /\ Reply(s, asked).blocked => Reply(s, asked) = Blocked
<1>1. /\ s.pages \in Seq(Seq(Items)) /\ s.elsewhere.body.items \in Seq(Items)
      /\ s.elsewhere.blocked => s.elsewhere = Blocked
  BY SelfHealingAssumption
<1>2. ASSUME NEW items \in Seq(Items)
      PROVE  /\ Page(Body(s.layout, items)).body.items \in Seq(Items)
             /\ ~Page(Body(s.layout, items)).blocked
  BY DEF Page, Body, EmptyBody
<1>3. ASSUME NEW n PROVE (IF n \in DOMAIN s.pages THEN s.pages[n] ELSE <<>>) \in Seq(Items)
  BY <1>1
<1> QED BY <1>1, <1>2, <1>3 DEF Reply

LEMMA AnswerType ==
    ASSUME site \in Sites, NEW answer, answer \in Faults \/ answer = Answer
    PROVE  answer.body.items \in Seq(Items)
<1>1. ASSUME answer \in Faults PROVE answer.body.items \in Seq(Items)
  <2>1. answer.body = EmptyBody
    BY <1>1 DEF Faults, Blocked, Page
  <2> QED BY <2>1 DEF EmptyBody
<1> QED BY <1>1, ReplyType DEF Answer

LEMMA UpsertUnique ==
    ASSUME PostsOK(posts), NEW records \in Seq(Postings) PROVE PostsOK(Upserted(records))
<1> DEFINE ids == {records[i].external_id : i \in DOMAIN records}
           latest == {i \in DOMAIN records : \A j \in DOMAIN records :
                        j > i => records[j].external_id # records[i].external_id}
           old == {p \in posts : p.external_id \notin ids}
           new == {records[i] : i \in latest}
<1>1. ASSUME NEW p \in new, NEW q \in new, p.external_id = q.external_id PROVE p = q
  <2>1. PICK i \in latest, j \in latest : p = records[i] /\ q = records[j]
    BY <1>1
  <2>2. i \in Nat /\ j \in Nat /\ i \in DOMAIN records /\ j \in DOMAIN records
    BY <2>1
  <2>3. ~(j > i) /\ ~(i > j)
    BY <1>1, <2>1, <2>2
  <2> QED BY <2>1, <2>2, <2>3
<1>2. ASSUME NEW p \in old, NEW q \in new PROVE p.external_id # q.external_id
  OBVIOUS
<1>3. \A p, q \in old : p.external_id = q.external_id => p = q
  BY DEF PostsOK
<1>4. Upserted(records) = old \cup new
  BY DEF Upserted
<1> HIDE DEF old, new
<1> QED BY <1>1, <1>2, <1>3, <1>4 DEF PostsOK

-----------------------------------------------------------------------------
LEMMA BegunOK == ASSUME NEW p, NEW cfg PROVE LoopOK(Begun, p, cfg)
BY DEF LoopOK, Begun

\* The end of a site run, whatever it has done to the table but to the row it
\* verifies.
LEMMA OverTypes ==
    ASSUME TypeInv, NEW from, NEW success, Over(from, success), NEW t,
           job.by = "rerun" => job.id \in DOMAIN t /\ t[job.id].status = "approved"
    PROVE  pc' \in PC /\ Holds(pc', job', t) /\ LoopOK(run', pc', yaml)
<1>1. LoopOK(run', pc', yaml)
  BY BegunOK DEF Over
<1>2. CASE job.by = "rerun"
  <2> DEFINE j == [NoJob EXCEPT !.by = "rerun", !.id = job.id, !.backup = job.backup,
                                !.stored = success]
  <2>1. j.by = "rerun" /\ j.id = job.id /\ j.backup = job.backup
    BY DEF NoJob
  <2>2. job' = j /\ pc' = "verify"
    BY <1>2 DEF Over, Step
  <2> HIDE DEF j
  <2>3. Holds("verify", j, t)
    BY <1>2, <2>1 DEF TypeInv, Holds
  <2> QED BY <1>1, <2>2, <2>3 DEF PC
<1>3. CASE job.by # "rerun"
  <2>1. Holds("idle", NoJob, t)
    BY DEF Holds, NoJob
  <2> QED BY <1>1, <1>3, <2>1 DEF Over, Step, PC
<1> QED BY <1>2, <1>3

LEMMA BeginTypes ==
    ASSUME TypeInv, NEW by \in {"collect", "rerun"}, NEW id, BeginRun(by, id), NEW t,
           by = "rerun" => id \in DOMAIN t /\ t[id].status = "approved"
    PROVE  pc' \in PC /\ Holds(pc', job', t) /\ \A cfg : LoopOK(run', pc', cfg)
<1> DEFINE j == [NoJob EXCEPT !.by = by, !.id = id,
                              !.backup = IF by = "rerun" THEN yaml ELSE Nothing]
<1>1. j.by = by /\ j.id = id /\ (by = "rerun" => j.backup = yaml)
  BY DEF NoJob
<1>2. job' = j /\ pc' = "fetch" /\ run' = Begun
  BY DEF BeginRun, Step
<1> HIDE DEF j
<1>3. Holds("fetch", j, t)
  BY <1>1 DEF TypeInv, Holds
<1> QED BY <1>2, <1>3, BegunOK DEF PC

\* The row whose patch is verified stays approved.
LEMMA ApprovedStays ==
    ASSUME TypeInv, NEW t, Moves(req, t), SameStatus(req, t)
    PROVE  job.by = "rerun" => job.id \in DOMAIN t /\ t[job.id].status = "approved"
BY DEF TypeInv, Holds, Moves, SameStatus

LEMMA RedesignTypes == ASSUME HealingInv, TypeInv, Redesign PROVE TypeInv'
<1>1. site' \in Sites
  BY DEF Redesign
<1>2. redesigns' \in 0..MaxRedesign
  BY SelfHealingAssumption DEF TypeInv, Redesign
<1>3. req' = Unsettled /\ steady' = FALSE /\ UNCHANGED <<yaml, posts, hist, pc, run, job>>
  BY DEF Redesign, table
<1>4. TableOK(req') /\ OnePending(req') /\ Holds(pc, job, req')
  BY <1>3, UnsettledMoves, TableMoves, HoldsMoves DEF TypeInv
<1> QED BY <1>1, <1>2, <1>3, <1>4 DEF TypeInv

\* The expiry sweep.
LEMMA CollectTypes == ASSUME HealingInv, TypeInv, Collect PROVE TypeInv'
<1>1. PICK due \in SUBSET {i \in DOMAIN req : req[i].status = "pending"} :
        req' = [i \in DOMAIN req |-> IF i \in due THEN Decided(req[i], "expired") ELSE req[i]]
  BY DEF Collect
<1>2. \A i \in DOMAIN req : RowOK(req[i]) /\ DOMAIN req[i] = ReqFields
  BY TableLen, RowVetted DEF TypeInv, HealingInv, Vetted
<1>3. ASSUME NEW i \in DOMAIN req
      PROVE  RowOK(req'[i]) /\ (req'[i].status = "pending" => req[i].status = "pending")
  <2>1. CASE i \in due
    <3>1. req'[i] = Decided(req[i], "expired") /\ req[i].status = "pending"
      BY <1>1, <2>1
    <3>2. "expired" \in Status \ {"pending"}
      BY DEF Status
    <3>3. RowOK(Decided(req[i], "expired")) /\ Decided(req[i], "expired").status = "expired"
      BY <1>2, <3>1, <3>2, RowChanges
    <3> QED BY <3>1, <3>3
  <2>2. CASE i \notin due
    BY <1>1, <1>2, <2>2
  <2> QED BY <2>1, <2>2
<1>4. Moves(req, req')
  BY <1>1, <1>3 DEF Moves
<1>5. TableOK(req') /\ OnePending(req')
  BY <1>4, TableMoves DEF TypeInv
<1>6. BeginRun("collect", 0) /\ steady' = TRUE /\ UNCHANGED <<site, redesigns, yaml, posts, hist>>
  BY DEF Collect, BeginRun, world, table
<1>7. pc' \in PC /\ Holds(pc', job', req') /\ LoopOK(run', pc', yaml')
  BY <1>6, BeginTypes
<1> QED BY <1>5, <1>6, <1>7 DEF TypeInv

LEMMA FetchTypes == ASSUME HealingInv, TypeInv, Fetch PROVE TypeInv'
<1>1. PICK answer : run' = OnAnswer(yaml, run, answer) /\ (answer \in Faults \/ answer = Answer)
  BY DEF Fetch
<1>2. run'.records \in Seq(Postings)
  BY <1>1, AnswerType, TurnType DEF TypeInv, HealingInv, LoopOK
<1>3. UNCHANGED <<site, redesigns, yaml, posts, hist, job>> /\ pc = "fetch" /\ pc' = "fetch"
  BY DEF Fetch, Step, world, table
<1>4. run'.pages = 0 \/ run'.pages <= MaxPages(yaml)
  <2>1. \/ run'.pages = run.pages
        \/ run'.pages = run.pages + 1 /\ run.pages < MaxPages(yaml)
    BY FetchOK
  <2>2. run.pages = 0 \/ run.pages <= MaxPages(yaml)
    BY <1>3 DEF TypeInv, LoopOK
  <2>3. run.pages \in Nat /\ MaxPages(yaml) \in Int
    BY DEF HealingInv, RunOK, Valid
  <2> QED BY <2>1, <2>2, <2>3
<1>5. Moves(req, req') /\ SameStatus(req, req') /\ steady' \in BOOLEAN
  BY UnsettledMoves, MovesItself DEF Fetch, TypeInv
<1>6. TableOK(req') /\ OnePending(req') /\ Holds(pc, job, req')
  BY <1>5, TableMoves, HoldsMoves DEF TypeInv
<1>7. LoopOK(run', pc', yaml')
  BY <1>2, <1>3, <1>4 DEF LoopOK
<1> QED BY <1>3, <1>5, <1>6, <1>7 DEF TypeInv

\* Counting a collector changes nothing of what the process is about.
LEMMA CountedHolds ==
    ASSUME HealingInv, TypeInv, pc \in {"fetch", "other"}, NEW records, NEW codes, NEW changed,
           NEW sample, NEW p \in {"other", "close"},
           job' = [Counted(records, codes, changed) EXCEPT !.sample = sample]
    PROVE  p \in PC /\ Holds(p, job', req)
<1>1. job'.by = job.by /\ job'.id = job.id /\ job'.backup = job.backup
  BY DEF Counted, HealingInv, JobOK, JobFields
<1> QED BY <1>1 DEF TypeInv, Holds, PC

LEMMA SkipTypes == ASSUME HealingInv, TypeInv, Skip PROVE TypeInv'
<1>1. PICK p \in {"other", "close"} :
        /\ pc = "fetch" /\ pc' = p
        /\ UNCHANGED <<site, redesigns, yaml, posts, hist, req, run, job, steady>>
  BY DEF Skip, Step, AfterFirst, world, table
<1>2. p \in PC /\ Holds(p, job, req) /\ LoopOK(run, p, yaml)
  BY <1>1 DEF TypeInv, Holds, PC, LoopOK
<1> QED BY <1>1, <1>2 DEF TypeInv

LEMMA StoreTypes == ASSUME HealingInv, TypeInv, Store PROVE TypeInv'
<1> DEFINE codes == run.issues \cup Validate(yaml, run.records, Cardinality(posts))
           found == run.records # <<>>
<1>1. PICK p \in {"other", "close"} :
        /\ pc = "fetch" /\ pc' = p /\ posts' = Upserted(run.records)
        /\ job' = [Counted(found, codes, posts' # posts) EXCEPT !.sample = run.sample]
        /\ UNCHANGED <<site, redesigns, yaml, hist, req, run, steady>>
  BY DEF Store, Step, AfterFirst, world
<1> HIDE DEF codes, found
<1>2. p \in PC /\ Holds(p, job', req)
  BY <1>1, CountedHolds
<1>3. PostsOK(posts')
  BY <1>1, UpsertUnique DEF TypeInv, LoopOK
<1>4. LoopOK(run, p, yaml)
  BY <1>1 DEF TypeInv, LoopOK
<1> QED BY <1>1, <1>2, <1>3, <1>4 DEF TypeInv

LEMMA OtherTypes == ASSUME HealingInv, TypeInv, Other PROVE TypeInv'
<1>1. PICK r, sample :
        job' = [Counted(r.records, r.issues, r.records) EXCEPT !.sample = sample]
  <2>1. PICK r \in OtherResults :
          job' = [Counted(r.records, r.issues, r.records) EXCEPT
                    !.sample = IF "fetch_failed" \in r.issues THEN @ ELSE OtherBody]
    BY DEF Other
  <2>2. \E sample :
          job' = [Counted(r.records, r.issues, r.records) EXCEPT !.sample = sample]
    BY <2>1
  <2> QED BY <2>2
<1>2. /\ pc = "other" /\ pc' = "close"
      /\ UNCHANGED <<site, redesigns, yaml, posts, hist, req, run, steady>>
  BY DEF Other, Step, world, table
<1>3. "close" \in PC /\ Holds("close", job', req)
  BY <1>1, <1>2, CountedHolds
<1>4. LoopOK(run, "close", yaml)
  BY <1>2 DEF TypeInv, LoopOK
<1> QED BY <1>2, <1>3, <1>4 DEF TypeInv

LEMMA RaiseTypes == ASSUME HealingInv, TypeInv, Raise PROVE TypeInv'
<1>1. PICK from, success : Over(from, success)
  BY DEF Raise
<1>2. Moves(req, req') /\ SameStatus(req, req') /\ steady' \in BOOLEAN
  BY UnsettledMoves, MovesItself DEF Raise, TypeInv
<1>3. TableOK(req') /\ OnePending(req')
  BY <1>2, TableMoves DEF TypeInv
<1>4. UNCHANGED <<site, redesigns, yaml, posts, hist>>
  BY DEF Raise, world, table
<1>5. pc' \in PC /\ Holds(pc', job', req') /\ LoopOK(run', pc', yaml)
  BY <1>1, <1>2, ApprovedStays, OverTypes
<1> QED BY <1>2, <1>3, <1>4, <1>5 DEF TypeInv

LEMMA CloseTypes == ASSUME HealingInv, TypeInv, Close PROVE TypeInv'
<1>1. UNCHANGED <<site, redesigns, yaml, posts, req, steady>> /\ hist' \in BOOLEAN
  BY DEF Close, world
<1>2. CASE Over("close", job.stored)
  <2>1. pc' \in PC /\ Holds(pc', job', req) /\ LoopOK(run', pc', yaml)
    BY <1>2, MovesItself, ApprovedStays, OverTypes
  <2> QED BY <1>1, <2>1 DEF TypeInv
<1>3. CASE /\ HealingAllowed /\ Len(req) < MaxRequest
           /\ Step("close", "llm")
           /\ job' = [job EXCEPT !.run = Len(req) + 1]
           /\ run' = Begun
  <2>1. job'.by = job.by /\ job'.id = job.id /\ job'.backup = job.backup
        /\ pc = "close" /\ pc' = "llm"
    BY <1>3 DEF HealingInv, JobOK, JobFields, Step
  <2>2. Holds("llm", job', req)
    BY <1>3, <2>1 DEF TypeInv, Holds, HealingAllowed
  <2> QED BY <1>1, <1>3, <2>1, <2>2, BegunOK DEF TypeInv, PC
<1> QED BY <1>2, <1>3 DEF Close

LEMMA ProposalTypes == ASSUME HealingInv, TypeInv, Propose \/ AskAgain PROVE TypeInv'
<1>1. /\ UNCHANGED <<site, redesigns, yaml, posts, hist, req, run, steady>>
      /\ pc = "llm" /\ pc' \in {"llm", "dry_run"}
  BY DEF Propose, AskAgain, Step, world, table
<1>2. job'.by = job.by /\ job'.id = job.id /\ job'.backup = job.backup
      /\ (pc' = "dry_run" => job'.candidate \in Candidates)
  BY DEF HealingInv, JobOK, JobFields, Propose, AskAgain, Step
<1>3. Holds(pc', job', req)
  BY <1>1, <1>2 DEF TypeInv, Holds
<1>4. LoopOK(run, pc', yaml)
  BY <1>1 DEF TypeInv, LoopOK
<1> QED BY <1>1, <1>3, <1>4 DEF TypeInv, PC

LEMMA LlmFailsTypes == ASSUME HealingInv, TypeInv, LlmFails PROVE TypeInv'
<1>1. UNCHANGED <<site, redesigns, yaml, posts, hist, req, steady>>
  BY DEF LlmFails, world, table
<1>2. pc' \in PC /\ Holds(pc', job', req) /\ LoopOK(run', pc', yaml)
  BY MovesItself, ApprovedStays, OverTypes DEF LlmFails
<1> QED BY <1>1, <1>2 DEF TypeInv

\* A new row: there is room for it, and no other request is pending.
LEMMA AppendTypes ==
    ASSUME NEW s, TableOK(s), Len(s) < MaxRequest, \A i \in DOMAIN s : s[i].status # "pending",
           NEW r, RowOK(r)
    PROVE  LET t == Append(s, r) IN
           /\ TableOK(t) /\ OnePending(t) /\ DOMAIN s \subseteq DOMAIN t
           /\ \A i \in DOMAIN s : t[i] = s[i]
           /\ \A i \in DOMAIN t : i \in DOMAIN s \/ t[i] = r
<1>1. PICK n \in 0..MaxRequest : s = [i \in 1..n |-> s[i]] /\ \A i \in 1..n : RowOK(s[i])
  BY DEF TableOK
<1>2. n \in Nat /\ DOMAIN s = 1..n
  BY <1>1, SelfHealingAssumption
<1>3. n < MaxRequest
  <2>1. DOMAIN s = 1..Len(s) /\ Len(s) \in Nat
    BY TableLen, SelfHealingAssumption
  <2>2. Len(s) = n
    BY <1>2, <2>1, SameInterval
  <2> QED BY <2>2
<1> DEFINE S == {s[i] : i \in 1..n} \cup {r}
           t == Append(s, r)
<1>4. s \in Seq(S) /\ Len(s) = n
  <2>1. s \in [1..n -> S]
    BY <1>1
  <2> QED BY <1>2, <2>1
<1>5. t \in Seq(S) /\ Len(t) = n + 1 /\ t[n + 1] = r /\ \A i \in 1..n : t[i] = s[i]
  BY <1>4
<1> HIDE DEF t, S
<1>12. \A i \in 1..n : t[i] = s[i]
  BY <1>5
<1>6. DOMAIN t = 1..(n + 1) /\ t = [i \in 1..(n + 1) |-> t[i]]
  <2>1. t \in [1..(n + 1) -> S]
    BY <1>5
  <2> QED BY <2>1
<1>7. \A i \in 1..(n + 1) : RowOK(t[i])
  BY <1>1, <1>5
<1>8. n + 1 \in 0..MaxRequest
  BY <1>2, <1>3, SelfHealingAssumption
<1>9. TableOK(t)
  BY <1>6, <1>7, <1>8 DEF TableOK
<1>10. OnePending(t)
  <2>1. ASSUME NEW i \in DOMAIN t, i # n + 1 PROVE t[i].status # "pending"
    <3>1. i \in 1..n
      BY <1>2, <1>6, <2>1
    <3>2. t[i] = s[i] /\ s[i].status # "pending"
      BY <1>2, <1>12, <3>1
    <3> QED BY <3>2
  <2> QED BY <2>1 DEF OnePending
<1>11. DOMAIN s \subseteq DOMAIN t /\ \A i \in DOMAIN s : t[i] = s[i]
  <2>1. 1..n \subseteq 1..(n + 1)
    BY <1>2
  <2> QED BY <1>2, <1>6, <1>12, <2>1
<1>13. \A i \in DOMAIN t : i \in DOMAIN s \/ t[i] = r
  <2>1. \A i \in 1..(n + 1) : i \in 1..n \/ i = n + 1
    BY <1>2
  <2> QED BY <1>2, <1>5, <1>6, <2>1
<1> QED BY <1>9, <1>10, <1>11, <1>13 DEF t

LEMMA RequestType ==
    ASSUME TypeInv, pc = "dry_run", NEW verdict PROVE RowOK(Request(verdict))
<1> DEFINE r == Request(verdict)
<1>1. r.status = "pending" /\ r.outcome = "none" /\ r.steady = steady
      /\ r.changes = job.candidate.changes
  BY DEF Request
<1>2. Len(job.candidate.changes) \in Nat /\ steady \in BOOLEAN
  BY SelfHealingAssumption DEF TypeInv, Holds
<1> HIDE DEF r
<1>3. RowOK(r)
  BY <1>1, <1>2 DEF RowOK, Status, Outcome
<1> QED BY <1>3 DEF r

\* What becomes of the table when a request is replaced.
LEMMA ReplacedTypes ==
    ASSUME HealingInv, TypeInv, pc = "dry_run"
    PROVE  /\ Moves(req, Replaced)
           /\ \A i \in DOMAIN req : Replaced[i].status # "pending"
           /\ job.by = "rerun" => Replaced = req
<1>1. Holds("dry_run", job, req)
  BY DEF TypeInv
<1>2. CASE job.by = "regenerate"
  <2> DEFINE r == Decided(req[job.id], "superseded")
  <2>1. job.id \in DOMAIN req /\ req[job.id].status = "pending"
    BY <1>1, <1>2 DEF Holds
  <2>2. "superseded" \in Status \ {"pending"}
    BY DEF Status
  <2>3. RowOK(r) /\ r.status = "superseded"
    <3>1. RowOK(req[job.id]) /\ DOMAIN req[job.id] = ReqFields
      BY <2>1, TableLen, RowVetted DEF TypeInv, HealingInv, Vetted
    <3> QED BY <2>1, <2>2, <3>1, RowChanges
  <2> HIDE DEF r
  <2>4. Moves(req, [req EXCEPT ![job.id] = r])
    BY <2>3, SetMoves
  <2>5. Replaced = [req EXCEPT ![job.id] = r]
    BY <1>2 DEF Replaced, r
  <2>6. \A i \in DOMAIN req : Replaced[i].status # "pending"
    BY <1>1, <2>1, <2>3, <2>5 DEF Holds
  <2> QED BY <1>2, <2>4, <2>5, <2>6
<1>3. CASE job.by # "regenerate"
  <2>1. Replaced = req
    BY <1>3 DEF Replaced
  <2>2. \A i \in DOMAIN req : req[i].status # "pending"
    BY <1>1, <1>3 DEF Holds
  <2> QED BY <2>1, <2>2, MovesItself
<1> QED BY <1>2, <1>3

LEMMA TryCandidateTypes == ASSUME HealingInv, TypeInv, TryCandidate PROVE TypeInv'
<1>1. Over("dry_run", job.stored) /\ UNCHANGED <<site, redesigns, yaml, posts, hist, steady>>
  BY DEF TryCandidate, world, table
<1>2. pc = "dry_run"
  BY <1>1, OverOK
<1>3. PICK verdict : req' \in {req, Replaced, Append(Replaced, Request(verdict))}
  BY DEF TryCandidate
<1>4. TableOK(req') /\ OnePending(req')
      /\ DOMAIN req \subseteq DOMAIN req'
      /\ (job.by = "rerun" => \A i \in DOMAIN req : req'[i] = req[i])
  <2>1. CASE req' = req
    BY <2>1 DEF TypeInv
  <2>2. TableOK(Replaced) /\ OnePending(Replaced) /\ Len(Replaced) = Len(req)
        /\ DOMAIN Replaced = DOMAIN req
    BY <1>2, ReplacedTypes, TableMoves DEF TypeInv
  <2>3. CASE req' = Replaced
    BY <1>2, <2>2, <2>3, ReplacedTypes
  <2>4. CASE req' = Append(Replaced, Request(verdict))
    <3>1. Len(Replaced) < MaxRequest /\ \A i \in DOMAIN Replaced : Replaced[i].status # "pending"
      BY <1>2, <2>2, ReplacedTypes DEF TypeInv, Holds
    <3>2. RowOK(Request(verdict))
      BY <1>2, RequestType
    <3>3. /\ TableOK(req') /\ OnePending(req') /\ DOMAIN req \subseteq DOMAIN req'
          /\ \A i \in DOMAIN req : req'[i] = Replaced[i]
      BY <2>2, <2>4, <3>1, <3>2, AppendTypes
    <3> QED BY <1>2, <3>3, ReplacedTypes
  <2> QED BY <1>3, <2>1, <2>3, <2>4
<1>5. job.by = "rerun" => job.id \in DOMAIN req' /\ req'[job.id].status = "approved"
  BY <1>4 DEF TypeInv, Holds
<1>6. pc' \in PC /\ Holds(pc', job', req') /\ LoopOK(run', pc', yaml)
  BY <1>1, <1>5, OverTypes
<1> QED BY <1>1, <1>4, <1>6 DEF TypeInv

-----------------------------------------------------------------------------
LEMMA IdleHolds ==
    ASSUME TypeInv, pc = "idle", NEW t PROVE Holds("idle", job, t)
BY DEF TypeInv, Holds

LEMMA DecisionTypes ==
    ASSUME HealingInv, TypeInv, NEW id, Reject(id) \/ ApproveUnfit(id) PROVE TypeInv'
<1>1. /\ pc = "idle" /\ id \in DOMAIN req /\ req[id].status = "pending"
      /\ UNCHANGED <<site, redesigns, yaml, posts, hist, pc, run, job, steady>>
  BY DEF Reject, ApproveUnfit, Pending, world, table
<1>2. RowOK(req[id]) /\ DOMAIN req[id] = ReqFields
  BY <1>1, TableLen, RowVetted DEF TypeInv, HealingInv, Vetted
<1>3. PICK r : req' = [req EXCEPT ![id] = r] /\ RowOK(r)
  <2>1. CASE Reject(id)
    <3>1. "rejected" \in Status \ {"pending"}
      BY DEF Status
    <3>2. RowOK(Decided(req[id], "rejected"))
      BY <1>1, <1>2, <3>1, RowChanges
    <3> QED BY <2>1, <3>2 DEF Reject
  <2>2. CASE ApproveUnfit(id)
    <3> DEFINE q == Decided(req[id], "approved")
    <3>1. "approved" \in Status \ {"pending"} /\ "apply_failed" \in Outcome
      BY DEF Status, Outcome
    <3>2. RowOK(q) /\ q.status = "approved"
      BY <1>1, <1>2, <3>1, RowChanges
    <3>3. DOMAIN q = ReqFields
      BY <1>2 DEF Decided, ReqFields
    <3>4. req' = [req EXCEPT ![id] = [q EXCEPT !.outcome = "apply_failed"]]
      BY <2>2 DEF ApproveUnfit
    <3> HIDE DEF q
    <3>5. RowOK([q EXCEPT !.outcome = "apply_failed"])
      BY <3>1, <3>2, <3>3, RowChanges
    <3> QED BY <3>4, <3>5
  <2> QED BY <2>1, <2>2
<1>4. Moves(req, req')
  BY <1>1, <1>3, SetMoves
<1>5. TableOK(req') /\ OnePending(req') /\ Holds(pc', job', req')
  BY <1>1, <1>4, TableMoves, IdleHolds DEF TypeInv
<1> QED BY <1>1, <1>5 DEF TypeInv

LEMMA ApproveTypes == ASSUME HealingInv, TypeInv, NEW id, Approve(id) PROVE TypeInv'
<1>1. /\ id \in DOMAIN req /\ req[id].status = "pending" /\ BeginRun("rerun", id)
      /\ UNCHANGED <<site, redesigns, posts, hist>> /\ steady' = TRUE
      /\ yaml' = Patched(yaml, req[id].changes).cfg
  BY DEF Approve, Pending, BeginRun, world, table
<1>2. \A i \in DOMAIN req : RowOK(req[i]) /\ DOMAIN req[i] = ReqFields
  BY TableLen, RowVetted DEF TypeInv, HealingInv, Vetted
<1>3. DOMAIN yaml' \subseteq Key
  <2>1. Len(req[id].changes) \in Nat
    BY <1>1, <1>2 DEF RowOK
  <2> QED BY <1>1, <2>1, PatchedReach DEF TypeInv
<1> DEFINE s == [i \in DOMAIN req |-> IF i = id THEN Decided(req[i], "approved")
                                                ELSE Unsettled[i]]
<1>4. s[id] = Decided(req[id], "approved") /\ s = [i \in DOMAIN req |-> s[i]]
      /\ \A i \in DOMAIN req : i # id => s[i] = Unsettled[i]
  BY <1>1
<1>5. RowOK(s[id]) /\ s[id].status = "approved"
  <2>1. "approved" \in Status \ {"pending"}
    BY DEF Status
  <2>2. RowOK(Decided(req[id], "approved")) /\ Decided(req[id], "approved").status = "approved"
    BY <1>1, <1>2, <2>1, RowChanges
  <2> QED BY <1>4, <2>2
<1>6. req' = s
  BY DEF Approve
<1> HIDE DEF s
<1>7. Moves(req, s)
  <2>1. ASSUME NEW i \in DOMAIN req
        PROVE  RowOK(s[i]) /\ (s[i].status = "pending" => req[i].status = "pending")
    BY <1>1, <1>4, <1>5, UnsettledMoves DEF Moves
  <2> QED BY <1>4, <2>1 DEF Moves
<1>8. TableOK(req') /\ OnePending(req')
  BY <1>6, <1>7, TableMoves DEF TypeInv
<1>9. pc' \in PC /\ Holds(pc', job', req') /\ LoopOK(run', pc', yaml')
  <2>1. id \in DOMAIN s
    BY <1>1, <1>4
  <2> QED BY <1>1, <1>5, <1>6, <2>1, BeginTypes
<1> QED BY <1>1, <1>3, <1>8, <1>9 DEF TypeInv

LEMMA VerifiedTypes == ASSUME HealingInv, TypeInv, Keep \/ Rollback PROVE TypeInv'
<1>1. /\ pc = "verify" /\ pc' = "idle" /\ job' = NoJob
      /\ UNCHANGED <<site, redesigns, posts, hist, run, steady>>
  BY DEF Keep, Rollback, Step, world, table
<1>2. job.id \in DOMAIN req /\ req[job.id].status = "approved" /\ DOMAIN job.backup \subseteq Key
  BY <1>1 DEF HealingInv, JobOK, TypeInv, Holds
<1>3. DOMAIN yaml' \subseteq Key
  BY <1>2 DEF Keep, Rollback, TypeInv
<1>4. RowOK(req[job.id]) /\ DOMAIN req[job.id] = ReqFields
  BY <1>2, TableLen, RowVetted DEF TypeInv, HealingInv, Vetted
<1> DEFINE Out(out) == [req[job.id] EXCEPT !.outcome = out]
<1>5. \A out \in {"kept", "rolled_back"} : RowOK(Out(out)) /\ Out(out).status = "approved"
  <2>1. {"kept", "rolled_back"} \subseteq Outcome
    BY DEF Outcome
  <2> QED BY <1>2, <1>4, <2>1, RowChanges
<1> HIDE DEF Out
<1>6. Moves(req, req')
  <2>1. CASE Keep
    <3>1. req' = [req EXCEPT ![job.id] = Out("kept")]
      BY <2>1 DEF Keep, Out
    <3> QED BY <1>5, <3>1, SetMoves
  <2>2. CASE Rollback
    <3>1. req' = [i \in DOMAIN req |-> IF i = job.id THEN Out("rolled_back") ELSE Unsettled[i]]
      <4>1. \A i \in DOMAIN req :
              (IF i = job.id THEN [req[i] EXCEPT !.outcome = "rolled_back"] ELSE Unsettled[i])
              = (IF i = job.id THEN Out("rolled_back") ELSE Unsettled[i])
        BY DEF Out
      <4> QED BY <2>2, <4>1 DEF Rollback
    <3>2. ASSUME NEW i \in DOMAIN req
          PROVE  RowOK(req'[i]) /\ (req'[i].status = "pending" => req[i].status = "pending")
      <4>1. CASE i = job.id
        <5>1. req'[i] = Out("rolled_back")
          BY <3>1, <4>1
        <5> QED BY <1>5, <5>1
      <4>2. CASE i # job.id
        <5>1. req'[i] = Unsettled[i]
          BY <3>1, <4>2
        <5> QED BY <5>1, UnsettledMoves DEF Moves
      <4> QED BY <4>1, <4>2
    <3> QED BY <3>1, <3>2 DEF Moves
  <2> QED BY <2>1, <2>2
<1>7. TableOK(req') /\ OnePending(req')
  BY <1>6, TableMoves DEF TypeInv
<1>8. Holds(pc', job', req') /\ LoopOK(run', pc', yaml')
  BY <1>1 DEF Holds, NoJob, LoopOK, TypeInv
<1> QED BY <1>1, <1>3, <1>7, <1>8 DEF TypeInv, PC

LEMMA RegenerateTypes == ASSUME HealingInv, TypeInv, NEW id, Regenerate(id) PROVE TypeInv'
<1>1. /\ id \in DOMAIN req /\ req[id].status = "pending" /\ pc = "idle" /\ pc' = "llm"
      /\ Len(req) < MaxRequest
      /\ UNCHANGED <<site, redesigns, yaml, posts, hist, req, run>>
      /\ steady' = req[id].steady
  BY DEF Regenerate, Step, Pending, world, table
<1>2. job'.by = "regenerate" /\ job'.id = id
  BY DEF Regenerate, NoJob
<1>3. steady' \in BOOLEAN
  BY <1>1, TableLen DEF TypeInv, RowOK
<1>4. Holds("llm", job', req)
  BY <1>1, <1>2 DEF Holds, TypeInv, OnePending
<1>5. LoopOK(run, "llm", yaml)
  BY DEF TypeInv, LoopOK
<1> QED BY <1>1, <1>3, <1>4, <1>5 DEF TypeInv, PC

-----------------------------------------------------------------------------
LEMMA TypeInit == Init => TypeInv
<1> SUFFICES ASSUME Init PROVE TypeInv
  OBVIOUS
<1>1. site \in Sites
  BY DEF Init
<1>2. TableOK(req) /\ OnePending(req)
  <2>1. req = [i \in 1..0 |-> req[i]] /\ \A i \in 1..0 : RowOK(req[i])
    BY DEF Init
  <2>2. 0 \in 0..MaxRequest
    BY SelfHealingAssumption
  <2> QED BY <2>1, <2>2 DEF TableOK, OnePending
<1>3. Holds(pc, job, req)
  BY DEF Init, Holds, NoJob
<1>4. DOMAIN yaml \subseteq Key /\ redesigns \in 0..MaxRedesign
  BY SelfHealingAssumption DEF Init
<1>5. PostsOK(posts) /\ hist \in BOOLEAN /\ steady \in BOOLEAN /\ pc \in PC
  BY DEF Init, PC, PostsOK
<1>6. LoopOK(run, pc, yaml)
  BY BegunOK DEF Init
<1> QED BY <1>1, <1>2, <1>3, <1>4, <1>5, <1>6 DEF TypeInv

LEMMA TypeNext == HealingInv /\ TypeInv /\ [Next]_vars => TypeInv'
<1> SUFFICES ASSUME HealingInv, TypeInv, [Next]_vars PROVE TypeInv'
  OBVIOUS
<1>1. CASE Proceed
  BY <1>1, SkipTypes, FetchTypes, StoreTypes, OtherTypes, RaiseTypes, CloseTypes, ProposalTypes,
     LlmFailsTypes, TryCandidateTypes, VerifiedTypes DEF Proceed
<1>2. CASE Command
  BY <1>2, CollectTypes, ApproveTypes, DecisionTypes, RegenerateTypes DEF Command
<1>3. CASE Redesign
  BY <1>3, RedesignTypes
<1>4. CASE UNCHANGED vars
  BY <1>4 DEF vars, TypeInv
<1> QED BY <1>1, <1>2, <1>3, <1>4 DEF Next

LEMMA TypeInvariant == Spec => []TypeInv
BY TypeInit, TypeNext, HealingInvariant, PTL DEF Spec

\* The types of SelfHealing, among them that at most one request of a site is
\* pending at any time, and that every posting is stored once, whatever the
\* pages, the patches and the order of collect runs, decisions and redesigns.
THEOREM HealingTyping == Spec => []TypeOK
<1>1. HealingInv /\ TypeInv => TypeOK
  <2> SUFFICES ASSUME HealingInv, TypeInv PROVE TypeOK
    OBVIOUS
  <2>1. Len(req) <= MaxRequest /\ \A i \in DOMAIN req : RowOK(req[i])
    BY TableLen, SelfHealingAssumption DEF TypeInv
  <2>2. run.pages = 0 \/ run.pages <= MaxPages(yaml) \/ pc \notin {"fetch", "other", "close"}
    BY DEF TypeInv, LoopOK
  <2>3. job.tries <= Retries
    BY SelfHealingAssumption DEF HealingInv, JobOK
  <2> QED BY <2>1, <2>2, <2>3
          DEF TypeInv, TypeOK, RowOK, Status, Outcome, OnePending, PostsOK
<1> QED BY <1>1, HealingInvariant, TypeInvariant, PTL

-----------------------------------------------------------------------------
(* The config stays usable.  A patch is tried on one config and applied to *)
(* another, if the first was itself a patch that has been rolled back.     *)

PathOK(cfg) == cfg["items_path"] \notin BadPath
Turns(cfg) == MaxPages(cfg) > 0

\* The dry run has tried the paths of the patch, unless it turns the pages off.
Tried(changes) ==
    \E cfg : /\ Turns(cfg)
             /\ Patched(cfg, changes).ok
             /\ Turns(Patched(cfg, changes).cfg) => PathOK(Patched(cfg, changes).cfg)

UsableInv ==
    /\ pc # "other"
    /\ job.by = "rerun" => /\ PathOK(job.backup) /\ Turns(job.backup)
                           /\ ~Unreadable(job.backup)
                           /\ Turns(yaml) => PathOK(yaml)
    /\ job.by # "rerun" => /\ PathOK(yaml) /\ ~Unreadable(yaml)
                           /\ DOMAIN req # {} => Turns(yaml)
    \* A mapping that cannot be read makes no record.
    /\ Unreadable(yaml) => run.records = <<>> /\ ~job.stored
    \* Without pages there are no records and no sample, and so no request.
    /\ ~Turns(yaml) => run = Begun /\ ~job.stored /\ job.sample = Nothing
    /\ pc \in {"llm", "dry_run"} => Turns(yaml)
    /\ \A i \in DOMAIN req : req[i].status = "pending" => Tried(req[i].changes)

\* A patch that was tried leaves a config that is usable with one that is.
LEMMA TriedApplies ==
    ASSUME NEW changes, Len(changes) \in Nat, Tried(changes), NEW cfg, PathOK(cfg),
           Patched(cfg, changes).ok, NEW new, new = Patched(cfg, changes).cfg,
           Valid(new), Turns(new)
    PROVE  PathOK(new)
<1> DEFINE N == Len(changes)
<1>1. PICK old : /\ Turns(old) /\ Patched(old, changes).ok
                 /\ Turns(Patched(old, changes).cfg) => PathOK(Patched(old, changes).cfg)
  BY DEF Tried
<1> DEFINE mid == Patched(old, changes).cfg
<1>2. Patched(cfg, changes).ok /\ Patched(cfg, changes).cfg = new
  OBVIOUS
<1>3. \A key : Agree(new, mid, key) \/ (Agree(new, cfg, key) /\ Agree(mid, old, key))
  BY <1>1, <1>2, PatchedKey
<1>4. Turns(mid) => PathOK(mid)
  BY <1>1
<1> HIDE DEF mid
<1>5. Turns(mid)
  <2>1. \A c, d : Agree(c, d, "max_pages") => MaxPages(c) = MaxPages(d)
    BY DEF Agree, MaxPages, Setting
  <2>2. MaxPages(mid) = MaxPages(new) \/ MaxPages(mid) = MaxPages(old)
    BY <1>3, <2>1
  <2> QED BY <1>1, <2>2 DEF Turns
<1>6. "items_path" \in DOMAIN new
  BY DEF Valid
<1>7. new["items_path"] = mid["items_path"] \/ new["items_path"] = cfg["items_path"]
  BY <1>3, <1>6 DEF Agree
<1> QED BY <1>4, <1>5, <1>7 DEF PathOK

\* A request has a dry run behind it that raised no error.
LEMMA MeasuredTried ==
    ASSUME Valid(yaml), Turns(yaml), NEW changes, NEW sample,
           RunDryRun(yaml, changes, sample) \notin {"raised", "patch_invalid", "patch_apply_failed"}
    PROVE  Tried(changes)
<1> DEFINE patched == Patched(yaml, changes)
<1>1. /\ patched.ok /\ Valid(patched.cfg)
      /\ ~Replay(patched.cfg, sample).raised
  BY DEF RunDryRun
<1> HIDE DEF patched
<1>2. Turns(patched.cfg) => PathOK(patched.cfg)
  BY <1>1, ReplayTriesPath DEF Turns, PathOK, Valid
<1> QED BY <1>1, <1>2 DEF Tried, patched

\* The table changes, but no pending request gets other changes.
SamePatches(s, t) ==
    /\ DOMAIN t = DOMAIN s
    /\ \A i \in DOMAIN s : t[i].status = "pending" =>
          s[i].status = "pending" /\ t[i].changes = s[i].changes

LEMMA UnsettledPatches == ASSUME HealingInv PROVE SamePatches(req, Unsettled)
<1>1. \A i \in DOMAIN req : Unsettled[i] = [req[i] EXCEPT !.steady = FALSE]
      /\ DOMAIN Unsettled = DOMAIN req
  BY DEF Unsettled
<1>2. ASSUME NEW i \in DOMAIN req
      PROVE  [req[i] EXCEPT !.steady = FALSE].status = req[i].status
             /\ [req[i] EXCEPT !.steady = FALSE].changes = req[i].changes
  BY RowVetted DEF HealingInv, Vetted, ReqFields
<1> HIDE DEF Unsettled
<1>3. ASSUME NEW i \in DOMAIN req
      PROVE  Unsettled[i].status = req[i].status /\ Unsettled[i].changes = req[i].changes
  BY <1>1, <1>2
<1>4. DOMAIN Unsettled = DOMAIN req
  BY DEF Unsettled
<1> QED BY <1>3, <1>4 DEF SamePatches

LEMMA SetPatches ==
    ASSUME NEW id, NEW r, r.status # "pending" PROVE SamePatches(req, [req EXCEPT ![id] = r])
<1> DEFINE t == [req EXCEPT ![id] = r]
<1>1. DOMAIN t = DOMAIN req /\ \A i \in DOMAIN req : t[i] = IF i = id THEN r ELSE req[i]
  OBVIOUS
<1> HIDE DEF t
<1>2. SamePatches(req, t)
  BY <1>1 DEF SamePatches
<1> QED BY <1>2 DEF t

LEMMA DecidedStatus ==
    ASSUME HealingInv, NEW id \in DOMAIN req, NEW st
    PROVE  Decided(req[id], st).status = st /\ DOMAIN Decided(req[id], st) = ReqFields
BY RowVetted DEF HealingInv, Vetted, Decided, ReqFields

\* What is put into the table or taken from it: the rest of the invariant.
LEMMA PatchesUsable ==
    ASSUME UsableInv, NEW t, SamePatches(req, t)
    PROVE  /\ \A i \in DOMAIN t : t[i].status = "pending" => Tried(t[i].changes)
           /\ DOMAIN t = DOMAIN req
BY DEF UsableInv, SamePatches

LEMMA OverUsable ==
    ASSUME HealingInv, UsableInv, NEW from, NEW success, Over(from, success), yaml' = yaml,
           success => job.stored, SamePatches(req, req')
    PROVE  UsableInv'
<1>1. run' = Begun
  BY DEF Over
<1>2. CASE job.by = "rerun"
  <2> DEFINE j == [NoJob EXCEPT !.by = "rerun", !.id = job.id, !.backup = job.backup,
                                !.stored = success]
  <2>1. j.by = "rerun" /\ j.backup = job.backup /\ j.stored = success /\ j.sample = Nothing
    BY DEF NoJob
  <2>2. job' = j /\ pc' = "verify"
    BY <1>2 DEF Over, Step
  <2> HIDE DEF j
  <2>3. ~Turns(yaml) \/ Unreadable(yaml) => ~success
    BY DEF UsableInv
  <2>4. Begun.records = <<>>
    BY DEF Begun
  <2> QED BY <1>1, <1>2, <2>1, <2>2, <2>3, <2>4, PatchesUsable DEF UsableInv
<1>3. CASE job.by # "rerun"
  <2>1. job' = NoJob /\ pc' = "idle"
    BY <1>3 DEF Over, Step
  <2>2. NoJob.by # "rerun" /\ ~NoJob.stored /\ NoJob.sample = Nothing
    BY DEF NoJob
  <2>3. PathOK(yaml) /\ ~Unreadable(yaml) /\ (DOMAIN req # {} => Turns(yaml))
    BY <1>3 DEF UsableInv
  <2> QED BY <1>1, <2>1, <2>2, <2>3, PatchesUsable DEF UsableInv
<1> QED BY <1>2, <1>3

\* The steps that begin a site run.
LEMMA BeginUsable ==
    ASSUME HealingInv, UsableInv, NEW by \in {"collect", "rerun"}, NEW id, BeginRun(by, id),
           SamePatches(req, req'),
           by = "collect" => job.by # "rerun" /\ yaml' = yaml,
           by = "rerun" => /\ PathOK(yaml) /\ Turns(yaml) /\ ~Unreadable(yaml)
                           /\ Turns(yaml') => PathOK(yaml')
    PROVE  UsableInv'
<1> DEFINE j == [NoJob EXCEPT !.by = by, !.id = id,
                              !.backup = IF by = "rerun" THEN yaml ELSE Nothing]
<1>1. j.by = by /\ (by = "rerun" => j.backup = yaml) /\ ~j.stored /\ j.sample = Nothing
  BY DEF NoJob
<1>2. job' = j /\ pc' = "fetch" /\ run' = Begun /\ Begun.records = <<>>
  BY DEF BeginRun, Step, Begun
<1> HIDE DEF j
<1> QED BY <1>1, <1>2, PatchesUsable DEF UsableInv

LEMMA CollectUsable == ASSUME HealingInv, TypeInv, UsableInv, Collect PROVE UsableInv'
<1>1. PICK due : req' = [i \in DOMAIN req |-> IF i \in due THEN Decided(req[i], "expired")
                                                           ELSE req[i]]
  BY DEF Collect
<1>2. DOMAIN req' = DOMAIN req
      /\ \A i \in DOMAIN req : req'[i] = Decided(req[i], "expired") \/ req'[i] = req[i]
  BY <1>1
<1>3. SamePatches(req, req')
  BY <1>2, DecidedStatus DEF SamePatches
<1>4. BeginRun("collect", 0) /\ yaml' = yaml /\ job.by # "rerun"
  BY DEF Collect, BeginRun, Step, TypeInv, Holds
<1> QED BY <1>3, <1>4, BeginUsable

LEMMA ApproveUsable ==
    ASSUME HealingInv, TypeInv, UsableInv, NEW id, Approve(id) PROVE UsableInv'
<1>1. id \in DOMAIN req /\ req[id].status = "pending" /\ pc = "idle" /\ BeginRun("rerun", id)
  BY DEF Approve, Pending, BeginRun, Step
<1>2. PathOK(yaml) /\ Turns(yaml) /\ ~Unreadable(yaml) /\ Tried(req[id].changes)
  BY <1>1 DEF UsableInv, TypeInv, Holds
<1> DEFINE changes == req[id].changes
           patched == Patched(yaml, changes)
<1>3. Len(changes) \in Nat
  BY <1>1, TableLen DEF TypeInv, RowOK
<1>4. patched.ok /\ Valid(patched.cfg) /\ yaml' = patched.cfg
  BY DEF Approve, Applies
<1>5. Turns(yaml') => PathOK(yaml')
  <2> HIDE DEF changes
  <2>1. Tried(changes)
    BY <1>2 DEF changes
  <2> QED BY <1>2, <1>3, <1>4, <2>1, TriedApplies
<1>6. SamePatches(req, req')
  <2>1. req' = [i \in DOMAIN req |-> IF i = id THEN Decided(req[i], "approved") ELSE Unsettled[i]]
    BY DEF Approve
  <2>2. DOMAIN req' = DOMAIN req /\ req'[id] = Decided(req[id], "approved")
        /\ \A i \in DOMAIN req : i # id => req'[i] = Unsettled[i]
    BY <1>1, <2>1
  <2>3. req'[id].status = "approved"
    BY <1>1, <2>2, DecidedStatus
  <2> QED BY <2>2, <2>3, UnsettledPatches DEF SamePatches
<1> HIDE DEF patched
<1> QED BY <1>1, <1>2, <1>5, <1>6, BeginUsable

LEMMA RedesignUsable == ASSUME HealingInv, UsableInv, Redesign PROVE UsableInv'
<1>1. req' = Unsettled /\ UNCHANGED <<yaml, pc, run, job>>
  BY DEF Redesign
<1> QED BY <1>1, UnsettledPatches, PatchesUsable DEF UsableInv

-----------------------------------------------------------------------------
\* The page loop does not get past the first item of a mapping it cannot read.
LEMMA TurnUnreadable ==
    ASSUME NEW cfg, Unreadable(cfg), NEW r, RunOK(r), r.records = <<>>, NEW answer,
           answer.body.items \in Seq(Items)
    PROVE  OnAnswer(cfg, r, answer).records = <<>>
<1> DEFINE None(s) == DOMAIN s = RunFields /\ s.records = <<>>
           seen == IF r.pages = 0 THEN [r EXCEPT !.sample = answer.body] ELSE r
<1>1. ASSUME NEW q, None(q), NEW codes PROVE None(Break(q, codes))
  BY <1>1 DEF Break, RunFields
<1>2. ASSUME NEW q, None(q) PROVE None(Raised(q))
  BY <1>2 DEF Raised, RunFields
<1>3. ASSUME NEW q, None(q), NEW body PROVE None(Take(cfg, q, body, <<>>))
  <2> DEFINE items == <<>>
             found == [i \in DOMAIN items |-> Posting(cfg, body, items[i])]
             t == Take(cfg, q, body, items)
  <2>1. items \in Seq(Items) /\ DOMAIN items = {} /\ DOMAIN found = {}
    OBVIOUS
  <2>2. found \in Seq(Postings)
    BY <2>1, FoundType
  <2>3. DOMAIN t = RunFields /\ t.records = q.records \o Records(found)
    BY <1>3 DEF Take, RunFields
  <2> HIDE DEF t, found, items
  <2>4. Records(found) = <<>>
    BY <2>1, <2>2, RecordsOfNone
  <2>5. None(t)
    BY <1>3, <2>3, <2>4
  <2> QED BY <2>5 DEF t, items
<1>4. ASSUME NEW q, None(q), NEW body, NEW items PROVE None(OnItems(cfg, q, body, items))
  <2>1. CASE items = <<>>
    BY <1>1, <1>3, <1>4, <2>1 DEF OnItems
  <2>2. CASE items # <<>>
    BY <1>2, <1>4, <2>2 DEF OnItems
  <2> QED BY <2>1, <2>2
<1>5. None(r) /\ None(seen)
  BY DEF RunOK, RunFields
<1> HIDE DEF None, seen
<1>6. None(Break(seen, {"items_path_not_list"})) /\ None(Break(r, {"fetch_failed"}))
      /\ None(Raised(seen)) /\ \A body, items : None(OnItems(cfg, seen, body, items))
  BY <1>1, <1>2, <1>4, <1>5
<1>7. None(OnAnswer(cfg, r, answer))
  BY <1>6 DEF OnAnswer, seen
<1> QED BY <1>7 DEF None

LEMMA FetchUsable == ASSUME HealingInv, TypeInv, UsableInv, Fetch PROVE UsableInv'
<1>1. pc' = "fetch" /\ UNCHANGED <<yaml, job>>
  BY DEF Fetch, Step
<1>2. Turns(yaml)
  <2>1. run.pages \in Nat /\ run.pages < MaxPages(yaml) /\ MaxPages(yaml) \in Int
    BY DEF Fetch, More, HealingInv, RunOK, Valid
  <2> QED BY <2>1 DEF Turns
<1>3. SamePatches(req, req')
  <2>1. SamePatches(req, req)
    BY DEF SamePatches
  <2> QED BY <2>1, UnsettledPatches DEF Fetch
<1>4. PICK answer : run' = OnAnswer(yaml, run, answer) /\ (answer \in Faults \/ answer = Answer)
  BY DEF Fetch
<1>5. Unreadable(yaml) => run'.records = <<>>
  BY <1>4, AnswerType, TurnUnreadable DEF TypeInv, HealingInv, UsableInv
<1> QED BY <1>1, <1>2, <1>3, <1>5, PatchesUsable DEF UsableInv

LEMMA SkipUsable == ASSUME UsableInv, ~site.other, Skip PROVE UsableInv'
<1>1. pc' = "close" /\ UNCHANGED <<yaml, req, run, job>>
  BY DEF Skip, Step, AfterFirst
<1> QED BY <1>1 DEF UsableInv

\* A collector that reads no page stores nothing and leaves no sample.
LEMMA StoreUsable ==
    ASSUME HealingInv, TypeInv, UsableInv, ~site.other, Store PROVE UsableInv'
<1> DEFINE codes == run.issues \cup Validate(yaml, run.records, Cardinality(posts))
           found == run.records # <<>>
<1>1. /\ pc' = "close" /\ UNCHANGED <<yaml, req, run>>
      /\ job' = [Counted(found, codes, posts' # posts) EXCEPT !.sample = run.sample]
  BY DEF Store, Step, AfterFirst
<1> HIDE DEF codes
<1>2. /\ job'.by = job.by /\ job'.backup = job.backup /\ job'.sample = run.sample
      /\ job'.stored = (job.stored \/ found)
  BY <1>1 DEF Counted, HealingInv, JobOK, JobFields
<1>3. run = Begun => ~found /\ run.sample = Nothing
  BY DEF Begun
<1>4. Unreadable(yaml) => ~found
  BY DEF UsableInv
<1> HIDE DEF found
<1> QED BY <1>1, <1>2, <1>3, <1>4 DEF UsableInv

LEMMA CloseUsable == ASSUME HealingInv, UsableInv, Close PROVE UsableInv'
<1>1. UNCHANGED <<yaml, req>> /\ SamePatches(req, req)
  BY DEF Close, SamePatches
<1>2. CASE Over("close", job.stored)
  BY <1>1, <1>2, OverUsable
<1>3. CASE /\ HealingAllowed
           /\ Step("close", "llm")
           /\ job' = [job EXCEPT !.run = Len(req) + 1]
           /\ run' = Begun
  <2>1. /\ job'.by = job.by /\ job'.backup = job.backup /\ job'.sample = job.sample
        /\ job'.stored = job.stored
    BY <1>3 DEF HealingInv, JobOK, JobFields
  <2>2. Turns(yaml) /\ Begun.records = <<>>
    BY <1>3 DEF UsableInv, HealingAllowed, Begun
  <2> QED BY <1>1, <1>3, <2>1, <2>2 DEF UsableInv, Step
<1> QED BY <1>2, <1>3 DEF Close

LEMMA ProposalUsable == ASSUME HealingInv, UsableInv, Propose \/ AskAgain PROVE UsableInv'
<1>1. /\ UNCHANGED <<yaml, req, run>>
      /\ pc = "llm" /\ pc' \in {"llm", "dry_run"}
  BY DEF Propose, AskAgain, Step
<1>2. /\ job'.by = job.by /\ job'.backup = job.backup /\ job'.sample = job.sample
      /\ job'.stored = job.stored
  BY DEF HealingInv, JobOK, JobFields, Propose, AskAgain
<1> QED BY <1>1, <1>2 DEF UsableInv

LEMMA ReplacedPatches ==
    ASSUME HealingInv, TypeInv, pc = "dry_run" PROVE SamePatches(req, Replaced)
<1>1. CASE job.by = "regenerate"
  <2> DEFINE r == Decided(req[job.id], "superseded")
  <2>1. job.id \in DOMAIN req
    BY <1>1 DEF TypeInv, Holds
  <2>2. r.status # "pending"
    BY <2>1, DecidedStatus
  <2>3. Replaced = [req EXCEPT ![job.id] = r]
    BY <1>1 DEF Replaced
  <2> HIDE DEF r
  <2> QED BY <2>2, <2>3, SetPatches
<1>2. CASE job.by # "regenerate"
  BY <1>2 DEF Replaced, SamePatches
<1> QED BY <1>1, <1>2

LEMMA TryCandidateUsable ==
    ASSUME HealingInv, TypeInv, UsableInv, TryCandidate PROVE UsableInv'
<1> DEFINE changes == job.candidate.changes
           verdict == RunDryRun(yaml, changes, job.sample)
<1>1. Over("dry_run", job.stored) /\ yaml' = yaml
  BY DEF TryCandidate
<1>2. pc = "dry_run" /\ Turns(yaml)
  BY <1>1, OverOK DEF UsableInv
<1>3. SamePatches(req, Replaced)
  BY <1>2, ReplacedPatches
<1>4. CASE \/ changes = <<>>
           \/ verdict \in {"raised", "patch_invalid", "patch_apply_failed"}
  <2>1. req' = Replaced \/ req' = req
    BY <1>4 DEF TryCandidate
  <2>2. SamePatches(req, req')
    BY <1>3, <2>1 DEF SamePatches
  <2> QED BY <1>1, <2>2, OverUsable
<1>5. CASE /\ changes # <<>>
           /\ verdict \notin {"raised", "patch_invalid", "patch_apply_failed"}
  <2>1. req' = Append(Replaced, Request(verdict))
    BY <1>5 DEF TryCandidate
  <2>2. Tried(changes)
    BY <1>2, <1>5, MeasuredTried DEF HealingInv
  <2> DEFINE r == Request(verdict)
  <2>3. r.changes = changes
    BY DEF Request
  <2>4. UsableInv' \/ ~(\A i \in DOMAIN req' : req'[i].status = "pending" => Tried(req'[i].changes))
    <3>1. CASE job.by = "rerun"
      <4> DEFINE j == [NoJob EXCEPT !.by = "rerun", !.id = job.id, !.backup = job.backup,
                                    !.stored = job.stored]
      <4>1. j.by = "rerun" /\ j.backup = job.backup /\ job' = j /\ pc' = "verify"
        BY <1>1, <3>1 DEF NoJob, Over, Step
      <4>2. j.stored = job.stored /\ run' = Begun /\ Begun.records = <<>>
        BY <1>1 DEF j, NoJob, Over, Begun
      <4> HIDE DEF j
      <4> QED BY <1>1, <1>2, <3>1, <4>1, <4>2 DEF UsableInv
    <3>2. CASE job.by # "rerun"
      <4>1. job'.by # "rerun" /\ pc' = "idle"
        BY <1>1, <3>2 DEF NoJob, Over, Step
      <4> QED BY <1>1, <1>2, <3>2, <4>1 DEF UsableInv
    <3> QED BY <3>1, <3>2
  <2> HIDE DEF verdict, changes, r
  <2>5. \A i \in DOMAIN req' : req'[i].status = "pending" => Tried(req'[i].changes)
    <3>1. TableOK(Replaced) /\ Len(Replaced) < MaxRequest
          /\ \A i \in DOMAIN Replaced : Replaced[i].status # "pending"
      BY <1>2, ReplacedTypes, TableMoves DEF TypeInv, Holds, Moves
    <3>2. RowOK(r)
      BY <1>2, RequestType DEF r
    <3>3. \A i \in DOMAIN req' : (i \in DOMAIN Replaced /\ req'[i] = Replaced[i]) \/ req'[i] = r
      BY <2>1, <3>1, <3>2, AppendTypes DEF r
    <3> QED BY <2>2, <2>3, <3>1, <3>3
  <2> QED BY <2>4, <2>5
<1> QED BY <1>4, <1>5

LEMMA RaiseUsable == ASSUME HealingInv, UsableInv, Raise PROVE UsableInv'
<1>1. yaml' = yaml
  BY DEF Raise
<1>2. SamePatches(req, req')
  BY UnsettledPatches DEF Raise, SamePatches
<1>3. Over("fetch", FALSE) \/ Over("other", FALSE)
  BY DEF Raise
<1> QED BY <1>1, <1>2, <1>3, OverUsable

LEMMA LlmFailsUsable == ASSUME HealingInv, UsableInv, LlmFails PROVE UsableInv'
<1>1. Over("llm", job.stored) /\ UNCHANGED <<yaml, req>>
  BY DEF LlmFails
<1>2. SamePatches(req, req')
  BY <1>1 DEF SamePatches
<1> QED BY <1>1, <1>2, OverUsable

LEMMA DecisionUsable ==
    ASSUME HealingInv, UsableInv, NEW id, Reject(id) \/ ApproveUnfit(id) PROVE UsableInv'
<1>1. pc' = pc /\ UNCHANGED <<yaml, run, job>> /\ id \in DOMAIN req
  BY DEF Reject, ApproveUnfit, Pending
<1>2. SamePatches(req, req')
  <2>1. CASE Reject(id)
    <3> DEFINE r == Decided(req[id], "rejected")
    <3>1. r.status # "pending"
      BY <1>1, DecidedStatus
    <3>2. req' = [req EXCEPT ![id] = r]
      BY <2>1 DEF Reject
    <3> HIDE DEF r
    <3> QED BY <3>1, <3>2, SetPatches
  <2>2. CASE ApproveUnfit(id)
    <3> DEFINE q == Decided(req[id], "approved")
               r == [q EXCEPT !.outcome = "apply_failed"]
    <3>1. q.status = "approved" /\ DOMAIN q = ReqFields
      BY <1>1, DecidedStatus
    <3>2. req' = [req EXCEPT ![id] = r]
      BY <2>2 DEF ApproveUnfit
    <3> HIDE DEF q
    <3>3. r.status # "pending"
      BY <3>1 DEF ReqFields
    <3> HIDE DEF r
    <3> QED BY <3>2, <3>3, SetPatches
  <2> QED BY <2>1, <2>2
<1> QED BY <1>1, <1>2, PatchesUsable DEF UsableInv

\* A patch is kept if the rerun has stored records, and so has read a page with
\* its paths; otherwise the config is again the one that could be read.
LEMMA VerifiedUsable ==
    ASSUME HealingInv, TypeInv, UsableInv, Keep \/ Rollback PROVE UsableInv'
<1>1. /\ pc = "verify" /\ pc' = "idle" /\ run' = run
      /\ job'.by # "rerun" /\ ~job'.stored /\ job'.sample = Nothing
  BY DEF Keep, Rollback, Step, NoJob
<1>2. job.by = "rerun" /\ job.id \in DOMAIN req /\ req[job.id].status = "approved"
  BY <1>1 DEF HealingInv, JobOK, TypeInv, Holds
<1>3. PathOK(yaml') /\ Turns(yaml') /\ ~Unreadable(yaml')
  BY <1>2 DEF Keep, Rollback, UsableInv
<1> DEFINE Out(out) == [req[job.id] EXCEPT !.outcome = out]
<1>4. \A out : Out(out).status = "approved"
  BY <1>2, RowVetted DEF HealingInv, Vetted, ReqFields
<1> HIDE DEF Out
<1>5. SamePatches(req, req')
  <2>1. CASE Keep
    <3>1. req' = [req EXCEPT ![job.id] = Out("kept")]
      BY <2>1 DEF Keep, Out
    <3> QED BY <1>4, <3>1, SetPatches
  <2>2. CASE Rollback
    <3>1. req' = [i \in DOMAIN req |-> IF i = job.id THEN [req[i] EXCEPT !.outcome = "rolled_back"]
                                                    ELSE Unsettled[i]]
      BY <2>2 DEF Rollback
    <3>2. DOMAIN req' = DOMAIN req /\ req'[job.id] = Out("rolled_back")
          /\ \A i \in DOMAIN req : i # job.id => req'[i] = Unsettled[i]
      BY <1>2, <3>1 DEF Out
    <3>3. req'[job.id].status = "approved"
      BY <1>4, <3>2
    <3> QED BY <3>2, <3>3, UnsettledPatches DEF SamePatches
  <2> QED BY <2>1, <2>2
<1> QED BY <1>1, <1>3, <1>5, PatchesUsable DEF UsableInv

LEMMA RegenerateUsable ==
    ASSUME HealingInv, TypeInv, UsableInv, NEW id, Regenerate(id) PROVE UsableInv'
<1>1. /\ id \in DOMAIN req /\ pc = "idle" /\ pc' = "llm"
      /\ UNCHANGED <<yaml, req, run>> /\ job'.by = "regenerate"
  BY DEF Regenerate, Step, Pending, NoJob
<1>2. PathOK(yaml) /\ Turns(yaml) /\ ~Unreadable(yaml)
  BY <1>1 DEF TypeInv, Holds, UsableInv
<1> QED BY <1>1, <1>2 DEF UsableInv

LEMMA UsableInit == Init => UsableInv
<1> SUFFICES ASSUME Init PROVE UsableInv
  OBVIOUS
<1>1. PathOK(yaml) /\ ~Unreadable(yaml) /\ req = <<>> /\ run = Begun /\ job = NoJob /\ pc = "idle"
  BY SelfHealingAssumption DEF Init, PathOK
<1>2. DOMAIN req = {}
  BY <1>1
<1> QED BY <1>1, <1>2 DEF UsableInv, NoJob

\* Whether there is a second collector does not change.
LEMMA OtherStays == ASSUME [Next]_vars PROVE site'.other = site.other
<1>1. site' = site \/ Redesign
  BY DEF Next, vars, Proceed, Command, Skip, Fetch, Store, Other, Raise, Close, Propose, AskAgain,
         LlmFails, TryCandidate, Keep, Rollback, Collect, Approve, ApproveUnfit, Reject,
         Regenerate, world
<1>2. Redesign => site'.other = site.other
  BY DEF Redesign
<1> QED BY <1>1, <1>2

UsableAlone == ~site.other => UsableInv

LEMMA UsableNext == HealingInv /\ TypeInv /\ UsableAlone /\ [Next]_vars => UsableAlone'
<1> SUFFICES ASSUME HealingInv, TypeInv, UsableInv, ~site.other, [Next]_vars
             PROVE  UsableInv'
  BY OtherStays DEF UsableAlone
<1>1. CASE Proceed
  <2>1. ~Other
    BY DEF Other, Step, UsableInv
  <2> QED BY <1>1, <2>1, SkipUsable, FetchUsable, StoreUsable, RaiseUsable, CloseUsable, ProposalUsable,
             LlmFailsUsable, TryCandidateUsable, VerifiedUsable DEF Proceed
<1>2. CASE Command
  BY <1>2, CollectUsable, ApproveUsable, DecisionUsable, RegenerateUsable DEF Command
<1>3. CASE Redesign
  BY <1>3, RedesignUsable
<1>4. CASE UNCHANGED vars
  BY <1>4 DEF vars, UsableInv
<1> QED BY <1>1, <1>2, <1>3, <1>4 DEF Next

\* At every step of every history of patches and rollbacks the config file
\* loads, and as long as no patch is being verified the paths and the template of
\* a site with one collector can be evaluated (patching/decision.py: what is
\* approved is applied to the file as it is by then, not to the one the dry run
\* has tried).
THEOREM ConfigAlwaysUsable == Spec => []ConfigUsable
<1>1. Init => UsableAlone
  BY UsableInit DEF UsableAlone
<1>2. HealingInv /\ TypeInv /\ UsableAlone => ConfigUsable
  <2>1. HealingInv => Valid(yaml)
    BY DEF HealingInv
  <2>2. ASSUME HealingInv, TypeInv, UsableInv, MaxPages(yaml) > 0 \/ pc = "idle"
        PROVE  PathOK(yaml)
    BY <2>2 DEF TypeInv, Holds, UsableInv, Turns
  <2>3. UsableInv => (job.by # "rerun" => ~Unreadable(yaml))
    BY DEF UsableInv
  <2> QED BY <2>1, <2>2, <2>3 DEF UsableAlone, ConfigUsable, PathOK
<1> QED BY <1>1, <1>2, UsableNext, HealingInvariant, TypeInvariant, PTL DEF Spec
=============================================================================
