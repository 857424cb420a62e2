------------------------- MODULE RegenerationProofs -------------------------
(***************************************************************************)
(* The number of candidates regenerate can create for one run, however     *)
(* many processes race for it, with the samples of Evidence or without.    *)
(***************************************************************************)
EXTENDS Evidence, TypingProofs, FiniteSetTheorems

\* A regenerate process that has passed count_for_run and not inserted yet.
Asks(p, j) == p \in {"llm", "insert"} /\ j.kind = "regenerate"

Asking(r) == {w \in Worker : Asks(pc[w], job[w]) /\ row[job[w].id].run = r}

\* The first request of a run exists as long as any other does.
RunsExist == \A id \in Id : Exists(row, id) => Exists(row, row[id].run)

Commanded == \A w \in Worker :
    pc[w] # "idle" /\ job[w].kind = "regenerate" => w \in Regenerators

MaxRows == RegenLimit + (IF Regenerators = {} THEN 0 ELSE Cardinality(Regenerators) - 1)

\* The bound is not inductive: a process past the check is a row to come.
RoomForAll == \A r \in Id : CountForRun(row, r) + Cardinality(Asking(r)) <= MaxRows

RegenInv == RunsExist /\ Commanded /\ RoomForAll

LEMMA Finite ==
    /\ IsFiniteSet(Regenerators) /\ Cardinality(Regenerators) \in Nat
    /\ Regenerators # {} => Cardinality(Regenerators) > 0
    /\ MaxRows \in Nat /\ RegenLimit <= MaxRows
    /\ \A r : IsFiniteSet(Asking(r)) /\ Cardinality(Asking(r)) \in Nat
    /\ \A t, r : CountForRun(t, r) \in Nat
<1>1. IsFiniteSet(Regenerators)
  BY FiniteWorkers, FS_Subset DEF Regenerators
<1>2. Cardinality(Regenerators) \in Nat /\ (Regenerators # {} => Cardinality(Regenerators) > 0)
  BY <1>1, FS_CardinalityType, FS_EmptySet
<1>3. MaxRows \in Nat /\ RegenLimit <= MaxRows
  BY <1>2, RunnerAssumption DEF MaxRows
<1>4. ASSUME NEW r PROVE IsFiniteSet(Asking(r)) /\ Cardinality(Asking(r)) \in Nat
  <2>1. IsFiniteSet(Asking(r))
    BY FiniteWorkers, FS_Subset DEF Asking
  <2> QED BY <2>1, FS_CardinalityType
<1>5. ASSUME NEW t, NEW r PROVE CountForRun(t, r) \in Nat
  <2>1. IsFiniteSet(Id)
    BY TableAssumption, FS_Interval DEF Id
  <2>2. IsFiniteSet({id \in Id : Exists(t, id) /\ t[id].run = r})
    BY <2>1, FS_Subset
  <2> QED BY <2>2, FS_CardinalityType DEF CountForRun
<1> QED BY <1>1, <1>2, <1>3, <1>4, <1>5

LEMMA RegenInit == Init => RegenInv
<1> SUFFICES ASSUME Init PROVE RegenInv
  OBVIOUS
<1>1. \A id \in Id : ~Exists(row, id)
  BY DEF Init, NoRow, Exists
<1>2. \A w \in Worker : pc[w] = "idle"
  BY DEF Init
<1>3. ASSUME NEW r \in Id PROVE CountForRun(row, r) + Cardinality(Asking(r)) <= MaxRows
  <2>1. {id \in Id : Exists(row, id) /\ row[id].run = r} = {} /\ Asking(r) = {}
    BY <1>1, <1>2 DEF Asking, Asks
  <2>2. CountForRun(row, r) = 0 /\ Cardinality(Asking(r)) = 0
    BY <2>1, FS_EmptySet DEF CountForRun
  <2> QED BY <2>2, Finite
<1> QED BY <1>1, <1>2, <1>3 DEF RegenInv, RunsExist, Commanded, RoomForAll

-----------------------------------------------------------------------------
(* Most steps create no request and bring no process past the check. *)

SameRuns == \A id \in Id :
    /\ Exists(row', id) <=> Exists(row, id)
    /\ row'[id].run = row[id].run /\ row'[id].expires = row[id].expires

\* Both ways to an insert lead through the LLM.
FromLlm(w) == pc'[w] = "insert" => pc[w] \in {"heal_llm", "llm"}

Steady(w) ==
    /\ SameRuns
    /\ pc'[w] \in {"llm", "insert"} =>
         pc[w] = "llm" \/ (pc[w] # "idle" /\ job[w].kind # "regenerate")
    /\ FromLlm(w)
    /\ pc[w] = "idle" => job'[w].kind \in Commands[w]

LEMMA SteadyStep ==
    ASSUME TypeInv, NEW w \in Worker, NEW from, from # "idle",
           NEW to, to \notin {"llm", "insert"}, Step(w, from, to), SameRuns
    PROVE  Steady(w)
BY DEF TypeInv, JobsOK, Step, Steady, FromLlm

LEMMA SteadyUpdate ==
    ASSUME TypeInv, NEW id \in Id, NEW st \in Decision, NEW t,
           row' = UpdateStatus(row, id, st, t)
    PROVE  SameRuns
<1>1. \A i \in Id : row[i] \in Row
  BY DEF TypeInv, DataOK
<1>2. row \in [Id -> Row]
  BY DEF TypeInv, DataOK
<1>3. CASE Matches(row, id)
  <2> DEFINE r == [row[id] EXCEPT !.status = st, !.decided = t]
  <2>1. r.status # "none" /\ r.run = row[id].run /\ r.expires = row[id].expires
    BY <1>1 DEF Row, Decision
  <2>2. row' = [row EXCEPT ![id] = r]
    BY <1>2, <1>3 DEF UpdateStatus
  <2>3. Exists(row, id)
    BY <1>3 DEF Matches, Pending, Exists
  <2> HIDE DEF r
  <2> QED BY <1>2, <2>1, <2>2, <2>3 DEF SameRuns, Exists
<1>4. CASE ~Matches(row, id)
  BY <1>4 DEF UpdateStatus, SameRuns
<1> QED BY <1>3, <1>4

LEMMA AfterRunElsewhere == ASSUME NEW w, NEW ok PROVE AfterRun(w, ok) \notin {"llm", "insert"}
BY DEF AfterRun

LEMMA SteadyRunSite ==
    ASSUME TypeInv, NEW w \in Worker, NEW s, NEW from, from # "idle",
           RunSite(w, s, from), row' = row
    PROVE  Steady(w)
<1>1. SameRuns
  BY DEF SameRuns
<1>2. ASSUME NEW r \in Results, RunSite(w, s, from)!1!(r) PROVE Steady(w)
  BY <1>1, <1>2, AfterRunElsewhere, SteadyStep
<1>3. CASE RunSite(w, s, from)!2
  BY <1>1, <1>3, AfterRunElsewhere, SteadyStep
<1> QED BY <1>2, <1>3 DEF RunSite

LEMMA SteadyDeciding ==
    ASSUME TypeInv, NEW w \in Worker, DecidingStep(w) PROVE Steady(w)
<1>0. job \in [Worker -> Job] /\ pc \in [Worker -> PC] /\ ShapeAt(pc[w], job[w])
  BY DEF TypeInv, JobsOK
<1>1. ASSUME NEW kind, NEW id, Begin(w, kind, id) PROVE Steady(w)
  <2> DEFINE j == [NoJob EXCEPT !.kind = kind, !.id = id]
  <2>1. j.kind = kind
    BY DEF NoJob
  <2>2. pc'[w] = "get" /\ job'[w] = j /\ row' = row /\ kind \in Commands[w]
    BY <1>0, <1>1 DEF Begin, Step
  <2> HIDE DEF j
  <2> QED BY <2>1, <2>2 DEF Steady, FromLlm, SameRuns
<1>2. CASE \/ Get(w) \/ GetRefused(w) \/ Recheck(w) \/ RecheckRefused(w) \/ AuditDecided(w)
  <2>1. SameRuns
    BY <1>2 DEF Get, GetRefused, Recheck, RecheckRefused, AuditDecided, SameRuns
  <2> QED BY <1>2, <2>1, SteadyStep
       DEF Get, GetRefused, Recheck, RecheckRefused, AuditDecided, AfterGet, Exit
<1>3. CASE Decide(w) \/ DecideLost(w)
  <2>1. pc[w] = "cas"
    BY <1>3 DEF Decide, DecideLost, Exit, Step
  <2>2. job[w].id \in Id
    BY <1>0, <2>1 DEF ShapeAt, DecidePC
  <2>3. DecisionOf(job[w].kind) \in Decision
    BY DEF DecisionOf, Decision
  <2>4. SameRuns
    BY <1>3, <2>2, <2>3, SteadyUpdate DEF Decide, DecideLost
  <2> QED BY <1>3, <2>4, SteadyStep DEF Decide, DecideLost, Exit
<1> QED BY <1>1, <1>2, <1>3 DEF DecidingStep

LEMMA SteadyHealing ==
    ASSUME TypeInv, NEW w \in Worker, HealingStep(w), ~Count(w), ~Insert(w)
    PROVE  Steady(w)
<1>0. job \in [Worker -> Job] /\ pc \in [Worker -> PC] /\ ShapeAt(pc[w], job[w])
  BY DEF TypeInv, JobsOK
<1>1. ASSUME row' = row PROVE SameRuns
  BY <1>1 DEF SameRuns
<1>2. CASE HealHistory(w) \/ HealPending(w) \/ HealRejected(w)
  BY <1>1, <1>2, SteadyStep, AfterRunElsewhere
     DEF HealHistory, HealPending, HealRejected, HealGuard, HealSkip
<1>3. CASE HealLlm(w)
  <2>1. pc[w] = "heal_llm" /\ row' = row
    BY <1>3 DEF HealLlm, HealGuard, HealSkip, Step
  <2>2. job[w].kind # "regenerate"
    BY <1>0, <2>1 DEF ShapeAt, HealGuardPC
  <2> QED BY <1>1, <2>1, <2>2 DEF Steady, FromLlm
<1>4. CASE Llm(w)
  <2>1. pc[w] = "llm" /\ row' = row
    BY <1>4 DEF Llm, HealGuard, Exit, Step
  <2> QED BY <1>1, <2>1 DEF Steady, FromLlm
<1>5. CASE AuditCreated(w) \/ Post(w)
  BY <1>1, <1>5, SteadyStep, AfterRunElsewhere DEF AuditCreated, Post, CardDone, Exit
<1>6. CASE Attach(w)
  <2>1. row \in [Id -> Row]
    BY DEF TypeInv, DataOK
  <2>2. SameRuns
    BY <1>6, <2>1 DEF Attach, AttachSlack, SameRuns, Exists, Row
  <2> QED BY <1>6, <2>2, SteadyStep, AfterRunElsewhere DEF Attach, CardDone, Exit
<1> QED BY <1>2, <1>3, <1>4, <1>5, <1>6 DEF HealingStep

LEMMA SteadyPatching ==
    ASSUME TypeInv, NEW w \in Worker, PatchingStep(w) PROVE Steady(w)
<1>1. CASE Rerun(w)
  BY <1>1, SteadyRunSite DEF Rerun
<1>2. CASE ~Rerun(w)
  <2>1. SameRuns
    BY <1>2 DEF PatchingStep, ReadConfig, AuditApplyFailed, BackupConfig, TruncateConfig,
                WriteConfig, AuditApplied, LoadConfigs, Report, Rollback, AuditRolledBack,
                SameRuns
  <2> QED BY <1>2, <2>1, SteadyStep
          DEF PatchingStep, ReadConfig, AuditApplyFailed, BackupConfig, TruncateConfig,
              WriteConfig, AuditApplied, LoadConfigs, Report, Rollback, AuditRolledBack, Exit
<1> QED BY <1>1, <1>2

LEMMA SteadyCollecting ==
    ASSUME TypeInv, NEW w \in Worker, CollectingStep(w) PROVE Steady(w)
<1>0. job \in [Worker -> Job] /\ pc \in [Worker -> PC] /\ row \in [Id -> Row]
      /\ \A id \in Id : KeepsAt(pc[w], job[w], id) => Exists(row, id)
  BY DEF TypeInv, JobsOK, DataOK, KeptOK
<1>1. ASSUME row' = row PROVE SameRuns
  BY <1>1 DEF SameRuns
<1>2. CASE Collect(w)
  <2>1. PICK plan \in (SUBSET Site) \ {{}} :
          job' = [job EXCEPT ![w] = [NoJob EXCEPT !.kind = "collect", !.todo = plan]]
    BY <1>2 DEF Collect
  <2> DEFINE j == [NoJob EXCEPT !.kind = "collect", !.todo = plan]
  <2>2. j.kind = "collect"
    BY DEF NoJob
  <2>3. pc'[w] = "acquire" /\ job'[w] = j /\ row' = row /\ "collect" \in Commands[w]
    BY <1>0, <1>2, <2>1 DEF Collect, Step
  <2> HIDE DEF j
  <2> QED BY <1>1, <2>2, <2>3 DEF Steady, FromLlm
<1>3. CASE Acquire(w) \/ AcquireRefused(w) \/ SweepSelect(w) \/ Release(w)
  BY <1>1, <1>3, SteadyStep DEF Acquire, AcquireRefused, SweepSelect, Release, Exit
<1>4. CASE SweepUpdate(w)
  <2>1. \A id \in job[w].due \cap Id : Exists(row, id)
    BY <1>0 DEF KeepsAt
  <2>2. ASSUME NEW id \in Id
        PROVE  /\ Exists(row', id) <=> Exists(row, id)
               /\ row'[id].run = row[id].run /\ row'[id].expires = row[id].expires
    <3>1. row[id] \in Row
      BY <1>0
    <3> QED BY <1>4, <2>1, <3>1 DEF SweepUpdate, Expire, Exists, Row
  <2> QED BY <1>4, <2>2, SteadyStep DEF SweepUpdate, SameRuns
<1>5. CASE SweepAudit(w)
  BY <1>1, <1>5, SteadyStep DEF SweepAudit
<1>6. CASE CollectSite(w)
  BY <1>6, SteadyRunSite DEF CollectSite
<1> QED BY <1>2, <1>3, <1>4, <1>5, <1>6 DEF CollectingStep

-----------------------------------------------------------------------------
(* The invariant. *)

LEMMA SameRunsCount ==
    ASSUME SameRuns, NEW r PROVE CountForRun(row', r) = CountForRun(row, r)
<1>1. {id \in Id : Exists(row', id) /\ row'[id].run = r}
        = {id \in Id : Exists(row, id) /\ row[id].run = r}
  BY DEF SameRuns
<1> QED BY <1>1 DEF CountForRun

\* Each process knows its request, and the request its run.
LEMMA AskingKnown ==
    ASSUME TypeInv, NEW w \in Worker, Asks(pc[w], job[w])
    PROVE  job[w].id \in Id /\ Exists(row, job[w].id) /\ row[job[w].id].run \in Id
BY DEF TypeInv, JobsOK, ShapeAt, KeptOK, KeepsAt, Asks, DataOK

LEMMA CommandedStep ==
    ASSUME TypeInv, Commanded, NEW w \in Worker, OwnStep(w),
           pc[w] = "idle" => job'[w].kind \in Commands[w]
    PROVE  Commanded'
<1>1. ASSUME NEW v \in Worker, pc'[v] # "idle", job'[v].kind = "regenerate"
      PROVE  v \in Regenerators
  BY <1>1 DEF Commanded, OwnStep, Regenerators
<1> QED BY <1>1 DEF Commanded, Regenerators

LEMMA SteadyRoom ==
    ASSUME RegenInv, SameRuns, \A r : Asking(r)' \subseteq Asking(r)
    PROVE  RoomForAll'
<1>1. ASSUME NEW r \in Id
      PROVE  CountForRun(row', r) + Cardinality(Asking(r)') <= MaxRows
  <2>1. Cardinality(Asking(r)') <= Cardinality(Asking(r)) /\ IsFiniteSet(Asking(r)')
    BY Finite, FS_Subset
  <2>2. Cardinality(Asking(r)') \in Nat
    BY <2>1, FS_CardinalityType
  <2>3. CountForRun(row, r) + Cardinality(Asking(r)) <= MaxRows
    BY DEF RegenInv, RoomForAll
  <2>4. CountForRun(row', r) = CountForRun(row, r) /\ CountForRun(row, r) \in Nat
    BY SameRunsCount, Finite
  <2> HIDE DEF MaxRows
  <2> QED BY <2>1, <2>2, <2>3, <2>4, Finite
<1> QED BY <1>1 DEF RoomForAll, MaxRows, Regenerators

LEMMA SteadyInv ==
    ASSUME TypeInv, TypeInv', RegenInv, NEW w \in Worker, OwnStep(w), Steady(w)
    PROVE  RegenInv'
<1>1. RunsExist'
  BY DEF RegenInv, RunsExist, Steady, FromLlm, SameRuns, TypeInv, DataOK
<1>2. Commanded'
  BY CommandedStep DEF RegenInv, Steady, FromLlm
<1>3. ASSUME NEW r, NEW v \in Asking(r)' PROVE v \in Asking(r)
  <2>1. v \in Worker /\ pc'[v] \in {"llm", "insert"} /\ job'[v].kind = "regenerate"
        /\ row'[job'[v].id].run = r /\ job'[v].id \in Id
    BY AskingKnown DEF Asking, Asks, TypeInv, JobsOK, ShapeAt
  <2>2. Asks(pc[v], job[v]) /\ job'[v].id = job[v].id
    BY <2>1 DEF OwnStep, Steady, FromLlm, Asks
  <2> QED BY <2>1, <2>2 DEF Asking, Steady, FromLlm, SameRuns
<1>4. RoomForAll'
  BY <1>3, SteadyRoom DEF Steady, FromLlm
<1> QED BY <1>1, <1>2, <1>4 DEF RegenInv

LEMMA CountInv ==
    ASSUME TypeInv, TypeInv', RegenInv, NEW w \in Worker, OwnStep(w), Count(w)
    PROVE  RegenInv'
<1>0. row' = row /\ pc[w] = "count" /\ job[w].kind = "regenerate" /\ pc \in [Worker -> PC]
  BY DEF Count, HealGuard, Exit, Step, TypeInv, JobsOK, ShapeAt
<1>0a. SameRuns
  BY <1>0 DEF SameRuns
<1>1. RunsExist' /\ Commanded'
  BY <1>0, CommandedStep DEF RegenInv, RunsExist, Exists
<1>2. CASE Exit(w, "count")
  <2>1. Steady(w)
    BY <1>0a, <1>2, SteadyStep DEF Exit
  <2> QED BY <2>1, SteadyInv
<1>3. CASE /\ HealGuard(w, "count", "llm")
           /\ CountForRun(row, row[job[w].id].run) < RegenLimit
  <2> DEFINE run == row[job[w].id].run
  <2>1. pc' = [pc EXCEPT ![w] = "llm"] /\ job' = job
    BY <1>3 DEF HealGuard, Step
  <2>2. ASSUME NEW r \in Id, r # run PROVE Asking(r)' \subseteq Asking(r)
    BY <1>0, <2>1, <2>2 DEF Asking, Asks
  <2>3. ASSUME NEW r \in Id
        PROVE  CountForRun(row', r) + Cardinality(Asking(r)') <= MaxRows
    <3>0. CountForRun(row', r) = CountForRun(row, r) /\ CountForRun(row, r) \in Nat
      BY <1>0, Finite
    <3>1. CASE r = run
      <4>1. Asking(r)' \subseteq Regenerators
        BY <1>1 DEF Asking, Asks, Commanded, Regenerators
      <4>2. w \in Regenerators
        BY <1>0 DEF RegenInv, Commanded
      <4>3. Cardinality(Asking(r)') <= Cardinality(Regenerators) /\ IsFiniteSet(Asking(r)')
        BY <4>1, Finite, FS_Subset
      <4>4. Cardinality(Asking(r)') \in Nat
        BY <4>3, FS_CardinalityType
      <4>5. MaxRows = RegenLimit + (Cardinality(Regenerators) - 1)
        BY <4>2 DEF MaxRows
      <4>6. CountForRun(row, r) < RegenLimit
        BY <1>3, <3>1
      <4> QED BY <3>0, <4>3, <4>4, <4>5, <4>6, Finite, RunnerAssumption
    <3>2. CASE r # run
      <4>1. Cardinality(Asking(r)') <= Cardinality(Asking(r)) /\ IsFiniteSet(Asking(r)')
        BY <2>2, <3>2, Finite, FS_Subset
      <4>2. Cardinality(Asking(r)') \in Nat
        BY <4>1, FS_CardinalityType
      <4>3. CountForRun(row, r) + Cardinality(Asking(r)) <= MaxRows
        BY DEF RegenInv, RoomForAll
      <4> QED BY <3>0, <4>1, <4>2, <4>3, Finite
    <3> QED BY <3>1, <3>2
  <2>4. RoomForAll'
    BY <2>3 DEF RoomForAll, MaxRows, Regenerators
  <2> QED BY <1>1, <2>4 DEF RegenInv
<1> QED BY <1>2, <1>3 DEF Count

LEMMA InsertInv ==
    ASSUME TypeInv, TypeInv', RegenInv, NEW w \in Worker, OwnStep(w), Insert(w)
    PROVE  RegenInv'
<1> DEFINE regen == job[w].kind = "regenerate"
           was == row[job[w].id].run
<1>1. PICK id \in Id :
        /\ IsNextId(row, id)
        /\ Step(w, "insert", "audit_created")
        /\ row' = Inserted(row, id, job[w].site, IF regen THEN was ELSE id, now)
        /\ job' = [job EXCEPT ![w].new = id]
  BY DEF Insert
<1> DEFINE run == IF regen THEN was ELSE id
           Rows(t, r) == {i \in Id : Exists(t, i) /\ t[i].run = r}
<1>2. /\ pc \in [Worker -> PC] /\ job \in [Worker -> Job] /\ row \in [Id -> Row]
      /\ \A i \in Id : Exists(row, i) => row[i].run \in Id
  BY DEF TypeInv, JobsOK, DataOK
<1>3. pc[w] = "insert" /\ pc'[w] = "audit_created" /\ ~Exists(row, id)
  BY <1>1, <1>2 DEF Step, IsNextId
<1>4. regen => Asks(pc[w], job[w]) /\ Exists(row, job[w].id) /\ job[w].id \in Id /\ was \in Id
  BY <1>3, AskingKnown DEF Asks
<1>5. /\ row'[id].run = run /\ Exists(row', id)
      /\ \A i \in Id \ {id} : row'[i] = row[i]
  <2>1. row' = [row EXCEPT ![id] = [NoRow EXCEPT !.status = "pending", !.site = job[w].site,
                                                 !.run = run, !.expires = now + Expiry]]
    BY <1>1 DEF Inserted
  <2>2. row'[id] = [NoRow EXCEPT !.status = "pending", !.site = job[w].site,
                                 !.run = run, !.expires = now + Expiry]
    BY <1>2, <2>1
  <2>3. row'[id].run = run /\ row'[id].status = "pending"
    BY <2>2 DEF NoRow
  <2> QED BY <1>2, <2>1, <2>3 DEF Exists
<1>6. /\ \A v \in Worker \ {w} : pc'[v] = pc[v] /\ job'[v] = job[v]
      /\ \A v \in Worker : Asks(pc[v], job[v]) => job[v].id # id
  BY <1>3, AskingKnown DEF OwnStep
<1>7. RunsExist'
  <2>1. ASSUME NEW i \in Id, Exists(row', i) PROVE Exists(row', row'[i].run)
    <3>1. CASE i = id
      <4>1. CASE regen
        <5>1. row'[i].run = was /\ Exists(row, was)
          BY <1>4, <1>5, <3>1, <4>1 DEF RegenInv, RunsExist
        <5> QED BY <1>3, <1>4, <1>5, <4>1, <5>1 DEF Exists
      <4>2. CASE ~regen
        BY <1>5, <3>1, <4>2
      <4> QED BY <4>1, <4>2
    <3>2. CASE i # id
      <4>1. Exists(row, i) /\ row'[i].run = row[i].run
        BY <1>5, <2>1, <3>2 DEF Exists
      <4>2. Exists(row, row[i].run) /\ row[i].run \in Id
        BY <1>2, <4>1 DEF RegenInv, RunsExist
      <4> QED BY <1>3, <1>5, <4>1, <4>2 DEF Exists
    <3> QED BY <3>1, <3>2
  <2> QED BY <2>1 DEF RunsExist, Exists
<1>8. Commanded'
  BY <1>3, CommandedStep DEF RegenInv
<1>9. ASSUME NEW r \in Id
      PROVE  CountForRun(row', r) + Cardinality(Asking(r)') <= MaxRows
  <2>1. Asking(r)' = Asking(r) \ {w}
    <3>1. ASSUME NEW v \in Worker PROVE v \in Asking(r)' <=> v \in Asking(r) \ {w}
      <4>1. CASE v = w
        BY <1>3, <4>1 DEF Asking, Asks
      <4>2. CASE v # w
        <5>1. pc'[v] = pc[v] /\ job'[v] = job[v]
          BY <1>6, <4>2
        <5>2. CASE Asks(pc[v], job[v])
          <6>1. row'[job[v].id] = row[job[v].id]
            BY <1>5, <1>6, <5>2, AskingKnown
          <6> QED BY <4>2, <5>1, <6>1 DEF Asking
        <5>3. CASE ~Asks(pc[v], job[v])
          BY <5>1, <5>3 DEF Asking
        <5> QED BY <5>2, <5>3
      <4> QED BY <4>1, <4>2
    <3> QED BY <3>1 DEF Asking
  <2>2. /\ IsFiniteSet(Rows(row, r))
        /\ CountForRun(row, r) = Cardinality(Rows(row, r))
        /\ CountForRun(row', r) = Cardinality(Rows(row', r))
    <3>1. IsFiniteSet(Id)
      BY TableAssumption, FS_Interval DEF Id
    <3> QED BY <3>1, FS_Subset DEF CountForRun
  <2>3. /\ CountForRun(row, r) + Cardinality(Asking(r)) <= MaxRows
        /\ CountForRun(row, r) \in Nat /\ Cardinality(Asking(r)) \in Nat
        /\ MaxRows \in Nat /\ RegenLimit <= MaxRows /\ IsFiniteSet(Asking(r))
    BY Finite DEF RegenInv, RoomForAll
  <2>4. Cardinality(Asking(r)') = IF w \in Asking(r) THEN Cardinality(Asking(r)) - 1
                                                     ELSE Cardinality(Asking(r))
    BY <2>1, <2>3, FS_RemoveElement
  <2>5. CASE r # run
    <3>1. Rows(row', r) = Rows(row, r)
      BY <1>3, <1>5, <2>5 DEF Exists
    <3>2. CountForRun(row', r) = CountForRun(row, r)
      BY <2>2, <3>1
    <3> QED BY <2>3, <2>4, <3>2
  <2>6. CASE r = run
    <3>1. Rows(row', r) = Rows(row, r) \cup {id} /\ id \notin Rows(row, r)
      BY <1>3, <1>5, <2>6 DEF Exists
    <3>2. CountForRun(row', r) = CountForRun(row, r) + 1
      <4> DEFINE before == Rows(row, r)
                 after == Rows(row', r)
      <4>1. IsFiniteSet(before) /\ CountForRun(row, r) = Cardinality(before)
            /\ CountForRun(row', r) = Cardinality(after)
            /\ after = before \cup {id} /\ id \notin before
        BY <2>2, <3>1
      <4> HIDE DEF before, after
      <4>2. Cardinality(before \cup {id}) = Cardinality(before) + 1
        BY <4>1, FS_AddElement
      <4> QED BY <4>1, <4>2
    <3>3. CASE regen
      <4>1. w \in Asking(r)
        BY <1>4, <2>6, <3>3 DEF Asking
      <4> QED BY <2>3, <2>4, <3>2, <4>1
    <3>4. CASE ~regen
      <4>1. Rows(row, r) = {}
        BY <1>3, <2>6, <3>4 DEF RegenInv, RunsExist
      <4>2. Asking(r) = {}
        BY <1>3, <2>6, <3>4, AskingKnown DEF Asking, RegenInv, RunsExist
      <4>3. CountForRun(row, r) = 0 /\ Cardinality(Asking(r)) = 0 /\ w \notin Asking(r)
        BY <2>2, <4>1, <4>2, FS_EmptySet
      <4> QED BY <2>3, <2>4, <3>2, <4>3, RunnerAssumption
    <3> QED BY <3>3, <3>4
  <2> QED BY <2>5, <2>6
<1>10. RoomForAll'
  BY <1>9 DEF RoomForAll, MaxRows, Regenerators
<1> QED BY <1>7, <1>8, <1>10 DEF RegenInv

LEMMA RegenNext == TypeInv /\ RegenInv /\ [Next]_vars => RegenInv'
<1> SUFFICES ASSUME TypeInv, RegenInv, [Next]_vars PROVE RegenInv'
  OBVIOUS
<1>0. TypeInv'
  BY TypingNext
<1>1. ASSUME NEW w \in Worker, ProcessStep(w) \/ Crash(w) PROVE RegenInv'
  <2>1. OwnStep(w)
    BY <1>1, Own
  <2>2. CASE Crash(w)
    <3>1. SameRuns
      BY <2>2 DEF Crash, SameRuns
    <3>2. pc[w] # "idle" /\ Step(w, pc[w], "idle")
      BY <2>2, RunnerAssumption DEF Crash, Exit
    <3>3. Steady(w)
      BY <3>1, <3>2, SteadyStep
    <3> QED BY <1>0, <2>1, <3>3, SteadyInv
  <2>3. CASE Count(w)
    BY <1>0, <2>1, <2>3, CountInv
  <2>4. CASE Insert(w)
    BY <1>0, <2>1, <2>4, InsertInv
  <2>5. CASE ProcessStep(w) /\ ~Count(w) /\ ~Insert(w)
    <3>1. Steady(w)
      BY <2>5, SteadyDeciding, SteadyHealing, SteadyPatching, SteadyCollecting
         DEF ProcessStep
    <3> QED BY <1>0, <2>1, <3>1, SteadyInv
  <2> QED BY <1>1, <2>2, <2>3, <2>4, <2>5
<1>2. CASE ClearStaleLock \/ Tick \/ UNCHANGED vars
  <2>1. row' = row /\ pc' = pc /\ job' = job
    BY <1>2 DEF ClearStaleLock, Tick, vars
  <2>2. RunsExist' /\ Commanded'
    BY <2>1 DEF RegenInv, RunsExist, Commanded, Regenerators, Exists
  <2>3. RoomForAll'
    BY <2>1, SteadyRoom DEF SameRuns, Asking
  <2> QED BY <2>2, <2>3 DEF RegenInv
<1> QED BY <1>1, <1>2 DEF Next

LEMMA RegenInvBounded == TypeInv /\ RegenInv => RegenerationBounded
<1> SUFFICES ASSUME TypeInv, RegenInv, NEW id \in Id, Exists(row, id)
             PROVE  CountForRun(row, row[id].run) <= MaxRows
  BY DEF RegenerationBounded, MaxRows
<1>1. row[id].run \in Id
  BY DEF TypeInv, DataOK
<1>2. CountForRun(row, row[id].run) + Cardinality(Asking(row[id].run)) <= MaxRows
  BY <1>1 DEF RegenInv, RoomForAll
<1> QED BY <1>2, Finite

\* However many processes regenerate at the same time, a run never has more
\* candidates than the limit and one for each of them but one: each of them
\* that has passed count_for_run holds a place until it inserts.
THEOREM RegenerationIsBounded == Spec => []RegenerationBounded
<1>1. Spec => []RegenInv
  BY RegenInit, RegenNext, TypeInvariant, PTL DEF Spec
<1> QED BY <1>1, RegenInvBounded, TypeInvariant, PTL

-----------------------------------------------------------------------------
(* The samples.  What was measured from the creation of a row is measured  *)
(* from its expires, which is Expiry later.                                *)

\* Time passes only between processes, so the sample of a process is of now;
\* one that is about to insert its request has one, unless it was squeezed out.
OwnSamples == \A w \in Worker :
    /\ snapshot[w] \in {now, Gone, Squeezed}
    /\ snapshot[w] # Gone => pc[w] \in HealPC /\ job[w].kind # "regenerate"
    /\ pc[w] = "insert" /\ job[w].kind # "regenerate" => snapshot[w] # Gone

Aged(id) == now - (row[id].expires - Expiry) > SnapshotDays

\* The sample of a run is as old as its first request, and was removed only
\* for its age or its size.
RunSamples == \A id \in Id :
    /\ Exists(row, id) /\ row[id].run = id =>
         \/ snapshot[id] \in Time /\ snapshot[id] = row[id].expires - Expiry
         \/ snapshot[id] = Squeezed
         \/ snapshot[id] = Gone /\ Aged(id)
    /\ snapshot[id] # Gone => row[id].run = id

\* The first request of a run is the first request of its run.
FirstRuns == \A id \in Id :
    IF Exists(row, id) THEN row[row[id].run].run = row[id].run ELSE row[id].run = 0

SampleInv ==
    /\ snapshot \in [Owner -> Time \cup {Gone, Squeezed}]
    /\ OwnSamples
    /\ RunSamples
    /\ FirstRuns

LEMMA Times ==
    ASSUME TypeInv
    PROVE  /\ now \in Time /\ now \in Int /\ Gone \notin Time /\ Squeezed \notin Time
           /\ Gone # Squeezed /\ Expiry \in Nat /\ SnapshotDays \in Nat
           /\ \A id \in Id : row[id].expires \in Nat
BY TableAssumption, EvidenceAssumption DEF TypeInv, DataOK, Time, Gone, Squeezed, Row

LEMMA SampleInit == EInit => SampleInv
<1> SUFFICES ASSUME EInit PROVE SampleInv
  OBVIOUS
<1>1. /\ \A id \in Id : ~Exists(row, id) /\ row[id].run = 0
      /\ \A w \in Worker : pc[w] = "idle"
      /\ \A o \in Owner : snapshot[o] = Gone
      /\ snapshot \in [Owner -> Time \cup {Gone, Squeezed}]
  BY DEF EInit, Init, NoRow, Exists
<1> QED BY <1>1 DEF SampleInv, OwnSamples, RunSamples, FirstRuns, Owner

\* What a step of one process that inserts no request may do to the samples:
\* remove some that are too old, or the biggest, and give the process one.
Thinned(o) ==
    \/ snapshot'[o] = snapshot[o]
    \/ snapshot[o] \in Time /\ snapshot'[o] = Squeezed
    \/ snapshot[o] \in Time /\ snapshot'[o] = Gone /\ TooOld(o)

OwnKept(w) ==
    /\ snapshot'[w] \in {now, Gone, Squeezed}
    /\ snapshot'[w] # Gone => pc'[w] \in HealPC /\ job'[w].kind # "regenerate"
    /\ pc'[w] = "insert" /\ job'[w].kind # "regenerate" => snapshot'[w] # Gone

LEMMA SampleKept ==
    ASSUME TypeInv, TypeInv', SampleInv, NEW w \in Worker, OwnStep(w), SameRuns, now' = now,
           snapshot' \in [Owner -> Time \cup {Gone, Squeezed}],
           \A o \in Owner \ {w} : Thinned(o), OwnKept(w)
    PROVE  SampleInv'
<1>1. \A v \in Worker : v \in Owner /\ v \notin Id
  BY EvidenceAssumption DEF Owner
<1>2. \A id \in Id : id \in Owner \ {w}
  BY <1>1 DEF Owner
<1>3. OwnSamples'
  <2>1. ASSUME NEW v \in Worker, v # w
        PROVE  /\ snapshot'[v] \in {now, Gone, Squeezed}
               /\ snapshot'[v] # Gone => pc'[v] \in HealPC /\ job'[v].kind # "regenerate"
               /\ pc'[v] = "insert" /\ job'[v].kind # "regenerate" => snapshot'[v] # Gone
    <3>1. Thinned(v) /\ pc'[v] = pc[v] /\ job'[v] = job[v]
      BY <1>1, <2>1 DEF OwnStep
    <3>2. /\ snapshot[v] \in {now, Gone, Squeezed}
          /\ snapshot[v] # Gone => pc[v] \in HealPC /\ job[v].kind # "regenerate"
          /\ pc[v] = "insert" /\ job[v].kind # "regenerate" => snapshot[v] # Gone
      BY DEF SampleInv, OwnSamples
    <3>3. ~(snapshot[v] \in Time /\ TooOld(v))
      BY <3>2, Times DEF TooOld
    <3> QED BY <3>1, <3>2, <3>3, Times DEF Thinned
  <2> QED BY <2>1 DEF OwnSamples, OwnKept
<1>4. RunSamples'
  <2>1. ASSUME NEW id \in Id
        PROVE  /\ Exists(row, id) /\ row[id].run = id =>
                    \/ snapshot'[id] \in Time /\ snapshot'[id] = row[id].expires - Expiry
                    \/ snapshot'[id] = Squeezed
                    \/ snapshot'[id] = Gone /\ Aged(id)
               /\ snapshot'[id] # Gone => row[id].run = id
    <3>1. /\ Exists(row, id) /\ row[id].run = id =>
               \/ snapshot[id] \in Time /\ snapshot[id] = row[id].expires - Expiry
               \/ snapshot[id] = Squeezed
               \/ snapshot[id] = Gone /\ Aged(id)
          /\ snapshot[id] # Gone => row[id].run = id
      BY DEF SampleInv, RunSamples
    <3>2. Thinned(id)
      BY <1>2
    <3> QED BY <3>1, <3>2, Times DEF Thinned, TooOld, Aged
  <2>2. \A id \in Id : Aged(id)' <=> Aged(id)
    BY DEF Aged, SameRuns
  <2> QED BY <2>1, <2>2 DEF RunSamples, SameRuns
<1>5. FirstRuns'
  BY DEF SampleInv, FirstRuns, SameRuns, TypeInv, DataOK
<1> QED BY <1>3, <1>4, <1>5 DEF SampleInv

LEMMA CleanupThins ==
    ASSUME SampleInv, Cleanup
    PROVE  /\ \A o \in Owner : Thinned(o)
           /\ snapshot' \in [Owner -> Time \cup {Gone, Squeezed}]
<1> DEFINE old == {o \in Stored : TooOld(o)}
<1>1. PICK big \in SUBSET (Stored \ old) :
        snapshot' = [o \in Owner |-> CASE o \in old -> Gone
                                       [] o \in big -> Squeezed
                                       [] OTHER -> snapshot[o]]
  BY DEF Cleanup
<1>2. ASSUME NEW o \in Owner
      PROVE  Thinned(o) /\ snapshot'[o] \in Time \cup {Gone, Squeezed}
  <2>1. CASE o \in old
    BY <1>1, <2>1 DEF Thinned, Stored
  <2>2. CASE o \notin old /\ o \in big
    BY <1>1, <2>2 DEF Thinned, Stored
  <2>3. CASE o \notin old /\ o \notin big
    <3>1. snapshot'[o] = snapshot[o]
      BY <1>1, <2>3
    <3> QED BY <3>1 DEF Thinned, SampleInv
  <2> QED BY <2>1, <2>2, <2>3
<1> HIDE DEF old
<1> QED BY <1>1, <1>2
\* A step of a process that gives its own sample away leaves the others alone.
LEMMA LeaveThins ==
    ASSUME SampleInv, NEW w \in Worker, NEW x \in Time \cup {Gone, Squeezed},
           snapshot' = [snapshot EXCEPT ![w] = x]
    PROVE  /\ \A o \in Owner \ {w} : Thinned(o)
           /\ snapshot' \in [Owner -> Time \cup {Gone, Squeezed}]
           /\ snapshot'[w] = x
BY DEF SampleInv, Thinned, Owner

LEMMA SteadySamples ==
    ASSUME TypeInv, TypeInv', SampleInv, NEW w \in Worker, OwnStep(w), SameRuns,
           FromLlm(w), now' = now, pc[w] # "insert", SampleStep(w)
    PROVE  SampleInv'
<1> DEFINE sweeps == pc[w] \in {"sweep", "sweep_audit"} /\ pc'[w] = "next_site"
           fails == pc'[w] = "heal_history"
           leaves == pc[w] \in HealPC /\ pc'[w] \notin HealPC /\ job[w].kind # "regenerate"
<1>0. /\ now \in Time /\ Gone \in {now, Gone, Squeezed} /\ w \in Owner
      /\ snapshot \in [Owner -> Time \cup {Gone, Squeezed}]
      /\ snapshot[w] \in {now, Gone, Squeezed}
      /\ snapshot[w] # Gone => pc[w] \in HealPC /\ job[w].kind # "regenerate"
  BY Times DEF SampleInv, OwnSamples, Owner
<1>1. CASE sweeps
  <2>1. Cleanup
    BY <1>1 DEF SampleStep, HealPC
  <2>2. snapshot[w] = Gone /\ pc'[w] \notin HealPC /\ pc'[w] # "insert"
    BY <1>0, <1>1 DEF HealPC
  <2>3. snapshot'[w] = Gone
    BY <1>0, <2>1, <2>2, CleanupThins, Times DEF Thinned
  <2>4. OwnKept(w)
    BY <2>2, <2>3 DEF OwnKept
  <2> QED BY <2>1, <2>4, CleanupThins, SampleKept
<1>2. CASE ~sweeps /\ fails
  <2>2. PICK x \in {now, Gone} : snapshot' = [snapshot EXCEPT ![w] = x]
    BY <1>2 DEF SampleStep, Sample, HealPC
  <2>3. job'[w].kind # "regenerate"
    BY <1>2 DEF TypeInv, JobsOK, ShapeAt, HealGuardPC
  <2>4. x \in Time \cup {Gone, Squeezed}
    BY <1>0
  <2>5. snapshot'[w] = x /\ (\A o \in Owner \ {w} : Thinned(o))
        /\ snapshot' \in [Owner -> Time \cup {Gone, Squeezed}]
    BY <2>2, <2>4, LeaveThins
  <2>6. OwnKept(w)
    BY <1>2, <2>3, <2>5 DEF OwnKept, HealPC
  <2> QED BY <2>5, <2>6, SampleKept
<1>3. CASE ~sweeps /\ ~fails /\ leaves
  <2>1. snapshot' = [snapshot EXCEPT ![w] = Gone]
    BY <1>3 DEF SampleStep, Leave, HealPC
  <2>2. snapshot'[w] = Gone /\ (\A o \in Owner \ {w} : Thinned(o))
        /\ snapshot' \in [Owner -> Time \cup {Gone, Squeezed}]
    BY <2>1, LeaveThins
  <2>3. OwnKept(w)
    BY <1>3, <2>2 DEF OwnKept, HealPC
  <2> QED BY <2>2, <2>3, SampleKept
<1>4. CASE ~sweeps /\ ~fails /\ ~leaves
  <2>1. snapshot' = snapshot /\ SampleGiven(w)
    BY <1>4 DEF SampleStep
  <2>2. snapshot[w] # Gone => pc'[w] \in HealPC /\ job'[w].kind # "regenerate"
    BY <1>0, <1>4 DEF OwnStep, HealPC
  <2>3. ASSUME pc'[w] = "insert", job'[w].kind # "regenerate" PROVE snapshot[w] # Gone
    <3>1. pc[w] = "heal_llm" \/ pc[w] = "llm"
      BY <2>3 DEF FromLlm
    <3>2. job[w].kind = job'[w].kind
      BY <2>3, <3>1 DEF OwnStep
    <3>3. pc[w] = "heal_llm"
      BY <2>3, <3>1, <3>2 DEF TypeInv, JobsOK, ShapeAt
    <3> QED BY <2>1, <2>3, <3>3, Times DEF SampleGiven, Stored
  <2>4. OwnKept(w) /\ \A o \in Owner : Thinned(o)
    BY <1>0, <2>1, <2>2, <2>3 DEF OwnKept, Thinned
  <2> QED BY <1>0, <2>1, <2>4, SampleKept
<1> QED BY <1>1, <1>2, <1>3, <1>4

\* The request a process inserts takes over its sample; a regenerated one
\* shares that of its run.
LEMMA InsertSamples ==
    ASSUME TypeInv, TypeInv', RegenInv, SampleInv, NEW w \in Worker, OwnStep(w), Insert(w),
           SampleStep(w)
    PROVE  SampleInv'
<1> DEFINE regen == job[w].kind = "regenerate"
           was == row[job[w].id].run
           Types == Time \cup {Gone, Squeezed}
<1>1. PICK id \in Id :
        /\ IsNextId(row, id)
        /\ Step(w, "insert", "audit_created")
        /\ row' = Inserted(row, id, job[w].site, IF regen THEN was ELSE id, now)
        /\ job' = [job EXCEPT ![w].new = id]
        /\ now' = now
  BY DEF Insert, world
<1> DEFINE run == IF regen THEN was ELSE id
<1>2. /\ pc \in [Worker -> PC] /\ job \in [Worker -> Job] /\ row \in [Id -> Row]
      /\ \A i \in Id : Exists(row, i) => row[i].run \in Id
      /\ snapshot \in [Owner -> Types] /\ w \in Owner /\ id \in Owner /\ w \notin Id
      /\ now \in Time /\ now \in Int /\ Expiry \in Nat
  BY EvidenceAssumption, Times DEF TypeInv, JobsOK, DataOK, SampleInv, Owner
<1>3. pc[w] = "insert" /\ pc'[w] = "audit_created" /\ ~Exists(row, id) /\ job'[w].new = id
      /\ row[id].run = 0 /\ 0 \notin Id
  BY <1>1, <1>2 DEF Step, IsNextId, SampleInv, FirstRuns, Job, Id
<1>4. regen => Exists(row, job[w].id) /\ job[w].id \in Id /\ was \in Id
               /\ Exists(row, was) /\ row[was].run = was
  BY <1>3, AskingKnown DEF Asks, RegenInv, RunsExist, SampleInv, FirstRuns
<1>5. /\ row'[id].run = run /\ Exists(row', id) /\ row'[id].expires = now + Expiry
      /\ \A i \in Id \ {id} : row'[i] = row[i]
  <2>1. row' = [row EXCEPT ![id] = [NoRow EXCEPT !.status = "pending", !.site = job[w].site,
                                                 !.run = run, !.expires = now + Expiry]]
    BY <1>1 DEF Inserted
  <2>2. row'[id] = [NoRow EXCEPT !.status = "pending", !.site = job[w].site,
                                 !.run = run, !.expires = now + Expiry]
    BY <1>2, <2>1
  <2>3. row'[id].run = run /\ row'[id].status = "pending" /\ row'[id].expires = now + Expiry
    BY <2>2 DEF NoRow
  <2> QED BY <1>2, <2>1, <2>3 DEF Exists
<1>6. snapshot[id] = Gone
  BY <1>3 DEF SampleInv, RunSamples
<1>7. /\ snapshot[w] \in {now, Gone, Squeezed}
      /\ regen => snapshot[w] = Gone
      /\ ~regen => snapshot[w] \in {now, Squeezed}
  BY <1>3 DEF SampleInv, OwnSamples
<1>8. snapshot' = IF regen THEN snapshot
                  ELSE [snapshot EXCEPT ![id] = snapshot[w], ![w] = Gone]
  <2>1. CASE regen
    BY <1>3, <2>1 DEF SampleStep, HealPC
  <2>2. CASE ~regen
    BY <1>3, <2>2 DEF SampleStep, Claim, HealPC
  <2> QED BY <2>1, <2>2
<1>9. /\ snapshot' \in [Owner -> Types]
      /\ snapshot'[w] = Gone
      /\ snapshot'[id] = IF regen THEN Gone ELSE snapshot[w]
      /\ \A o \in Owner \ {w, id} : snapshot'[o] = snapshot[o]
  BY <1>2, <1>6, <1>7, <1>8
<1>10. OwnSamples'
  <2>1. ASSUME NEW v \in Worker, v # w
        PROVE  /\ snapshot'[v] \in {now, Gone, Squeezed}
               /\ snapshot'[v] # Gone => pc'[v] \in HealPC /\ job'[v].kind # "regenerate"
               /\ pc'[v] = "insert" /\ job'[v].kind # "regenerate" => snapshot'[v] # Gone
    <3>1. v \in Owner \ {w, id}
      BY <2>1, EvidenceAssumption DEF Owner
    <3> QED BY <1>9, <2>1, <3>1 DEF SampleInv, OwnSamples, OwnStep
  <2> QED BY <1>1, <1>3, <1>9, <2>1 DEF OwnSamples
<1>11. RunSamples'
  <2>1. ASSUME NEW i \in Id
        PROVE  /\ Exists(row', i) /\ row'[i].run = i =>
                    \/ snapshot'[i] \in Time /\ snapshot'[i] = row'[i].expires - Expiry
                    \/ snapshot'[i] = Squeezed
                    \/ snapshot'[i] = Gone /\ Aged(i)'
               /\ snapshot'[i] # Gone => row'[i].run = i
    <3>1. CASE i = id
      <4>1. CASE regen
        BY <1>3, <1>4, <1>5, <1>9, <3>1, <4>1
      <4>2. CASE ~regen
        BY <1>2, <1>5, <1>7, <1>9, <3>1, <4>2
      <4> QED BY <4>1, <4>2
    <3>2. CASE i # id
      <4>1. row'[i] = row[i] /\ snapshot'[i] = snapshot[i]
        BY <1>2, <1>5, <1>9, <3>2 DEF Owner
      <4> QED BY <1>1, <4>1 DEF SampleInv, RunSamples, Aged, Exists
    <3> QED BY <3>1, <3>2
  <2> QED BY <2>1 DEF RunSamples
<1>12. FirstRuns'
  <2>1. ASSUME NEW i \in Id
        PROVE  IF Exists(row', i) THEN row'[row'[i].run].run = row'[i].run
                                  ELSE row'[i].run = 0
    <3>1. CASE i = id
      BY <1>3, <1>4, <1>5, <3>1
    <3>2. CASE i # id
      <4>1. row'[i] = row[i]
        BY <1>5, <3>2
      <4>2. Exists(row, i) => row[i].run # id /\ row[i].run \in Id
        BY <1>2, <1>3 DEF RegenInv, RunsExist
      <4> QED BY <1>5, <4>1, <4>2 DEF SampleInv, FirstRuns, Exists
    <3> QED BY <3>1, <3>2
  <2> QED BY <2>1 DEF FirstRuns, Exists
<1> QED BY <1>9, <1>10, <1>11, <1>12 DEF SampleInv

\* Only create_approval stands at "insert", and nothing sets the clock.
LEMMA StepsKeepTime ==
    ASSUME NEW w \in Worker, ProcessStep(w)
    PROVE  now' = now /\ (pc[w] = "insert" => Insert(w))
<1>1. CASE DecidingStep(w)
  BY <1>1 DEF DecidingStep, Begin, Get, GetRefused, Recheck, RecheckRefused, Decide, DecideLost,
              AuditDecided, Exit, Step, world
<1>2. CASE HealingStep(w)
  BY <1>2 DEF HealingStep, HealHistory, HealPending, HealRejected, HealLlm, Count, Llm, Insert,
              AuditCreated, Post, Attach, HealGuard, HealSkip, CardDone, Exit, Step, world
<1>3. CASE PatchingStep(w)
  BY <1>3 DEF PatchingStep, ReadConfig, AuditApplyFailed, BackupConfig, TruncateConfig,
              WriteConfig, AuditApplied, LoadConfigs, Rerun, RunSite, Report, Rollback,
              AuditRolledBack, Exit, Step, world
<1>4. CASE CollectingStep(w)
  BY <1>4 DEF CollectingStep, Collect, Acquire, AcquireRefused, SweepSelect, SweepUpdate,
              SweepAudit, CollectSite, RunSite, Release, Exit, Step, world
<1> QED BY <1>1, <1>2, <1>3, <1>4 DEF ProcessStep

\* A tick finds no process with a sample.
LEMMA TickSamples ==
    ASSUME TypeInv, TypeInv', SampleInv, Quiet, Tick, snapshot' = snapshot
    PROVE  SampleInv'
<1>1. now' = now + 1 /\ UNCHANGED <<row, pc, job>>
  BY DEF Tick
<1>2. ASSUME NEW w \in Worker PROVE snapshot[w] = Gone /\ pc[w] = "idle"
  BY DEF Quiet, SampleInv, OwnSamples, HealPC
<1>3. OwnSamples'
  BY <1>1, <1>2 DEF OwnSamples
<1>4. \A id \in Id : Aged(id) => Aged(id)'
  BY <1>1, Times DEF Aged
<1>5. RunSamples'
  BY <1>1, <1>4 DEF SampleInv, RunSamples, Exists
<1>6. FirstRuns'
  BY <1>1 DEF SampleInv, FirstRuns, Exists
<1> QED BY <1>3, <1>5, <1>6 DEF SampleInv

LEMMA SampleNext ==
    TypeInv /\ RegenInv /\ SampleInv /\ [ENext]_evars => SampleInv'
<1> SUFFICES ASSUME TypeInv, RegenInv, SampleInv, [ENext]_evars PROVE SampleInv'
  OBVIOUS
<1>0. TypeInv'
  <2>1. [Next]_vars
    BY DEF ENext, Between, Next, evars
  <2> QED BY <2>1, TypingNext
<1>1. ASSUME NEW w \in Worker, ProcessStep(w), SampleStep(w) PROVE SampleInv'
  <2>1. OwnStep(w) /\ now' = now
    BY <1>1, Own, StepsKeepTime
  <2>2. CASE Insert(w)
    BY <1>0, <1>1, <2>1, <2>2, InsertSamples
  <2>3. CASE ~Insert(w)
    <3>1. pc[w] # "insert"
      BY <1>1, <2>3, StepsKeepTime
    <3>2. CASE Count(w)
      <4>1. row' = row /\ pc'[w] # "insert"
        BY <3>2 DEF Count, HealGuard, Exit, Step, TypeInv, JobsOK
      <4>2. SameRuns /\ FromLlm(w)
        BY <4>1 DEF SameRuns, FromLlm
      <4> QED BY <1>0, <1>1, <2>1, <3>1, <4>2, SteadySamples
    <3>3. CASE ~Count(w)
      <4>1. Steady(w)
        BY <1>1, <2>3, <3>3, SteadyDeciding, SteadyHealing, SteadyPatching, SteadyCollecting
           DEF ProcessStep
      <4>2. SameRuns /\ FromLlm(w)
        BY <4>1 DEF Steady
      <4> QED BY <1>0, <1>1, <2>1, <3>1, <4>2, SteadySamples
    <3> QED BY <3>2, <3>3
  <2> QED BY <2>2, <2>3
<1>2. ASSUME NEW w \in Worker, Crash(w), Leave(w) PROVE SampleInv'
  <2>1. OwnStep(w) /\ SameRuns /\ now' = now
    BY <1>2, Own DEF Crash, SameRuns
  <2>2. pc'[w] = "idle"
    BY <1>2 DEF Crash, Exit, Step, TypeInv, JobsOK
  <2>3. /\ \A o \in Owner \ {w} : Thinned(o)
        /\ snapshot' \in [Owner -> Time \cup {Gone, Squeezed}] /\ snapshot'[w] = Gone
    BY <1>2, LeaveThins DEF Leave
  <2>4. OwnKept(w)
    BY <2>2, <2>3 DEF OwnKept
  <2> QED BY <1>0, <2>1, <2>3, <2>4, SampleKept
<1>3. CASE Quiet /\ Tick /\ UNCHANGED snapshot
  BY <1>0, <1>3, TickSamples
<1>4. CASE (ClearStaleLock /\ UNCHANGED snapshot) \/ UNCHANGED evars
  <2>1. UNCHANGED <<row, now, pc, job, snapshot>>
    BY <1>4 DEF ClearStaleLock, evars, vars
  <2> QED BY <2>1 DEF SampleInv, OwnSamples, RunSamples, FirstRuns, Aged, Exists
<1> QED BY <1>1, <1>2, <1>3, <1>4 DEF ENext, Between

\* The samples on disk only rule steps out: with them the runner does nothing
\* it could not do before.
THEOREM EvidenceRefinesRunner == ESpec => Spec
<1>1. EInit => Init
  BY DEF EInit
<1>2. [ENext]_evars => [Next]_vars
  BY DEF ENext, Between, Next, evars
<1> QED BY <1>1, <1>2, PTL DEF ESpec, Spec

\* The bound holds of the runner with its samples too.
THEOREM SampledRunsBounded == ESpec => []RegenerationBounded
BY EvidenceRefinesRunner, RegenerationIsBounded, PTL

LEMMA SampleInvariant == ESpec => [](TypeInv /\ RegenInv /\ SampleInv)
<1>1. EInit => TypeInv /\ RegenInv /\ SampleInv
  BY TypingInit, RegenInit, SampleInit DEF EInit
<1>2. TypeInv /\ RegenInv /\ SampleInv /\ [ENext]_evars
        => (TypeInv /\ RegenInv /\ SampleInv)'
  <2>1. [ENext]_evars => [Next]_vars
    BY DEF ENext, Between, Next, evars
  <2> QED BY <2>1, TypingNext, RegenNext, SampleNext
<1> QED BY <1>1, <1>2, PTL DEF ESpec

\* A sample is stored for a process only while it heals, and for a request only
\* when it is the first of its run.
THEOREM SampleTyping == ESpec => []ETypeOK
<1>1. SampleInv => ETypeOK
  BY DEF SampleInv, ETypeOK, OwnSamples, RunSamples
<1> QED BY <1>1, SampleInvariant, PTL

\* Retention and expiry fit together: as long as a request can be regenerated
\* and was created in time, only the size limit has removed the sample of its
\* run.  The sample is as old as the first request of the run, and when it gets
\* too old, the last request that could follow from it has expired.
THEOREM SamplesOutlive == ESpec => []SampleOutlives
<1>1. TypeInv /\ RegenInv /\ SampleInv => SampleOutlives
  <2> SUFFICES ASSUME TypeInv, RegenInv, SampleInv, NEW id \in Pending(row),
                      now < row[id].expires,
                      row[id].expires
                        <= row[row[id].run].expires + (RegenLimit - 1) * Expiry
               PROVE  row[id].run \in Stored \/ snapshot[row[id].run] = Squeezed
    BY DEF SampleOutlives
  <2> DEFINE first == row[id].run
  <2>1. id \in Id /\ Exists(row, id) /\ first \in Id
    BY DEF Pending, Exists, TypeInv, DataOK
  <2>2. Exists(row, first) /\ row[first].run = first /\ first \in Owner
    BY <2>1 DEF RegenInv, RunsExist, SampleInv, FirstRuns, Owner
  <2>3. \/ snapshot[first] \in Time \cup {Squeezed}
        \/ Aged(first)
    BY <2>1, <2>2 DEF SampleInv, RunSamples
  <2>4. ~Aged(first)
    <3>1. /\ now \in Int /\ Expiry \in Int /\ RegenLimit \in Int /\ SnapshotDays \in Int
          /\ row[id].expires \in Int /\ row[first].expires \in Int
      BY <2>1, Times, RunnerAssumption
    <3>2. (RegenLimit - 1) * Expiry = RegenLimit * Expiry - Expiry
      BY <3>1
    <3>3. RegenLimit * Expiry \in Int /\ RegenLimit * Expiry <= SnapshotDays + 1
      BY <3>1, EvidenceAssumption
    <3> HIDE DEF first
    <3>4. now < row[id].expires /\ row[id].expires
                                     <= row[first].expires + (RegenLimit * Expiry - Expiry)
      BY <3>2 DEF first
    <3> DEFINE e == row[first].expires
               product == RegenLimit * Expiry
    <3>5. now - (e - Expiry) <= SnapshotDays
      <4> HIDE DEF e, product
      <4>1. product \in Int /\ product <= SnapshotDays + 1
        BY <3>3 DEF product
      <4>2. now < row[id].expires /\ row[id].expires <= e + (product - Expiry) /\ e \in Int
        BY <3>1, <3>4 DEF product, e
      <4> QED BY <3>1, <4>1, <4>2
    <3> QED BY <3>1, <3>5 DEF Aged
  <2> QED BY <2>2, <2>3, <2>4 DEF Stored
<1> QED BY <1>1, SampleInvariant, PTL
=============================================================================
