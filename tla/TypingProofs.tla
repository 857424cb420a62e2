---------------------------- MODULE TypingProofs ----------------------------
(***************************************************************************)
(* Type correctness of the runner, for any number of processes, requests   *)
(* and sites and any schedule, kills included.                             *)
(***************************************************************************)
EXTENDS Runner, TLAPS

-----------------------------------------------------------------------------
(* Types.  TypeOK is not inductive: a statement writes well-typed values   *)
(* only because of the program point it stands at.                         *)

HealGuardPC == {"heal_history", "heal_pending", "heal_rejected", "heal_llm"}

\* What a process holds at each program point.
ShapeAt(p, j) ==
    /\ p \in DecidePC => j.kind \in {"approve", "reject", "regenerate"}
    /\ p \in ApplyPC => j.kind = "approve"
    /\ p \in CollectPC => j.kind = "collect"
    /\ p \in {"count", "llm"} => j.kind = "regenerate"
    /\ p \in HealPC => j.kind \in {"approve", "regenerate", "collect"}
    /\ p \in HealGuardPC => j.kind \in {"approve", "collect"}
    /\ j.kind \in {"approve", "reject", "regenerate"} => j.id \in Id
    /\ p \in (HealPC \cup ApplyPC \cup DecidePC) \ {"get"} => j.site \in Site
    /\ p \in {"audit_created", "post", "attach"} => j.new \in Id

JobsOK ==
    /\ pc \in [Worker -> PC]
    /\ job \in [Worker -> Job]
    /\ \A w \in Worker : ShapeAt(pc[w], job[w])

\* Everything the processes share; a request that exists has a site and a run.
DataOK ==
    /\ row \in [Id -> Row]
    /\ audit \subseteq Event \X Id
    /\ yaml \in [Site -> Content]
    /\ backup \in [Site -> [Time -> Content]]
    /\ hist \in [Site -> BOOLEAN]
    /\ lock \in BOOLEAN
    /\ now \in Time
    /\ crashes \in 0..MaxCrash
    /\ applied \in [Id -> Nat]
    /\ outcome \in [Id -> {"none", "kept", "rolled_back", "apply_failed"}]
    /\ \A id \in Id : Exists(row, id) => row[id].site \in Site /\ row[id].run \in Id

\* The requests a process keeps for later exist: those its sweep selected, the
\* one it was asked about, once it has seen it, and the one it has inserted.
KeepsAt(p, j, id) ==
    \/ id \in j.due
    \/ id = j.id /\ p \in {"count", "llm", "insert"} /\ j.kind = "regenerate"
    \/ id = j.new

KeptOK == \A w \in Worker, id \in Id : KeepsAt(pc[w], job[w], id) => Exists(row, id)

TypeInv == JobsOK /\ DataOK /\ KeptOK

LEMMA TypeInvOK == TypeInv => TypeOK
BY DEF TypeInv, JobsOK, DataOK, TypeOK

LEMMA NoJobOK == NoJob \in Job /\ ShapeAt("idle", NoJob) /\ "idle" \in PC
BY TableAssumption
   DEF NoJob, Job, Time, PC, ShapeAt, DecidePC, ApplyPC, CollectPC, HealPC,
       HealGuardPC

LEMMA TypingInit == Init => TypeInv
<1> SUFFICES ASSUME Init PROVE TypeInv
  OBVIOUS
<1>1. NoRow \in Row /\ 0 \in Time /\ {} \in Content
  BY TableAssumption DEF NoRow, Row, Status, Time, Content
<1>2. JobsOK
  BY NoJobOK DEF Init, JobsOK
<1>3. backup \in [Site -> [Time -> Content]] /\ yaml \in [Site -> Content]
  BY <1>1 DEF Init
<1>4. row \in [Id -> Row] /\ \A id \in Id : ~Exists(row, id)
  BY <1>1 DEF Init, Exists, NoRow
<1>5. hist \in [Site -> BOOLEAN] /\ lock \in BOOLEAN /\ now \in Time
  BY <1>1 DEF Init
<1>5a. crashes \in 0..MaxCrash
  BY RunnerAssumption DEF Init
<1>6. audit \subseteq Event \X Id /\ applied \in [Id -> Nat]
      /\ outcome \in [Id -> {"none", "kept", "rolled_back", "apply_failed"}]
  BY DEF Init
<1>7. DataOK
  BY <1>3, <1>4, <1>5, <1>5a, <1>6 DEF DataOK
<1>8. KeptOK
  BY DEF Init, KeptOK, KeepsAt, NoJob, Id
<1> QED BY <1>2, <1>7, <1>8 DEF TypeInv

-----------------------------------------------------------------------------
(* The statements of the table keep it well-typed and lose no request.     *)

RowsKept(t, u) ==
    /\ u \in [Id -> Row]
    /\ \A id \in Id : Exists(t, id) => Exists(u, id)
    /\ \A id \in Id : Exists(u, id) => u[id].site \in Site /\ u[id].run \in Id

LEMMA RowReplaced ==
    ASSUME DataOK, NEW id \in Id, NEW r \in Row, r.status # "none",
           r.site \in Site, r.run \in Id
    PROVE  RowsKept(row, [row EXCEPT ![id] = r])
<1>1. row \in [Id -> Row]
      /\ \A i \in Id : Exists(row, i) => row[i].site \in Site /\ row[i].run \in Id
  BY DEF DataOK
<1> QED BY <1>1 DEF RowsKept, Exists

LEMMA UpdateStatusKeeps ==
    ASSUME DataOK, NEW id \in Id, NEW st \in Status \ {"none"}, NEW t \in Time
    PROVE  RowsKept(row, UpdateStatus(row, id, st, t))
<1> DEFINE r == [row[id] EXCEPT !.status = st, !.decided = t]
<1>1. row \in [Id -> Row] /\ row[id] \in Row
      /\ \A i \in Id : Exists(row, i) => row[i].site \in Site /\ row[i].run \in Id
  BY DEF DataOK
<1>2. CASE Matches(row, id)
  <2>1. r \in Row /\ r.status # "none" /\ r.site = row[id].site /\ r.run = row[id].run
    BY <1>1 DEF Row
  <2>2. Exists(row, id)
    BY <1>2 DEF Matches, Pending, Exists
  <2>3. UpdateStatus(row, id, st, t) = [row EXCEPT ![id] = r]
    BY <1>1, <1>2 DEF UpdateStatus
  <2> HIDE DEF r
  <2> QED BY <1>1, <2>1, <2>2, <2>3, RowReplaced
<1>3. CASE ~Matches(row, id)
  BY <1>1, <1>3 DEF UpdateStatus, RowsKept
<1> QED BY <1>2, <1>3

LEMMA ExpireKeeps ==
    ASSUME DataOK, NEW S \in SUBSET Id, \A id \in S : Exists(row, id), NEW t \in Time
    PROVE  RowsKept(row, Expire(row, S, t))
<1> DEFINE u == Expire(row, S, t)
<1>1. row \in [Id -> Row]
      /\ \A i \in Id : Exists(row, i) => row[i].site \in Site /\ row[i].run \in Id
  BY DEF DataOK
<1>2. ASSUME NEW i \in Id
      PROVE  /\ u[i] \in Row /\ u[i].site = row[i].site /\ u[i].run = row[i].run
             /\ Exists(row, i) <=> Exists(u, i)
  <2>1. row[i] \in Row
    BY <1>1
  <2> QED BY <2>1 DEF Expire, Row, Status, Exists
<1>3. u \in [Id -> Row]
  BY <1>2 DEF Expire
<1> HIDE DEF u
<1>4. RowsKept(row, u)
  BY <1>1, <1>2, <1>3 DEF RowsKept
<1> QED BY <1>4 DEF u

LEMMA InsertedKeeps ==
    ASSUME DataOK, NEW id \in Id, NEW s \in Site, NEW run \in Id, NEW t \in Time
    PROVE  RowsKept(row, Inserted(row, id, s, run, t))
<1> DEFINE new == [NoRow EXCEPT !.status = "pending", !.site = s,
                                !.run = run, !.expires = t + Expiry]
<1>1. t + Expiry \in Nat /\ 0 \in Time /\ run \in 0..MaxId
  BY TableAssumption DEF Time, Id
<1>2. new \in Row /\ new.status = "pending" /\ new.site = s /\ new.run = run
  BY <1>1 DEF NoRow, Row, Status
<1>3. Inserted(row, id, s, run, t) = [row EXCEPT ![id] = new]
  BY DEF Inserted
<1> HIDE DEF new
<1> QED BY <1>2, <1>3, RowReplaced

LEMMA AttachKeeps ==
    ASSUME DataOK, NEW id \in Id, Exists(row, id)
    PROVE  RowsKept(row, AttachSlack(row, id))
<1> DEFINE r == [row[id] EXCEPT !.thread = TRUE]
<1>1. row \in [Id -> Row] /\ row[id] \in Row
      /\ row[id].status # "none" /\ row[id].site \in Site /\ row[id].run \in Id
  BY DEF DataOK, Exists
<1>2. r \in Row /\ r.status = row[id].status /\ r.site = row[id].site /\ r.run = row[id].run
  BY <1>1 DEF Row
<1>3. AttachSlack(row, id) = [row EXCEPT ![id] = r]
  BY <1>1 DEF AttachSlack
<1> HIDE DEF r
<1> QED BY <1>1, <1>2, <1>3, RowReplaced

-----------------------------------------------------------------------------
(* A process may move to a program point with the local variables that     *)
(* belong there.                                                           *)

LEMMA Moved ==
    ASSUME TypeInv, NEW w \in Worker, NEW p \in PC, NEW j \in Job, ShapeAt(p, j),
           \A id \in Id : KeepsAt(p, j, id) => Exists(row', id),
           pc' = [pc EXCEPT ![w] = p], job' = [job EXCEPT ![w] = j],
           \A id \in Id : Exists(row, id) => Exists(row', id)
    PROVE  JobsOK' /\ KeptOK'
<1>1. pc \in [Worker -> PC] /\ job \in [Worker -> Job] /\ KeptOK
      /\ \A v \in Worker : ShapeAt(pc[v], job[v])
  BY DEF TypeInv, JobsOK
<1>2. pc' \in [Worker -> PC] /\ job' \in [Worker -> Job]
  BY <1>1
<1>3. ASSUME NEW v \in Worker
      PROVE  /\ ShapeAt(pc'[v], job'[v])
             /\ \A id \in Id : KeepsAt(pc'[v], job'[v], id) => Exists(row', id)
  <2>1. CASE v = w
    <3>1. pc'[v] = p /\ job'[v] = j
      BY <2>1, <1>1
    <3> QED BY <3>1
  <2>2. CASE v # w
    <3>1. pc'[v] = pc[v] /\ job'[v] = job[v]
      BY <2>2, <1>1
    <3> QED BY <3>1, <1>1 DEF KeptOK
  <2> QED BY <2>1, <2>2
<1>4. JobsOK'
  BY <1>2, <1>3 DEF JobsOK, ShapeAt
<1>5. KeptOK'
  BY <1>3 DEF KeptOK, Exists, KeepsAt
<1> QED BY <1>4, <1>5

LEMMA Exited ==
    ASSUME TypeInv, NEW w \in Worker, pc' = [pc EXCEPT ![w] = "idle"],
           job' = [job EXCEPT ![w] = NoJob],
           \A id \in Id : Exists(row, id) => Exists(row', id)
    PROVE  JobsOK' /\ KeptOK'
<1>1. \A id \in Id : ~KeepsAt("idle", NoJob, id)
  BY DEF NoJob, KeepsAt, Id
<1> QED BY <1>1, NoJobOK, Moved

LEMMA Stayed ==
    ASSUME TypeInv, NEW w \in Worker, NEW p \in PC, ShapeAt(p, job[w]),
           \A id \in Id : KeepsAt(p, job[w], id) => Exists(row', id),
           pc' = [pc EXCEPT ![w] = p], job' = job,
           \A id \in Id : Exists(row, id) => Exists(row', id)
    PROVE  JobsOK' /\ KeptOK'
<1>1. job[w] \in Job /\ job' = [job EXCEPT ![w] = job[w]]
  BY DEF TypeInv, JobsOK
<1> QED BY <1>1, Moved

\* A step that leaves what the processes share alone, or touches only the
\* table or only the log.
LEMMA DataSame ==
    ASSUME DataOK, UNCHANGED <<row, audit, files, world, ghost>>
    PROVE  DataOK'
BY DEF DataOK, files, world, ghost, Exists

LEMMA DataRow ==
    ASSUME DataOK, RowsKept(row, row'), UNCHANGED <<audit, files, world, ghost>>
    PROVE  DataOK' /\ \A id \in Id : Exists(row, id) => Exists(row', id)
BY DEF DataOK, files, world, ghost, RowsKept, Exists

LEMMA DataLog ==
    ASSUME DataOK, NEW e \in Event, NEW id \in Id, Log(e, id),
           UNCHANGED <<row, files, world, ghost>>
    PROVE  DataOK'
<1>1. audit \subseteq Event \X Id /\ audit' = audit \cup {<<e, id>>}
  BY DEF DataOK, Log
<1>2. <<e, id>> \in Event \X Id
  OBVIOUS
<1>3. audit' \subseteq Event \X Id
  BY <1>1, <1>2
<1> DEFINE T == Event \X Id
<1>4. audit' \subseteq T
  BY <1>3
<1>5. audit' \subseteq T => DataOK'
  BY DEF DataOK, files, world, ghost, Exists
<1> QED BY <1>4, <1>5

LEMMA DecidingTyped ==
    ASSUME TypeInv, NEW w \in Worker, DecidingStep(w)
    PROVE  TypeInv'
<1>0. /\ pc[w] \in PC /\ job[w] \in Job /\ ShapeAt(pc[w], job[w])
      /\ \A id \in Id : KeepsAt(pc[w], job[w], id) => Exists(row, id)
      /\ DataOK
  BY DEF TypeInv, JobsOK, KeptOK
<1>1. ASSUME NEW kind \in Kind \ {"collect"}, NEW id \in Id, Begin(w, kind, id)
      PROVE  TypeInv'
  <2> DEFINE j == [NoJob EXCEPT !.kind = kind, !.id = id]
  <2>a. j.kind = kind /\ j.id = id /\ j.due = {} /\ j.new = 0
    BY DEF NoJob
  <2>b. NoJob \in Job /\ kind \in Kind \cup {"none"} /\ id \in 0..MaxId
    BY NoJobOK, TableAssumption DEF Id
  <2>c. j \in Job
    BY <2>b DEF Job
  <2>1. j \in Job /\ j.kind = kind /\ j.id = id /\ j.due = {} /\ j.new = 0
    BY <2>a, <2>c
  <2>2. job' = [job EXCEPT ![w] = j] /\ pc' = [pc EXCEPT ![w] = "get"]
    BY <1>1 DEF Begin, Step
  <2> HIDE DEF j
  <2>3. ShapeAt("get", j)
    BY <2>1 DEF Kind, ShapeAt, DecidePC, ApplyPC, CollectPC, HealPC, HealGuardPC
  <2>4. \A i \in Id : ~KeepsAt("get", j, i)
    BY <2>1 DEF KeepsAt, Id
  <2>5. UNCHANGED <<row, audit, files, world, ghost>>
    BY <1>1 DEF Begin
  <2>6. JobsOK' /\ KeptOK'
    BY <2>1, <2>2, <2>3, <2>4, <2>5, Moved DEF PC, DecidePC
  <2> QED BY <1>0, <2>5, <2>6, DataSame DEF TypeInv
<1>2. CASE Get(w)
  <2> DEFINE s == row[job[w].id].site
             j == [job[w] EXCEPT !.site = s]
             p == AfterGet(job[w].kind)
  <2>1. job[w].id \in Id /\ s \in Site
    BY <1>0, <1>2 DEF Get, Step, Pending, ShapeAt, DecidePC, DataOK, Exists
  <2>2. job' = [job EXCEPT ![w] = j] /\ pc' = [pc EXCEPT ![w] = p]
    BY <1>2 DEF Get, Step, TypeInv, JobsOK
  <2>3. j \in Job /\ j.kind = job[w].kind /\ j.id = job[w].id /\ j.due = job[w].due
        /\ j.new = job[w].new /\ j.site = s
    BY <1>0, <2>1 DEF Job
  <2>4. pc[w] = "get" /\ Exists(row, job[w].id) /\ UNCHANGED <<row, audit, files, world, ghost>>
    BY <1>2 DEF Get, Step, Pending, Exists
  <2> HIDE DEF j, s
  <2>5. p \in PC /\ ShapeAt(p, j)
    BY <1>0, <2>1, <2>3, <2>4 DEF AfterGet, PC, ShapeAt, DecidePC, ApplyPC, CollectPC, HealPC, HealGuardPC
  <2>6. \A i \in Id : KeepsAt(p, j, i) => Exists(row, i)
    BY <1>0, <2>3, <2>4 DEF KeepsAt, AfterGet
  <2>7. JobsOK' /\ KeptOK'
    BY <2>2, <2>3, <2>4, <2>5, <2>6, Moved
  <2> QED BY <1>0, <2>4, <2>7, DataSame DEF TypeInv
<1>3. CASE GetRefused(w) \/ RecheckRefused(w)
  <2>1. pc' = [pc EXCEPT ![w] = "idle"] /\ job' = [job EXCEPT ![w] = NoJob]
        /\ UNCHANGED <<row, audit, files, world, ghost>>
    BY <1>3 DEF GetRefused, RecheckRefused, Exit, Step
  <2> QED BY <1>0, <2>1, Exited, DataSame DEF TypeInv
<1>4. CASE Recheck(w)
  <2>1. pc[w] = "decide" /\ pc' = [pc EXCEPT ![w] = "cas"] /\ job' = job
        /\ UNCHANGED <<row, audit, files, world, ghost>>
    BY <1>4 DEF Recheck, Step
  <2>2. "cas" \in PC /\ ShapeAt("cas", job[w])
        /\ \A id \in Id : KeepsAt("cas", job[w], id) => Exists(row, id)
    BY <1>0, <2>1 DEF PC, ShapeAt, DecidePC, ApplyPC, CollectPC, HealPC, HealGuardPC, KeepsAt
  <2> QED BY <1>0, <2>1, <2>2, Stayed, DataSame DEF TypeInv
<1>5. pc[w] = "cas" => RowsKept(row, UpdateStatus(row, job[w].id, DecisionOf(job[w].kind), now))
  <2>1. pc[w] = "cas" => job[w].id \in Id
    BY <1>0 DEF ShapeAt, DecidePC
  <2>2. DecisionOf(job[w].kind) \in Status \ {"none"}
    BY DEF DecisionOf, Status, Decision
  <2> QED BY <1>0, <2>1, <2>2, UpdateStatusKeeps DEF DataOK
<1>6. CASE Decide(w)
  <2>1. pc[w] = "cas" /\ pc' = [pc EXCEPT ![w] = "audit_decided"] /\ job' = job
        /\ UNCHANGED <<audit, files, world, ghost>>
        /\ row' = UpdateStatus(row, job[w].id, DecisionOf(job[w].kind), now)
    BY <1>6 DEF Decide, Step
  <2>2. "audit_decided" \in PC /\ ShapeAt("audit_decided", job[w])
        /\ \A id \in Id : KeepsAt("audit_decided", job[w], id) => Exists(row, id)
    BY <1>0, <2>1 DEF PC, ShapeAt, DecidePC, ApplyPC, CollectPC, HealPC, HealGuardPC, KeepsAt
  <2>3. DataOK' /\ \A id \in Id : Exists(row, id) => Exists(row', id)
    BY <1>0, <1>5, <2>1, DataRow
  <2> QED BY <2>1, <2>2, <2>3, Stayed DEF TypeInv
<1>7. CASE DecideLost(w)
  <2>1. pc[w] = "cas" /\ pc' = [pc EXCEPT ![w] = "idle"] /\ job' = [job EXCEPT ![w] = NoJob]
        /\ UNCHANGED <<audit, files, world, ghost>>
        /\ row' = UpdateStatus(row, job[w].id, DecisionOf(job[w].kind), now)
    BY <1>7 DEF DecideLost, Exit, Step
  <2>2. DataOK' /\ \A id \in Id : Exists(row, id) => Exists(row', id)
    BY <1>0, <1>5, <2>1, DataRow
  <2> QED BY <2>1, <2>2, Exited DEF TypeInv
<1>8. CASE AuditDecided(w)
  <2>1. pc[w] = "audit_decided" /\ Log(DecisionOf(job[w].kind), job[w].id)
        /\ UNCHANGED <<row, files, world, ghost>>
    BY <1>8 DEF AuditDecided, Exit, Step
  <2>2. job[w].id \in Id /\ DecisionOf(job[w].kind) \in Event
    BY <1>0, <2>1 DEF ShapeAt, DecidePC, DecisionOf, Event
  <2>3. DataOK'
    BY <1>0, <2>1, <2>2, DataLog
  <2>4. CASE Exit(w, "audit_decided")
    BY <2>1, <2>3, <2>4, Exited DEF Exit, Step, TypeInv
  <2>5. CASE job[w].kind = "approve" /\ Step(w, "audit_decided", "read") /\ job' = job
    <3>1. "read" \in PC /\ ShapeAt("read", job[w])
          /\ \A id \in Id : KeepsAt("read", job[w], id) => Exists(row, id)
      BY <1>0, <2>1, <2>5 DEF PC, ShapeAt, DecidePC, ApplyPC, CollectPC, HealPC, HealGuardPC, KeepsAt
    <3> QED BY <2>1, <2>3, <2>5, <3>1, Stayed DEF TypeInv, Step
  <2>6. CASE job[w].kind = "regenerate" /\ job[w].new # 0
             /\ Step(w, "audit_decided", "post") /\ job' = job
    <3>1. "post" \in PC /\ job[w].new \in Id
      BY <1>0, <2>6 DEF PC, HealPC, Job, Id
    <3>2. ShapeAt("post", job[w])
      BY <1>0, <2>1, <2>6, <3>1 DEF ShapeAt, DecidePC, ApplyPC, CollectPC, HealPC, HealGuardPC
    <3>3. \A id \in Id : KeepsAt("post", job[w], id) => Exists(row, id)
      BY <1>0, <2>1 DEF KeepsAt
    <3> QED BY <2>1, <2>3, <2>6, <3>1, <3>2, <3>3, Stayed DEF TypeInv, Step
  <2> QED BY <1>8, <2>4, <2>5, <2>6 DEF AuditDecided
<1> QED BY <1>1, <1>2, <1>3, <1>4, <1>6, <1>7, <1>8 DEF DecidingStep

-----------------------------------------------------------------------------
(* Healing. *)

\* A site run that is over leads to a program point of its command.
LEMMA RunOver ==
    ASSUME NEW w \in Worker, NEW ok, NEW j, j.kind = job[w].kind,
           j.kind \in {"approve", "collect"}, j.site \in Site,
           j.kind = "approve" => j.id \in Id
    PROVE  /\ AfterRun(w, ok) \in PC
           /\ ShapeAt(AfterRun(w, ok), j)
           /\ AfterRun(w, ok) \notin {"count", "llm", "insert"}
<1>1. CASE j.kind = "collect"
  <2>1. AfterRun(w, ok) = "next_site"
    BY <1>1 DEF AfterRun
  <2> QED BY <1>1, <2>1
      DEF PC, ShapeAt, DecidePC, ApplyPC, CollectPC, HealPC, HealGuardPC
<1>2. CASE j.kind = "approve"
  <2>1. AfterRun(w, ok) \in {"report", "rb_truncate"}
    BY <1>2 DEF AfterRun
  <2> QED BY <1>2, <2>1
      DEF PC, ShapeAt, DecidePC, ApplyPC, CollectPC, HealPC, HealGuardPC
<1> QED BY <1>1, <1>2

\* A step that only moves a process on.
LEMMA OnlyMoved ==
    ASSUME TypeInv, NEW w \in Worker, NEW p \in PC, ShapeAt(p, job[w]),
           \A id \in Id : KeepsAt(p, job[w], id) => KeepsAt(pc[w], job[w], id),
           pc' = [pc EXCEPT ![w] = p], job' = job,
           UNCHANGED <<row, audit, files, world, ghost>>
    PROVE  TypeInv'
<1>1. DataOK /\ \A id \in Id : KeepsAt(pc[w], job[w], id) => Exists(row, id)
  BY DEF TypeInv, KeptOK
<1>2. \A id \in Id : KeepsAt(p, job[w], id) => Exists(row', id)
  BY <1>1
<1>3. JobsOK' /\ KeptOK'
  BY <1>2, Stayed
<1> QED BY <1>1, <1>3, DataSame DEF TypeInv

LEMMA OnlyExited ==
    ASSUME TypeInv, NEW w \in Worker, pc' = [pc EXCEPT ![w] = "idle"],
           job' = [job EXCEPT ![w] = NoJob],
           UNCHANGED <<row, audit, files, world, ghost>>
    PROVE  TypeInv'
BY Exited, DataSame DEF TypeInv

LEMMA HealSkipTyped ==
    ASSUME TypeInv, NEW w \in Worker, NEW from \in HealGuardPC, HealSkip(w, from)
    PROVE  TypeInv'
<1> DEFINE p == AfterRun(w, job[w].ok)
<1>1. pc[w] = from /\ pc' = [pc EXCEPT ![w] = p] /\ job' = job
      /\ UNCHANGED <<row, audit, files, world, ghost>>
  BY DEF HealSkip, Step
<1>2. ShapeAt(pc[w], job[w])
  BY DEF TypeInv, JobsOK
<1>3. job[w].kind \in {"approve", "collect"} /\ job[w].site \in Site
      /\ (job[w].kind = "approve" => job[w].id \in Id)
  BY <1>1, <1>2 DEF ShapeAt, HealPC, HealGuardPC
<1>4. p \in PC /\ ShapeAt(p, job[w]) /\ p \notin {"count", "llm", "insert"}
  BY <1>3, RunOver
<1>5. \A id \in Id : KeepsAt(p, job[w], id) => KeepsAt(pc[w], job[w], id)
  BY <1>4 DEF KeepsAt
<1> QED BY <1>1, <1>4, <1>5, OnlyMoved

LEMMA HealGuardTyped ==
    ASSUME TypeInv, NEW w \in Worker, NEW from \in HealPC, NEW to \in HealPC,
           HealGuard(w, from, to),
           to \in HealGuardPC => from \in HealGuardPC,
           to = "llm" => from = "count",
           to = "insert" => from \in {"heal_llm", "llm"},
           to \notin {"count", "audit_created", "post", "attach"}
    PROVE  TypeInv'
<1>1. pc[w] = from /\ pc' = [pc EXCEPT ![w] = to] /\ job' = job
      /\ UNCHANGED <<row, audit, files, world, ghost>>
  BY DEF HealGuard, Step
<1>2. ShapeAt(pc[w], job[w])
  BY DEF TypeInv, JobsOK
<1>3. to \in PC
  BY DEF PC
<1>4. ShapeAt(to, job[w])
  BY <1>1, <1>2 DEF ShapeAt, DecidePC, ApplyPC, CollectPC, HealPC, HealGuardPC
<1>5. \A id \in Id : KeepsAt(to, job[w], id) => KeepsAt(pc[w], job[w], id)
  BY <1>1, <1>2 DEF KeepsAt, ShapeAt, HealGuardPC
<1> QED BY <1>1, <1>3, <1>4, <1>5, OnlyMoved

LEMMA HealingTyped ==
    ASSUME TypeInv, NEW w \in Worker, HealingStep(w)
    PROVE  TypeInv'
<1>0. /\ pc[w] \in PC /\ job[w] \in Job /\ ShapeAt(pc[w], job[w])
      /\ \A id \in Id : KeepsAt(pc[w], job[w], id) => Exists(row, id)
      /\ DataOK
  BY DEF TypeInv, JobsOK, KeptOK
<1>1. CASE HealHistory(w) \/ HealPending(w) \/ HealRejected(w) \/ HealLlm(w)
  <2>1. ASSUME NEW from \in HealGuardPC, HealSkip(w, from)
        PROVE  TypeInv'
    BY <2>1, HealSkipTyped
  <2>2. CASE \/ HealGuard(w, "heal_history", "heal_pending")
             \/ HealGuard(w, "heal_pending", "heal_rejected")
             \/ HealGuard(w, "heal_rejected", "heal_llm")
             \/ HealGuard(w, "heal_llm", "insert")
    BY <2>2, HealGuardTyped DEF HealPC, HealGuardPC
  <2> QED BY <1>1, <2>1, <2>2
      DEF HealHistory, HealPending, HealRejected, HealLlm, HealGuardPC
<1>2. CASE Count(w) \/ Llm(w)
  <2>1. CASE HealGuard(w, "count", "llm") \/ HealGuard(w, "llm", "insert")
    BY <2>1, HealGuardTyped DEF HealPC, HealGuardPC
  <2>2. CASE HealGuard(w, "llm", "decide")
    <3>1. pc[w] = "llm" /\ pc' = [pc EXCEPT ![w] = "decide"] /\ job' = job
          /\ UNCHANGED <<row, audit, files, world, ghost>>
      BY <2>2 DEF HealGuard, Step
    <3>2. "decide" \in PC /\ ShapeAt("decide", job[w])
      BY <1>0, <3>1 DEF PC, ShapeAt, DecidePC, ApplyPC, CollectPC, HealPC, HealGuardPC
    <3>3. \A id \in Id : KeepsAt("decide", job[w], id) => KeepsAt(pc[w], job[w], id)
      BY DEF KeepsAt
    <3> QED BY <3>1, <3>2, <3>3, OnlyMoved
  <2>3. CASE (Exit(w, "count") \/ Exit(w, "llm"))
             /\ UNCHANGED <<row, audit, files, world, ghost>>
    BY <2>3, OnlyExited DEF Exit, Step
  <2> QED BY <1>2, <2>1, <2>2, <2>3 DEF Count, Llm
<1>3. CASE Insert(w)
  <2>1. PICK id \in Id : Insert(w)!(id)
    BY <1>3 DEF Insert
  <2> DEFINE run == IF job[w].kind = "regenerate" THEN row[job[w].id].run ELSE id
             j == [job[w] EXCEPT !.new = id]
  <2>2. pc[w] = "insert" /\ pc' = [pc EXCEPT ![w] = "audit_created"]
        /\ job' = [job EXCEPT ![w] = j] /\ UNCHANGED <<audit, files, world, ghost>>
        /\ row' = Inserted(row, id, job[w].site, run, now)
    BY <2>1 DEF Step, TypeInv, JobsOK
  <2>3. job[w].site \in Site
    BY <1>0, <2>2 DEF ShapeAt, HealPC
  <2>4. run \in Id /\ now \in Time
    BY <1>0, <2>2 DEF ShapeAt, HealPC, KeepsAt, DataOK
  <2>5. j \in Job /\ j.new = id /\ j.id = job[w].id /\ j.kind = job[w].kind
        /\ j.site = job[w].site /\ j.due = job[w].due
    BY <1>0, TableAssumption DEF Job, Id
  <2> HIDE DEF run, j
  <2>6. RowsKept(row, row')
    BY <1>0, <2>2, <2>3, <2>4, InsertedKeeps
  <2>7. DataOK' /\ \A i \in Id : Exists(row, i) => Exists(row', i)
    BY <1>0, <2>2, <2>6, DataRow
  <2>8. "audit_created" \in PC /\ ShapeAt("audit_created", j)
    BY <1>0, <2>2, <2>3, <2>5
       DEF PC, ShapeAt, DecidePC, ApplyPC, CollectPC, HealPC, HealGuardPC
  <2>9. Exists(row', id)
    BY <1>0, <2>2 DEF Inserted, Exists, DataOK, NoRow
  <2>10. \A i \in Id : KeepsAt("audit_created", j, i) => Exists(row', i)
    BY <1>0, <2>5, <2>7, <2>9 DEF KeepsAt
  <2>11. JobsOK' /\ KeptOK'
    BY <2>2, <2>5, <2>7, <2>8, <2>10, Moved
  <2> QED BY <2>7, <2>11 DEF TypeInv
<1>4. CASE AuditCreated(w)
  <2> DEFINE p == IF job[w].kind = "regenerate" THEN "decide" ELSE "post"
  <2>1. pc[w] = "audit_created" /\ pc' = [pc EXCEPT ![w] = p] /\ job' = job
        /\ Log("created", job[w].new) /\ UNCHANGED <<row, files, world, ghost>>
    BY <1>4 DEF AuditCreated, Step
  <2>2. p \in PC /\ ShapeAt(p, job[w]) /\ job[w].new \in Id
    BY <1>0, <2>1 DEF PC, ShapeAt, DecidePC, ApplyPC, CollectPC, HealPC, HealGuardPC
  <2>3. \A id \in Id : KeepsAt(p, job[w], id) => Exists(row', id)
    BY <1>0, <2>1 DEF KeepsAt
  <2>4. JobsOK' /\ KeptOK'
    BY <2>1, <2>2, <2>3, Stayed
  <2>5. DataOK'
    BY <1>0, <2>1, <2>2, DataLog DEF Event
  <2> QED BY <2>4, <2>5 DEF TypeInv
<1>5. ASSUME NEW from \in {"post", "attach"}, CardDone(w, from), pc[w] = from,
             \A id \in Id : Exists(row, id) => Exists(row', id)
      PROVE  JobsOK' /\ KeptOK'
  <2>1. CASE job[w].kind = "regenerate"
    BY <1>5, <2>1, Exited DEF CardDone, Exit, Step
  <2>2. CASE job[w].kind # "regenerate"
    <3> DEFINE p == AfterRun(w, job[w].ok)
    <3>1. pc' = [pc EXCEPT ![w] = p] /\ job' = job
      BY <1>5, <2>2 DEF CardDone, Step
    <3>2. job[w].kind \in {"approve", "collect"} /\ job[w].site \in Site
          /\ (job[w].kind = "approve" => job[w].id \in Id)
      BY <1>0, <1>5, <2>2 DEF ShapeAt, HealPC
    <3>3. p \in PC /\ ShapeAt(p, job[w]) /\ p \notin {"count", "llm", "insert"}
      BY <3>2, RunOver
    <3>4. \A id \in Id : KeepsAt(p, job[w], id) => Exists(row', id)
      BY <1>0, <1>5, <3>3 DEF KeepsAt
    <3> QED BY <1>5, <3>1, <3>3, <3>4, Stayed
  <2> QED BY <2>1, <2>2
<1>6. CASE Post(w)
  <2>1. UNCHANGED <<row, audit, files, world, ghost>>
    BY <1>6 DEF Post
  <2>2. CASE Step(w, "post", "attach") /\ job' = job
    <3>1. pc[w] = "post" /\ pc' = [pc EXCEPT ![w] = "attach"]
      BY <2>2 DEF Step
    <3>2. "attach" \in PC /\ ShapeAt("attach", job[w])
      BY <1>0, <3>1 DEF PC, ShapeAt, DecidePC, ApplyPC, CollectPC, HealPC, HealGuardPC
    <3>3. \A id \in Id : KeepsAt("attach", job[w], id) => KeepsAt(pc[w], job[w], id)
      BY DEF KeepsAt
    <3> QED BY <2>1, <2>2, <3>1, <3>2, <3>3, OnlyMoved
  <2>3. CASE CardDone(w, "post")
    <3>1. pc[w] = "post"
      BY <2>3 DEF CardDone, Exit, Step
    <3>2. JobsOK' /\ KeptOK'
      BY <1>5, <2>1, <2>3, <3>1
    <3> QED BY <1>0, <2>1, <3>2, DataSame DEF TypeInv
  <2> QED BY <1>6, <2>2, <2>3 DEF Post
<1>7. CASE Attach(w)
  <2>1. pc[w] = "attach" /\ CardDone(w, "attach") /\ row' = AttachSlack(row, job[w].new)
        /\ UNCHANGED <<audit, files, world, ghost>>
    BY <1>7 DEF Attach, CardDone, Exit, Step
  <2>2. job[w].new \in Id /\ Exists(row, job[w].new)
    BY <1>0, <2>1 DEF ShapeAt, KeepsAt
  <2>3. DataOK' /\ \A id \in Id : Exists(row, id) => Exists(row', id)
    BY <1>0, <2>1, <2>2, AttachKeeps, DataRow
  <2> QED BY <1>5, <2>1, <2>3 DEF TypeInv
<1> QED BY <1>1, <1>2, <1>3, <1>4, <1>6, <1>7 DEF HealingStep

-----------------------------------------------------------------------------
(* Site runs, the patch, the collect run. *)

LEMMA DataHist ==
    ASSUME DataOK, NEW s \in Site, hist' = hist \/ hist' = [hist EXCEPT ![s] = TRUE],
           UNCHANGED <<row, audit, files, lock, now, crashes, ghost>>
    PROVE  DataOK'
<1>1. hist \in [Site -> BOOLEAN]
  BY DEF DataOK
<1>2. hist' \in [Site -> BOOLEAN]
  BY <1>1
<1> QED BY <1>2 DEF DataOK, files, ghost, Exists

LEMMA RunSiteTyped ==
    ASSUME TypeInv, NEW w \in Worker, NEW s \in Site, NEW from \in {"rerun", "next_site"},
           RunSite(w, s, from),
           UNCHANGED <<row, audit, files, lock, now, crashes, ghost>>
    PROVE  TypeInv'
<1>0. /\ pc[w] \in PC /\ job \in [Worker -> Job] /\ job[w] \in Job /\ ShapeAt(pc[w], job[w])
      /\ \A id \in Id : KeepsAt(pc[w], job[w], id) => Exists(row, id)
      /\ DataOK
  BY DEF TypeInv, JobsOK, KeptOK
<1>1. pc[w] = from /\ job[w].kind \in {"approve", "collect"}
      /\ (job[w].kind = "approve" => job[w].id \in Id)
  BY <1>0 DEF RunSite, Step, ShapeAt, ApplyPC, CollectPC
<1>2. ASSUME NEW p, NEW j \in Job, pc' = [pc EXCEPT ![w] = p], job' = [job EXCEPT ![w] = j],
             j.kind = job[w].kind, j.id = job[w].id, j.new = job[w].new,
             j.due = job[w].due, j.site = s,
             p = "heal_history" \/ \E ok \in BOOLEAN : p = AfterRun(w, ok),
             hist' = hist \/ hist' = [hist EXCEPT ![s] = TRUE]
      PROVE  TypeInv'
  <2>1. p \in PC /\ ShapeAt(p, j) /\ p \notin {"count", "llm", "insert"}
    <3>1. CASE p = "heal_history"
      BY <1>1, <1>2, <3>1
         DEF PC, ShapeAt, DecidePC, ApplyPC, CollectPC, HealPC, HealGuardPC
    <3>2. CASE \E ok \in BOOLEAN : p = AfterRun(w, ok)
      BY <1>1, <1>2, <3>2, RunOver
    <3> QED BY <1>2, <3>1, <3>2
  <2>2. \A id \in Id : KeepsAt(p, j, id) => Exists(row', id)
    BY <1>0, <1>2, <2>1 DEF KeepsAt
  <2>3. JobsOK' /\ KeptOK'
    BY <1>2, <2>1, <2>2, Moved
  <2> QED BY <1>0, <1>2, <2>3, DataHist DEF TypeInv
<1>3. ASSUME NEW r \in Results, RunSite(w, s, from)!1!(r)
      PROVE  TypeInv'
  <2> DEFINE ok == job[w].kind = "approve" /\ r.records # "none"
             p == IF r.status = "failed" THEN "heal_history" ELSE AfterRun(w, ok)
             j == [job[w] EXCEPT !.site = s, !.ok = ok, !.todo = @ \ {s}]
  <2>1. pc' = [pc EXCEPT ![w] = p] /\ job' = [job EXCEPT ![w] = j]
    BY <1>0, <1>3 DEF Step
  <2>2. hist' = hist \/ hist' = [hist EXCEPT ![s] = TRUE]
    BY <1>3
  <2>3. ok \in BOOLEAN
    OBVIOUS
  <2>4. p = "heal_history" \/ \E b \in BOOLEAN : p = AfterRun(w, b)
    BY <2>3
  <2> HIDE DEF ok, p
  <2>5. j \in Job /\ j.kind = job[w].kind /\ j.id = job[w].id /\ j.new = job[w].new
        /\ j.due = job[w].due /\ j.site = s
    BY <1>0, <2>3 DEF Job
  <2> HIDE DEF j
  <2> QED BY <1>2, <2>1, <2>2, <2>4, <2>5
<1>4. CASE RunSite(w, s, from)!2
  <2> DEFINE j == [job[w] EXCEPT !.site = s, !.todo = @ \ {s}]
  <2>1. pc' = [pc EXCEPT ![w] = AfterRun(w, FALSE)] /\ job' = [job EXCEPT ![w] = j]
        /\ hist' = hist
    BY <1>0, <1>4 DEF Step
  <2>2. j \in Job /\ j.kind = job[w].kind /\ j.id = job[w].id /\ j.new = job[w].new
        /\ j.due = job[w].due /\ j.site = s
    BY <1>0 DEF Job
  <2> HIDE DEF j
  <2> QED BY <1>2, <2>1, <2>2
<1> QED BY <1>3, <1>4 DEF RunSite

LEMMA DataFiles ==
    ASSUME DataOK, yaml' \in [Site -> Content], backup' \in [Site -> [Time -> Content]],
           applied' \in [Id -> Nat],
           outcome' \in [Id -> {"none", "kept", "rolled_back", "apply_failed"}],
           UNCHANGED <<row, world>>, audit' \subseteq Event \X Id
    PROVE  DataOK'
BY DEF DataOK, world, Exists

LEMMA PatchingTyped ==
    ASSUME TypeInv, NEW w \in Worker, PatchingStep(w)
    PROVE  TypeInv'
<1>0. /\ pc[w] \in PC /\ job \in [Worker -> Job] /\ job[w] \in Job /\ ShapeAt(pc[w], job[w])
      /\ \A id \in Id : KeepsAt(pc[w], job[w], id) => Exists(row, id)
      /\ DataOK
  BY DEF TypeInv, JobsOK, KeptOK
<1>1. pc[w] \in ApplyPC => job[w].kind = "approve" /\ job[w].id \in Id /\ job[w].site \in Site
  BY <1>0 DEF ShapeAt, ApplyPC
<1>2. /\ audit \subseteq Event \X Id /\ yaml \in [Site -> Content]
      /\ backup \in [Site -> [Time -> Content]] /\ applied \in [Id -> Nat]
      /\ outcome \in [Id -> {"none", "kept", "rolled_back", "apply_failed"}]
      /\ now \in Time
  BY <1>0 DEF DataOK
<1>3. ASSUME pc[w] \in ApplyPC, NEW to \in ApplyPC, pc' = [pc EXCEPT ![w] = to],
             NEW j \in Job, job' = [job EXCEPT ![w] = j],
             j.kind = job[w].kind, j.id = job[w].id, j.new = job[w].new,
             j.due = job[w].due, j.site = job[w].site, UNCHANGED row
      PROVE  JobsOK' /\ KeptOK'
  <2>1. to \in PC /\ ShapeAt(to, j)
    BY <1>1, <1>3 DEF PC, ShapeAt, DecidePC, ApplyPC, CollectPC, HealPC, HealGuardPC
  <2>2. \A id \in Id : KeepsAt(to, j, id) => Exists(row', id)
    BY <1>0, <1>3 DEF KeepsAt, ApplyPC
  <2> QED BY <1>3, <2>1, <2>2, Moved
<1>4. ASSUME pc[w] \in ApplyPC, NEW to \in ApplyPC, pc' = [pc EXCEPT ![w] = to],
             job' = job, UNCHANGED row
      PROVE  JobsOK' /\ KeptOK'
  <2>1. job' = [job EXCEPT ![w] = job[w]]
    BY <1>0, <1>4
  <2> QED BY <1>0, <1>3, <1>4, <2>1
<1>5. ASSUME NEW e \in Event, NEW id \in Id, Log(e, id)
      PROVE  audit' \subseteq Event \X Id
  <2>1. <<e, id>> \in Event \X Id
    OBVIOUS
  <2> QED BY <1>2, <1>5, <2>1 DEF Log
<1>6. CASE ReadConfig(w)
  <2> DEFINE j == [job[w] EXCEPT !.text = yaml[job[w].site]]
  <2>1. pc[w] = "read" /\ UNCHANGED <<row, audit, files, world, ghost>>
    BY <1>6 DEF ReadConfig, Step
  <2>2. CASE Step(w, "read", "audit_failed") /\ job' = job
    BY <1>0, <1>4, <2>1, <2>2, DataSame DEF Step, ApplyPC, TypeInv
  <2>3. CASE /\ Step(w, "read", "backup") /\ yaml[job[w].site] # Torn
             /\ job' = [job EXCEPT ![w].text = yaml[job[w].site]]
    <3>a. yaml[job[w].site] \in Content
      BY <1>1, <1>2, <2>1 DEF ApplyPC
    <3>1. yaml[job[w].site] \in SUBSET Id
      BY <2>3, <3>a DEF Content
    <3>2. job' = [job EXCEPT ![w] = j]
      BY <1>0, <2>3
    <3>3. j \in Job /\ j.kind = job[w].kind /\ j.id = job[w].id /\ j.new = job[w].new
          /\ j.due = job[w].due /\ j.site = job[w].site
      BY <1>0, <3>1 DEF Job
    <3> HIDE DEF j
    <3>4. JobsOK' /\ KeptOK'
      BY <1>3, <2>1, <2>3, <3>2, <3>3 DEF Step, ApplyPC
    <3> QED BY <1>0, <2>1, <3>4, DataSame DEF TypeInv
  <2> QED BY <1>6, <2>2, <2>3 DEF ReadConfig
<1>7. CASE AuditApplyFailed(w) \/ AuditRolledBack(w)
  <2>1. PICK o \in {"apply_failed", "rolled_back"} :
          /\ pc[w] \in ApplyPC /\ pc' = [pc EXCEPT ![w] = "idle"]
          /\ job' = [job EXCEPT ![w] = NoJob] /\ Log(o, job[w].id)
          /\ outcome' = [outcome EXCEPT ![job[w].id] = o]
          /\ UNCHANGED <<row, files, world, applied>>
    BY <1>7 DEF AuditApplyFailed, AuditRolledBack, Exit, Step, ApplyPC
  <2>2. JobsOK' /\ KeptOK'
    BY <2>1, Exited
  <2>3. audit' \subseteq Event \X Id
    BY <1>1, <1>5, <2>1 DEF Event
  <2>4. outcome' \in [Id -> {"none", "kept", "rolled_back", "apply_failed"}]
    BY <1>2, <2>1
  <2> QED BY <1>0, <1>2, <2>1, <2>2, <2>3, <2>4, DataFiles DEF TypeInv, files
<1>8. CASE BackupConfig(w)
  <2> DEFINE s == job[w].site
             j == [job[w] EXCEPT !.stamp = now]
  <2>1. pc[w] = "backup" /\ pc' = [pc EXCEPT ![w] = "truncate"]
        /\ job' = [job EXCEPT ![w] = j] /\ backup' = [backup EXCEPT ![s][now] = yaml[s]]
        /\ UNCHANGED <<row, audit, yaml, world, ghost>>
    BY <1>0, <1>8 DEF BackupConfig, Step
  <2>2. j \in Job /\ j.kind = job[w].kind /\ j.id = job[w].id /\ j.new = job[w].new
        /\ j.due = job[w].due /\ j.site = job[w].site
    BY <1>0, <1>2 DEF Job
  <2> HIDE DEF j
  <2>3. JobsOK' /\ KeptOK'
    BY <1>3, <2>1, <2>2 DEF ApplyPC
  <2>4. yaml[s] \in Content
    BY <1>1, <1>2, <2>1 DEF ApplyPC
  <2>5. backup' \in [Site -> [Time -> Content]]
    BY <1>2, <2>1, <2>4
  <2> QED BY <1>0, <1>2, <2>1, <2>3, <2>5, DataFiles DEF TypeInv, ghost
<1>9. CASE \/ TruncateConfig(w, "truncate", "write")
           \/ TruncateConfig(w, "rb_truncate", "rb_write") \/ Rollback(w)
  <2>1. /\ pc[w] \in ApplyPC /\ job' = job /\ UNCHANGED <<row, audit, backup, world, ghost>>
        /\ \E to \in ApplyPC : pc' = [pc EXCEPT ![w] = to]
    BY <1>9 DEF TruncateConfig, Rollback, Step, ApplyPC
  <2>2. PICK c \in Content : yaml' = [yaml EXCEPT ![job[w].site] = c]
    <3>1. CASE Rollback(w)
      <4>1. job[w].stamp \in Time
        BY <1>0 DEF Job
      <4>2. backup[job[w].site][job[w].stamp] \in Content
        BY <1>1, <1>2, <2>1, <4>1
      <4>3. yaml' = [yaml EXCEPT ![job[w].site] = backup[job[w].site][job[w].stamp]]
        BY <3>1 DEF Rollback
      <4> QED BY <4>2, <4>3
    <3>2. CASE ~Rollback(w)
      <4>1. yaml' = [yaml EXCEPT ![job[w].site] = Torn]
        BY <1>9, <3>2 DEF TruncateConfig
      <4>2. Torn \in Content
        BY DEF Content
      <4> QED BY <4>1, <4>2
    <3> QED BY <3>1, <3>2
  <2>3. yaml' \in [Site -> Content]
    BY <1>2, <2>2
  <2>4. JobsOK' /\ KeptOK'
    BY <1>4, <2>1
  <2> QED BY <1>0, <1>2, <2>1, <2>3, <2>4, DataFiles DEF TypeInv, ghost
<1>10. CASE WriteConfig(w)
  <2>1. pc[w] = "write" /\ pc' = [pc EXCEPT ![w] = "audit_applied"] /\ job' = job
        /\ yaml' = [yaml EXCEPT ![job[w].site] = job[w].text \cup {job[w].id}]
        /\ applied' = [applied EXCEPT ![job[w].id] = @ + 1]
        /\ UNCHANGED <<row, audit, backup, world, outcome>>
    BY <1>10 DEF WriteConfig, Step
  <2>2. job[w].text \cup {job[w].id} \in Content
    BY <1>0, <1>1, <2>1 DEF Job, Content, ApplyPC
  <2>3. yaml' \in [Site -> Content]
    BY <1>2, <2>1, <2>2
  <2>a. job[w].id \in Id
    BY <1>1, <2>1 DEF ApplyPC
  <2>b. applied[job[w].id] + 1 \in Nat
    BY <1>2, <2>a
  <2>4. applied' \in [Id -> Nat]
    BY <1>2, <2>1, <2>b
  <2>5. JobsOK' /\ KeptOK'
    BY <1>4, <2>1 DEF ApplyPC
  <2> QED BY <1>0, <1>2, <2>1, <2>3, <2>4, <2>5, DataFiles DEF TypeInv
<1>11. CASE AuditApplied(w)
  <2>1. pc[w] = "audit_applied" /\ pc' = [pc EXCEPT ![w] = "load"] /\ job' = job
        /\ Log("applied", job[w].id) /\ UNCHANGED <<row, files, world, ghost>>
    BY <1>11 DEF AuditApplied, Step
  <2>2. DataOK'
    BY <1>0, <1>1, <2>1, DataLog DEF Event, ApplyPC
  <2>3. JobsOK' /\ KeptOK'
    BY <1>4, <2>1 DEF ApplyPC
  <2> QED BY <2>2, <2>3 DEF TypeInv
<1>12. CASE LoadConfigs(w)
  <2>1. pc[w] = "load" /\ UNCHANGED <<row, audit, files, world, ghost>>
    BY <1>12 DEF LoadConfigs, Exit, Step
  <2>2. CASE Exit(w, "load")
    BY <2>1, <2>2, OnlyExited DEF Exit, Step
  <2>3. CASE ~Exit(w, "load")
    <3>1. job' = job /\ \E to \in ApplyPC : pc' = [pc EXCEPT ![w] = to]
      BY <1>12, <2>3 DEF LoadConfigs, Step, ApplyPC
    <3>2. JobsOK' /\ KeptOK'
      BY <1>4, <2>1, <3>1 DEF ApplyPC
    <3> QED BY <1>0, <2>1, <3>2, DataSame DEF TypeInv
  <2> QED BY <2>2, <2>3
<1>13. CASE Rerun(w)
  <2>1. pc[w] = "rerun"
    BY <1>13 DEF Rerun, RunSite, Step
  <2> QED BY <1>1, <1>13, <2>1, RunSiteTyped DEF Rerun, ApplyPC
<1>14. CASE Report(w)
  <2>1. /\ pc[w] = "report" /\ pc' = [pc EXCEPT ![w] = "idle"]
        /\ job' = [job EXCEPT ![w] = NoJob]
        /\ outcome' = [outcome EXCEPT ![job[w].id] = "kept"]
        /\ UNCHANGED <<row, audit, files, world, applied>>
    BY <1>14 DEF Report, Exit, Step
  <2>2. JobsOK' /\ KeptOK'
    BY <2>1, Exited
  <2>3. outcome' \in [Id -> {"none", "kept", "rolled_back", "apply_failed"}]
    BY <1>2, <2>1
  <2> QED BY <1>0, <1>2, <2>1, <2>2, <2>3, DataFiles DEF TypeInv, files
<1> QED BY <1>6, <1>7, <1>8, <1>9, <1>10, <1>11, <1>12, <1>13, <1>14 DEF PatchingStep

LEMMA DataWorld ==
    ASSUME DataOK, hist' = hist, lock' \in BOOLEAN, now' \in Time, crashes' \in 0..MaxCrash,
           UNCHANGED <<row, audit, files, ghost>>
    PROVE  DataOK'
BY DEF DataOK, files, ghost, Exists

LEMMA CollectingTyped ==
    ASSUME TypeInv, NEW w \in Worker, CollectingStep(w)
    PROVE  TypeInv'
<1>0. /\ pc[w] \in PC /\ job \in [Worker -> Job] /\ job[w] \in Job /\ ShapeAt(pc[w], job[w])
      /\ \A id \in Id : KeepsAt(pc[w], job[w], id) => Exists(row, id)
      /\ DataOK /\ now \in Time /\ crashes \in 0..MaxCrash
  BY DEF TypeInv, JobsOK, KeptOK, DataOK
<1>1. CASE Collect(w)
  <2>1. PICK plan \in (SUBSET Site) \ {{}} :
          job' = [job EXCEPT ![w] = [NoJob EXCEPT !.kind = "collect", !.todo = plan]]
    BY <1>1 DEF Collect
  <2>2. pc' = [pc EXCEPT ![w] = "acquire"] /\ UNCHANGED <<row, audit, files, world, ghost>>
    BY <1>1 DEF Collect, Step
  <2> DEFINE j == [NoJob EXCEPT !.kind = "collect", !.todo = plan]
  <2>3. j.kind = "collect" /\ j.due = {} /\ j.new = 0
    BY DEF NoJob
  <2>4. j \in Job
    BY NoJobOK DEF Job, Kind
  <2>5. job' = [job EXCEPT ![w] = j]
    BY <2>1
  <2> HIDE DEF j
  <2>6. "acquire" \in PC /\ ShapeAt("acquire", j)
    BY <2>3 DEF PC, ShapeAt, DecidePC, ApplyPC, CollectPC, HealPC, HealGuardPC
  <2>7. \A id \in Id : ~KeepsAt("acquire", j, id)
    BY <2>3 DEF KeepsAt, Id
  <2>8. JobsOK' /\ KeptOK'
    BY <2>2, <2>4, <2>5, <2>6, <2>7, Moved
  <2> QED BY <1>0, <2>2, <2>8, DataSame DEF TypeInv
<1>1a. CASE Acquire(w)
  <2>1. pc[w] = "acquire" /\ pc' = [pc EXCEPT ![w] = "sweep"] /\ job' = job /\ lock' = TRUE
        /\ UNCHANGED <<row, audit, files, hist, now, crashes, ghost>>
    BY <1>1a DEF Acquire, Step
  <2>2. "sweep" \in PC /\ ShapeAt("sweep", job[w])
    BY <1>0, <2>1 DEF PC, ShapeAt, DecidePC, ApplyPC, CollectPC, HealPC, HealGuardPC
  <2>3. \A id \in Id : KeepsAt("sweep", job[w], id) => Exists(row', id)
    BY <1>0, <2>1 DEF KeepsAt
  <2>4. JobsOK' /\ KeptOK'
    BY <2>1, <2>2, <2>3, Stayed
  <2> QED BY <1>0, <2>1, <2>4, DataWorld DEF TypeInv
<1>1b. CASE AcquireRefused(w)
  BY <1>1b, OnlyExited DEF AcquireRefused, Exit, Step
<1>2. CASE SweepSelect(w)
  <2> DEFINE due == Due(row, now)
             p == IF due = {} THEN "next_site" ELSE "sweep_update"
             j == [job[w] EXCEPT !.due = due, !.stamp = now]
  <2>1. pc[w] = "sweep" /\ pc' = [pc EXCEPT ![w] = p] /\ job' = [job EXCEPT ![w] = j]
        /\ UNCHANGED <<row, audit, files, world, ghost>>
    BY <1>0, <1>2 DEF SweepSelect, Step
  <2>2. due \subseteq Id /\ \A id \in due : Exists(row, id)
    BY DEF Due, Pending, Exists
  <2> HIDE DEF due
  <2>3. j \in Job /\ j.due = due /\ j.kind = job[w].kind /\ j.id = job[w].id /\ j.new = job[w].new
    BY <1>0, <2>2 DEF Job
  <2> HIDE DEF j
  <2>4. p \in PC /\ ShapeAt(p, j)
    BY <1>0, <2>1, <2>3 DEF PC, ShapeAt, DecidePC, ApplyPC, CollectPC, HealPC, HealGuardPC
  <2>5. \A id \in Id : KeepsAt(p, j, id) => Exists(row', id)
    BY <1>0, <2>1, <2>2, <2>3 DEF KeepsAt
  <2>6. JobsOK' /\ KeptOK'
    BY <2>1, <2>3, <2>4, <2>5, Moved
  <2> QED BY <1>0, <2>1, <2>6, DataSame DEF TypeInv
<1>3. CASE SweepUpdate(w)
  <2>1. pc[w] = "sweep_update" /\ pc' = [pc EXCEPT ![w] = "sweep_audit"] /\ job' = job
        /\ row' = Expire(row, job[w].due, job[w].stamp)
        /\ UNCHANGED <<audit, files, world, ghost>>
    BY <1>3 DEF SweepUpdate, Step
  <2>2. job[w].due \in SUBSET Id /\ job[w].stamp \in Time
        /\ \A id \in job[w].due : Exists(row, id)
    BY <1>0 DEF Job, KeepsAt
  <2>3. DataOK' /\ \A id \in Id : Exists(row, id) => Exists(row', id)
    BY <1>0, <2>1, <2>2, ExpireKeeps, DataRow
  <2>4. "sweep_audit" \in PC /\ ShapeAt("sweep_audit", job[w])
    BY <1>0, <2>1 DEF PC, ShapeAt, DecidePC, ApplyPC, CollectPC, HealPC, HealGuardPC
  <2>5. \A id \in Id : KeepsAt("sweep_audit", job[w], id) => Exists(row', id)
    BY <1>0, <2>3 DEF KeepsAt
  <2>6. JobsOK' /\ KeptOK'
    BY <2>1, <2>3, <2>4, <2>5, Stayed
  <2> QED BY <2>3, <2>6 DEF TypeInv
<1>4. CASE SweepAudit(w)
  <2>1. PICK id \in job[w].due : SweepAudit(w)!(id)
    BY <1>4 DEF SweepAudit
  <2> DEFINE p == IF job[w].due = {id} THEN "next_site" ELSE "sweep_audit"
             j == [job[w] EXCEPT !.due = @ \ {id}]
  <2>2. pc[w] = "sweep_audit" /\ pc' = [pc EXCEPT ![w] = p] /\ job' = [job EXCEPT ![w] = j]
        /\ Log("expired", id) /\ UNCHANGED <<row, files, world, ghost>>
    BY <1>0, <2>1 DEF Step
  <2>3. id \in Id /\ j \in Job /\ j.due \subseteq job[w].due /\ j.kind = job[w].kind
        /\ j.id = job[w].id /\ j.new = job[w].new
    BY <1>0 DEF Job
  <2> HIDE DEF j
  <2>4. DataOK'
    BY <1>0, <2>2, <2>3, DataLog DEF Event
  <2>5. p \in PC /\ ShapeAt(p, j)
    BY <1>0, <2>2, <2>3 DEF PC, ShapeAt, DecidePC, ApplyPC, CollectPC, HealPC, HealGuardPC
  <2>6. \A i \in Id : KeepsAt(p, j, i) => Exists(row', i)
    BY <1>0, <2>2, <2>3 DEF KeepsAt
  <2>7. JobsOK' /\ KeptOK'
    BY <2>2, <2>3, <2>5, <2>6, Moved
  <2> QED BY <2>4, <2>7 DEF TypeInv
<1>5. CASE CollectSite(w)
  <2>1. job[w].todo \subseteq Site
    BY <1>0 DEF Job
  <2> QED BY <1>5, <2>1, RunSiteTyped DEF CollectSite
<1>6. CASE Release(w)
  <2>1. pc' = [pc EXCEPT ![w] = "idle"] /\ job' = [job EXCEPT ![w] = NoJob] /\ lock' = FALSE
        /\ UNCHANGED <<row, audit, files, hist, now, crashes, ghost>>
    BY <1>6 DEF Release, Exit, Step
  <2>2. JobsOK' /\ KeptOK'
    BY <2>1, Exited
  <2> QED BY <1>0, <2>1, <2>2, DataWorld DEF TypeInv
<1> QED BY <1>1, <1>1a, <1>1b, <1>2, <1>3, <1>4, <1>5, <1>6 DEF CollectingStep

LEMMA TypingNext == TypeInv /\ [Next]_vars => TypeInv'
<1> SUFFICES ASSUME TypeInv, [Next]_vars PROVE TypeInv'
  OBVIOUS
<1>0. DataOK /\ now \in Time /\ crashes \in 0..MaxCrash /\ lock \in BOOLEAN
  BY DEF TypeInv, DataOK
<1>1. ASSUME NEW w \in Worker, ProcessStep(w) PROVE TypeInv'
  BY <1>1, DecidingTyped, HealingTyped, PatchingTyped, CollectingTyped DEF ProcessStep
<1>2. ASSUME NEW w \in Worker, Crash(w) PROVE TypeInv'
  <2>1. pc' = [pc EXCEPT ![w] = "idle"] /\ job' = [job EXCEPT ![w] = NoJob]
        /\ UNCHANGED <<row, audit, files, hist, lock, now, ghost>>
    BY <1>2 DEF Crash, Exit, Step
  <2>2. crashes' \in 0..MaxCrash
    BY <1>0, <1>2, RunnerAssumption DEF Crash
  <2>3. JobsOK' /\ KeptOK'
    BY <2>1, Exited
  <2> QED BY <1>0, <2>1, <2>2, <2>3, DataWorld DEF TypeInv
<1>3. ASSUME UNCHANGED <<row, pc, job>> PROVE JobsOK' /\ KeptOK'
  BY <1>3 DEF TypeInv, JobsOK, KeptOK, ShapeAt, KeepsAt, Exists
<1>4. CASE ClearStaleLock
  BY <1>0, <1>3, <1>4, DataWorld DEF ClearStaleLock, TypeInv
<1>5. CASE Tick
  <2>1. now' \in Time
    BY <1>0, <1>5, TableAssumption DEF Tick, Time
  <2> QED BY <1>0, <1>3, <1>5, <2>1, DataWorld DEF Tick, TypeInv
<1>6. CASE UNCHANGED vars
  <2>1. UNCHANGED <<row, audit, files, world, ghost, pc, job>>
    BY <1>6 DEF vars, files, world, ghost
  <2> QED BY <1>0, <1>3, <2>1, DataSame DEF TypeInv
<1> QED BY <1>1, <1>2, <1>4, <1>5, <1>6 DEF Next

\* The inductive form of the type invariant holds of every reachable state:
\* each process holds at each program point what the code has given it by
\* then, and the requests it remembers exist.
THEOREM TypeInvariant == Spec => []TypeInv
BY TypingInit, TypingNext, PTL DEF Spec

\* Every variable stays in its type, with any number of processes and
\* requests and under any schedule, kills included.
THEOREM Typing == Spec => []TypeOK
BY TypeInvariant, TypeInvOK, PTL

-----------------------------------------------------------------------------
(* A process touches its own program counter and local variables only, and *)
(* keeps to its command while it runs.                                     *)

OwnStep(w) ==
    /\ \A v \in Worker \ {w} : pc'[v] = pc[v] /\ job'[v] = job[v]
    /\ pc[w] # "idle" /\ pc'[w] # "idle" =>
         job'[w].kind = job[w].kind /\ job'[w].id = job[w].id

LEMMA OwnExit ==
    ASSUME TypeInv, NEW w \in Worker, NEW from, Exit(w, from)
    PROVE  OwnStep(w)
BY DEF TypeInv, JobsOK, Exit, Step, OwnStep

LEMMA OwnStay ==
    ASSUME TypeInv, NEW w \in Worker, NEW from, NEW to, Step(w, from, to), job' = job
    PROVE  OwnStep(w)
BY DEF TypeInv, JobsOK, Step, OwnStep

LEMMA OwnMove ==
    ASSUME TypeInv, NEW w \in Worker, NEW from, NEW to, Step(w, from, to), NEW j,
           job' = [job EXCEPT ![w] = j],
           from = "idle" \/ (j.kind = job[w].kind /\ j.id = job[w].id)
    PROVE  OwnStep(w)
BY DEF TypeInv, JobsOK, Step, OwnStep

LEMMA OwnRunSite ==
    ASSUME TypeInv, NEW w \in Worker, NEW s, NEW from, RunSite(w, s, from)
    PROVE  OwnStep(w)
<1>0. job \in [Worker -> Job]
  BY DEF TypeInv, JobsOK
<1>1. ASSUME NEW r \in Results, RunSite(w, s, from)!1!(r) PROVE OwnStep(w)
  <2> DEFINE ok == job[w].kind = "approve" /\ r.records # "none"
             j == [job[w] EXCEPT !.site = s, !.ok = ok, !.todo = @ \ {s}]
  <2>1. job' = [job EXCEPT ![w] = j] /\ j.kind = job[w].kind /\ j.id = job[w].id
    BY <1>0, <1>1 DEF Job
  <2> HIDE DEF j
  <2> QED BY <1>1, <2>1, OwnMove
<1>2. CASE RunSite(w, s, from)!2
  <2> DEFINE j == [job[w] EXCEPT !.site = s, !.todo = @ \ {s}]
  <2>1. job' = [job EXCEPT ![w] = j] /\ j.kind = job[w].kind /\ j.id = job[w].id
    BY <1>0, <1>2 DEF Job
  <2> HIDE DEF j
  <2> QED BY <1>2, <2>1, OwnMove
<1> QED BY <1>1, <1>2 DEF RunSite

LEMMA OwnDeciding ==
    ASSUME TypeInv, NEW w \in Worker, DecidingStep(w) PROVE OwnStep(w)
<1>0. job \in [Worker -> Job]
  BY DEF TypeInv, JobsOK
<1>1. ASSUME NEW kind, NEW id, Begin(w, kind, id) PROVE OwnStep(w)
  BY <1>1, OwnMove DEF Begin
<1>2. CASE Get(w)
  <2> DEFINE j == [job[w] EXCEPT !.site = row[job[w].id].site]
  <2>1. job' = [job EXCEPT ![w] = j] /\ j.kind = job[w].kind /\ j.id = job[w].id
    BY <1>0, <1>2 DEF Get, Job
  <2> HIDE DEF j
  <2> QED BY <1>2, <2>1, OwnMove DEF Get
<1>3. CASE GetRefused(w) \/ RecheckRefused(w) \/ DecideLost(w)
  BY <1>3, OwnExit DEF GetRefused, RecheckRefused, DecideLost
<1>4. CASE Recheck(w) \/ Decide(w)
  BY <1>4, OwnStay DEF Recheck, Decide
<1>5. CASE AuditDecided(w)
  BY <1>5, OwnExit, OwnStay DEF AuditDecided
<1> QED BY <1>1, <1>2, <1>3, <1>4, <1>5 DEF DecidingStep

LEMMA OwnHealing ==
    ASSUME TypeInv, NEW w \in Worker, HealingStep(w) PROVE OwnStep(w)
<1>0. job \in [Worker -> Job]
  BY DEF TypeInv, JobsOK
<1>1. CASE HealHistory(w) \/ HealPending(w) \/ HealRejected(w) \/ HealLlm(w)
  BY <1>1, OwnStay
     DEF HealHistory, HealPending, HealRejected, HealLlm, HealGuard, HealSkip
<1>2. CASE Count(w) \/ Llm(w)
  BY <1>2, OwnStay, OwnExit DEF Count, Llm, HealGuard
<1>3. CASE Insert(w)
  <2>1. PICK id \in Id : Step(w, "insert", "audit_created")
                         /\ job' = [job EXCEPT ![w].new = id]
    BY <1>3 DEF Insert
  <2> DEFINE j == [job[w] EXCEPT !.new = id]
  <2>2. job' = [job EXCEPT ![w] = j] /\ j.kind = job[w].kind /\ j.id = job[w].id
    BY <1>0, <2>1 DEF Job
  <2> HIDE DEF j
  <2> QED BY <2>1, <2>2, OwnMove
<1>4. CASE AuditCreated(w)
  BY <1>4, OwnStay DEF AuditCreated
<1>5. CASE Post(w) \/ Attach(w)
  BY <1>5, OwnStay, OwnExit DEF Post, Attach, CardDone
<1> QED BY <1>1, <1>2, <1>3, <1>4, <1>5 DEF HealingStep

LEMMA OwnPatching ==
    ASSUME TypeInv, NEW w \in Worker, PatchingStep(w) PROVE OwnStep(w)
<1>0. job \in [Worker -> Job]
  BY DEF TypeInv, JobsOK
<1>1. CASE ReadConfig(w)
  <2> DEFINE j == [job[w] EXCEPT !.text = yaml[job[w].site]]
  <2>1. j.kind = job[w].kind /\ j.id = job[w].id
    BY <1>0 DEF Job
  <2>2. job' = [job EXCEPT ![w].text = yaml[job[w].site]] => job' = [job EXCEPT ![w] = j]
    BY <1>0
  <2> HIDE DEF j
  <2> QED BY <1>1, <2>1, <2>2, OwnMove, OwnStay DEF ReadConfig
<1>2. CASE BackupConfig(w)
  <2> DEFINE j == [job[w] EXCEPT !.stamp = now]
  <2>1. job' = [job EXCEPT ![w] = j] /\ j.kind = job[w].kind /\ j.id = job[w].id
    BY <1>0, <1>2 DEF BackupConfig, Job
  <2> HIDE DEF j
  <2> QED BY <1>2, <2>1, OwnMove DEF BackupConfig
<1>3. CASE \/ TruncateConfig(w, "truncate", "write") \/ WriteConfig(w) \/ AuditApplied(w)
           \/ TruncateConfig(w, "rb_truncate", "rb_write") \/ Rollback(w)
  BY <1>3, OwnStay DEF TruncateConfig, WriteConfig, AuditApplied, Rollback
<1>4. CASE AuditApplyFailed(w) \/ Report(w) \/ AuditRolledBack(w) \/ LoadConfigs(w)
  BY <1>4, OwnExit, OwnStay DEF AuditApplyFailed, Report, AuditRolledBack, LoadConfigs
<1>5. CASE Rerun(w)
  BY <1>5, OwnRunSite DEF Rerun
<1> QED BY <1>1, <1>2, <1>3, <1>4, <1>5 DEF PatchingStep

LEMMA OwnCollecting ==
    ASSUME TypeInv, NEW w \in Worker, CollectingStep(w) PROVE OwnStep(w)
<1>0. job \in [Worker -> Job]
  BY DEF TypeInv, JobsOK
<1>1. CASE Collect(w)
  BY <1>1, OwnMove DEF Collect
<1>2. CASE Acquire(w) \/ SweepUpdate(w)
  BY <1>2, OwnStay DEF Acquire, SweepUpdate
<1>3. CASE AcquireRefused(w) \/ Release(w)
  BY <1>3, OwnExit DEF AcquireRefused, Release
<1>4. CASE SweepSelect(w)
  <2> DEFINE j == [job[w] EXCEPT !.due = Due(row, now), !.stamp = now]
  <2>1. job' = [job EXCEPT ![w] = j] /\ j.kind = job[w].kind /\ j.id = job[w].id
    BY <1>0, <1>4 DEF SweepSelect, Job
  <2> HIDE DEF j
  <2> QED BY <1>4, <2>1, OwnMove DEF SweepSelect
<1>5. CASE SweepAudit(w)
  <2>1. PICK id \in job[w].due :
          /\ Step(w, "sweep_audit",
                  IF job[w].due = {id} THEN "next_site" ELSE "sweep_audit")
          /\ job' = [job EXCEPT ![w].due = @ \ {id}]
    BY <1>5 DEF SweepAudit
  <2> DEFINE j == [job[w] EXCEPT !.due = @ \ {id}]
  <2>2. job' = [job EXCEPT ![w] = j] /\ j.kind = job[w].kind /\ j.id = job[w].id
    BY <1>0, <2>1 DEF Job
  <2> HIDE DEF j
  <2> QED BY <2>1, <2>2, OwnMove
<1>6. CASE CollectSite(w)
  BY <1>6, OwnRunSite DEF CollectSite
<1> QED BY <1>1, <1>2, <1>3, <1>4, <1>5, <1>6 DEF CollectingStep

LEMMA Own ==
    ASSUME TypeInv, NEW w \in Worker, ProcessStep(w) \/ Crash(w) PROVE OwnStep(w)
BY OwnDeciding, OwnHealing, OwnPatching, OwnCollecting, OwnExit DEF ProcessStep, Crash

-----------------------------------------------------------------------------
(* No request is deleted, and one that is decided stays so.                *)

Settled(t, id) == t[id].status \notin {"none", "pending"}

Onward(t, u) ==
    \A id \in Id : /\ Exists(t, id) => Exists(u, id)
                   /\ Settled(t, id) => Settled(u, id)

LEMMA OnwardSame == ASSUME row' = row PROVE Onward(row, row')
BY DEF Onward

LEMMA OnwardUpdate ==
    ASSUME TypeInv, NEW id \in Id, NEW kind \in {"approve", "reject", "regenerate"},
           row' = UpdateStatus(row, id, DecisionOf(kind), now)
    PROVE  Onward(row, row') /\ (Matches(row, id) => Settled(row', id))
<1>1. row \in [Id -> Row]
  BY DEF TypeInv, DataOK
<1>2. DecisionOf(kind) \in Decision
  BY DEF DecisionOf, Decision
<1> QED
  BY <1>1, <1>2
     DEF UpdateStatus, Onward, Exists, Settled, Row, Decision, Matches

LEMMA OnwardDeciding ==
    ASSUME TypeInv, NEW w \in Worker, DecidingStep(w) PROVE Onward(row, row')
<1>1. CASE Decide(w) \/ DecideLost(w)
  <2>1. pc[w] = "cas" /\ ShapeAt(pc[w], job[w])
    BY <1>1 DEF Decide, DecideLost, Exit, Step, TypeInv, JobsOK
  <2>2. job[w].kind \in {"approve", "reject", "regenerate"} /\ job[w].id \in Id
    BY <2>1 DEF ShapeAt, DecidePC
  <2>3. row' = UpdateStatus(row, job[w].id, DecisionOf(job[w].kind), now)
    BY <1>1 DEF Decide, DecideLost
  <2> QED BY <2>2, <2>3, OnwardUpdate
<1>2. CASE row' = row
  BY <1>2, OnwardSame
<1> QED
  BY <1>1, <1>2
     DEF DecidingStep, Begin, Get, GetRefused, Recheck, RecheckRefused, AuditDecided

LEMMA OnwardHealing ==
    ASSUME TypeInv, NEW w \in Worker, HealingStep(w) PROVE Onward(row, row')
<1>0. row \in [Id -> Row]
  BY DEF TypeInv, DataOK
<1>1. CASE Insert(w)
  <2>1. PICK id \in Id : /\ IsNextId(row, id)
                         /\ \E run : row' = Inserted(row, id, job[w].site, run, now)
    BY <1>1 DEF Insert
  <2> QED BY <1>0, <2>1 DEF IsNextId, Inserted, Onward, Exists, Settled, Row
<1>2. CASE Attach(w)
  BY <1>0, <1>2 DEF Attach, AttachSlack, Onward, Exists, Settled, Row
<1>3. CASE row' = row
  BY <1>3, OnwardSame
<1> QED
  BY <1>1, <1>2, <1>3
     DEF HealingStep, HealHistory, HealPending, HealRejected, HealLlm, HealGuard,
         HealSkip, Count, Llm, AuditCreated, Post

LEMMA OnwardCollecting ==
    ASSUME TypeInv, NEW w \in Worker, CollectingStep(w) PROVE Onward(row, row')
<1>0. row \in [Id -> Row]
  BY DEF TypeInv, DataOK
<1>1. CASE SweepUpdate(w)
  BY <1>0, <1>1 DEF SweepUpdate, Expire, Onward, Exists, Settled, Row
<1>2. CASE row' = row
  BY <1>2, OnwardSame
<1> QED
  BY <1>1, <1>2
     DEF CollectingStep, Collect, Acquire, AcquireRefused, SweepSelect, SweepAudit,
         CollectSite, Release

LEMMA OnwardNext == ASSUME TypeInv, [Next]_vars PROVE Onward(row, row')
<1>1. ASSUME NEW w \in Worker, PatchingStep(w) PROVE row' = row
  BY <1>1
     DEF PatchingStep, ReadConfig, AuditApplyFailed, BackupConfig, TruncateConfig,
         WriteConfig, AuditApplied, LoadConfigs, Rerun, Report, Rollback,
         AuditRolledBack
<1>2. ASSUME NEW w \in Worker, ProcessStep(w) PROVE Onward(row, row')
  BY <1>1, <1>2, OnwardSame, OnwardDeciding, OnwardHealing, OnwardCollecting
     DEF ProcessStep
<1>3. CASE \/ \E w \in Worker : Crash(w)
           \/ ClearStaleLock \/ Tick \/ UNCHANGED vars
  BY <1>3, OnwardSame DEF Crash, ClearStaleLock, Tick, vars
<1> QED BY <1>2, <1>3 DEF Next
=============================================================================
