--------------------------- MODULE DecisionProofs ---------------------------
(***************************************************************************)
(* A request is decided once as far as operators are concerned: its patch  *)
(* is applied at most once, the audit log tells one consistent story, and  *)
(* no file holds a patch without an approval in that log, whatever         *)
(* processes race and whichever of them are killed.  As long as none is    *)
(* killed where that matters, the log is complete as well, and so is the   *)
(* verification of the configs.  The run lock keeps automatic healing to   *)
(* one open request per site.                                              *)
(***************************************************************************)
EXTENDS TypingProofs

\* A process that stands here has decided its request and has not yet used
\* the decision: it has not logged it, or not yet written the patch.
Won(p, j) ==
    \/ p = "audit_decided"
    \/ j.kind = "approve" /\ p \in {"read", "backup", "truncate", "write"}

WonAt(w) == Won(pc[w], job[w])

\* What was won stays decided, for one process only.
WonDecided ==
    \A w \in Worker : WonAt(w) =>
        row[job[w].id].status \in {DecisionOf(job[w].kind), "expired"}

WonOnce ==
    \A v, w \in Worker : WonAt(v) /\ WonAt(w) /\ job[v].id = job[w].id => v = w

\* A patch that is still to be written has not been written before.
WonFresh ==
    \A w \in Worker : WonAt(w) /\ job[w].kind = "approve" => applied[job[w].id] = 0

\* A decision that is still to be logged is the first one.
WonUnlogged ==
    \A w \in Worker : pc[w] = "audit_decided" =>
        \A d \in Decision : <<d, job[w].id>> \notin audit

\* Nothing has happened to a request that is not decided.
OpenUntouched ==
    \A id \in Id : row[id].status \in {"none", "pending"} =>
        /\ applied[id] = 0
        /\ \A e \in Decision \cup {"expired"} : <<e, id>> \notin audit

\* The expiries that are still to be logged have been stored.
SweptExpired ==
    \A w \in Worker : pc[w] = "sweep_audit" =>
        \A id \in job[w].due : row[id].status = "expired"

Told ==
    /\ AppliedAtMostOnce
    /\ OneOperatorDecision
    /\ AuditBearsOut

DecisionInv ==
    /\ WonDecided
    /\ WonOnce
    /\ WonFresh
    /\ WonUnlogged
    /\ OpenUntouched
    /\ SweptExpired
    /\ Told

LEMMA DecisionInit == Init => DecisionInv
<1> SUFFICES ASSUME Init PROVE DecisionInv
  OBVIOUS
<1>1. \A w \in Worker : ~WonAt(w) /\ pc[w] = "idle"
  BY DEF Init, WonAt, Won, NoJob
<1>2. audit = {} /\ \A id \in Id : applied[id] = 0
  BY DEF Init
<1>3. WonDecided /\ WonOnce /\ WonFresh /\ WonUnlogged /\ SweptExpired
  BY <1>1 DEF WonDecided, WonOnce, WonFresh, WonUnlogged, SweptExpired
<1>4. OpenUntouched
  BY <1>2 DEF OpenUntouched
<1>5. Told
  BY <1>2 DEF Told, AppliedAtMostOnce, OneOperatorDecision, AuditBearsOut
<1> QED BY <1>3, <1>4, <1>5 DEF DecisionInv

-----------------------------------------------------------------------------
(* A step that neither decides a request, nor logs it, nor uses it. *)

SameStatus == \A id \in Id : row'[id].status = row[id].status

SameVerdicts ==
    \A e \in Decision \cup {"expired"}, id \in Id :
        <<e, id>> \in audit' <=> <<e, id>> \in audit

LEMMA CalmStep ==
    ASSUME TypeInv, DecisionInv, NEW w \in Worker, NEW p, NEW j,
           pc' = [pc EXCEPT ![w] = p], job' = [job EXCEPT ![w] = j],
           Won(p, j) => WonAt(w) /\ j.id = job[w].id /\ j.kind = job[w].kind,
           p = "audit_decided" => pc[w] = "audit_decided",
           p = "sweep_audit" => pc[w] = "sweep_audit" /\ j.due \subseteq job[w].due,
           SameStatus, SameVerdicts, applied' = applied
    PROVE  DecisionInv'
<1>0. pc \in [Worker -> PC] /\ job \in [Worker -> Job]
  BY DEF TypeInv, JobsOK
<1>1. ASSUME NEW v \in Worker
      PROVE  /\ WonAt(v)' => /\ WonAt(v)
                             /\ job'[v].id = job[v].id
                             /\ job'[v].kind = job[v].kind
             /\ pc'[v] = "audit_decided" => pc[v] = "audit_decided"
             /\ pc'[v] = "sweep_audit" =>
                  pc[v] = "sweep_audit" /\ job'[v].due \subseteq job[v].due
  <2>1. CASE v = w
    <3>1. pc'[v] = p /\ job'[v] = j
      BY <1>0, <2>1
    <3> QED BY <2>1, <3>1 DEF WonAt
  <2>2. CASE v # w
    <3>1. pc'[v] = pc[v] /\ job'[v] = job[v]
      BY <1>0, <2>2
    <3> QED BY <3>1 DEF WonAt
  <2> QED BY <2>1, <2>2
<1>2. \A v \in Worker : job[v].due \subseteq Id /\ (WonAt(v) => job[v].id \in Id)
  BY <1>0 DEF Job, TypeInv, JobsOK, ShapeAt, WonAt, Won, DecidePC
<1>3. WonDecided'
  BY <1>1, <1>2 DEF DecisionInv, WonDecided, SameStatus
<1>4. WonOnce'
  BY <1>1 DEF DecisionInv, WonOnce
<1>5. WonFresh'
  BY <1>1 DEF DecisionInv, WonFresh
<1>6. WonUnlogged'
  BY <1>1, <1>2 DEF DecisionInv, WonUnlogged, SameVerdicts, WonAt, Won
<1>7. OpenUntouched'
  BY DEF DecisionInv, OpenUntouched, SameStatus, SameVerdicts
<1>8. SweptExpired'
  BY <1>1, <1>2 DEF DecisionInv, SweptExpired, SameStatus
<1>9. Told'
  BY DEF DecisionInv, Told, AppliedAtMostOnce, OneOperatorDecision, AuditBearsOut,
         SameStatus, SameVerdicts
<1> QED BY <1>3, <1>4, <1>5, <1>6, <1>7, <1>8, <1>9 DEF DecisionInv

\* A program point that is of no interest here.
Calm == PC \ {"audit_decided", "read", "backup", "truncate", "write", "sweep_audit"}

LEMMA CalmMove ==
    ASSUME TypeInv, DecisionInv, NEW w \in Worker, NEW p \in Calm, NEW j,
           pc' = [pc EXCEPT ![w] = p], job' = [job EXCEPT ![w] = j],
           SameStatus, SameVerdicts, applied' = applied
    PROVE  DecisionInv'
<1>1. ~Won(p, j) /\ p \notin {"audit_decided", "sweep_audit"}
  BY DEF Calm, Won
<1> QED BY <1>1, CalmStep

LEMMA CalmStay ==
    ASSUME TypeInv, DecisionInv, NEW w \in Worker, NEW p \in Calm,
           pc' = [pc EXCEPT ![w] = p], job' = job,
           SameStatus, SameVerdicts, applied' = applied
    PROVE  DecisionInv'
<1>1. job' = [job EXCEPT ![w] = job[w]]
  BY DEF TypeInv, JobsOK
<1> QED BY <1>1, CalmMove

LEMMA CalmExit ==
    ASSUME TypeInv, DecisionInv, NEW w \in Worker, NEW from, Exit(w, from),
           SameStatus, SameVerdicts, applied' = applied
    PROVE  DecisionInv'
BY CalmMove DEF Exit, Step, Calm, PC

\* Events other than the closing of a request do not change the verdicts.
LEMMA SameVerdictsLog ==
    ASSUME NEW e \in Event \ (Decision \cup {"expired"}), NEW id, Log(e, id)
    PROVE  SameVerdicts
BY DEF Log, SameVerdicts

LEMMA Unchanged ==
    ASSUME UNCHANGED <<row, audit>> PROVE SameStatus /\ SameVerdicts
BY DEF SameStatus, SameVerdicts

-----------------------------------------------------------------------------
(* The steps that matter: a request is inserted, decided, swept or logged, *)
(* or its patch written.                                                   *)

\* What the steps below have in common.
Stand(w) ==
    /\ pc \in [Worker -> PC] /\ job \in [Worker -> Job] /\ row \in [Id -> Row]
    /\ ShapeAt(pc[w], job[w])
    /\ \A v \in Worker : job[v].due \subseteq Id /\ (WonAt(v) => job[v].id \in Id)

LEMMA Standing == ASSUME TypeInv, NEW w \in Worker PROVE Stand(w)
<1>1. pc \in [Worker -> PC] /\ job \in [Worker -> Job] /\ row \in [Id -> Row]
      /\ \A v \in Worker : ShapeAt(pc[v], job[v])
  BY DEF TypeInv, JobsOK, DataOK
<1>2. \A v \in Worker : job[v].due \subseteq Id /\ (WonAt(v) => job[v].id \in Id)
  BY <1>1 DEF Job, ShapeAt, WonAt, Won, DecidePC
<1> QED BY <1>1, <1>2 DEF Stand

LEMMA DecideInv ==
    ASSUME TypeInv, DecisionInv, NEW w \in Worker, Decide(w)
    PROVE  DecisionInv'
<1> DEFINE id == job[w].id
           d == DecisionOf(job[w].kind)
<1>0. Stand(w)
  BY Standing
<1>1. pc[w] = "cas" /\ pc' = [pc EXCEPT ![w] = "audit_decided"]
      /\ UNCHANGED <<audit, job, applied>> /\ row[id].status = "pending"
      /\ row' = UpdateStatus(row, id, d, now) /\ Matches(row, id)
  BY DEF Decide, Step, ghost, Matches, Pending
<1>2. id \in Id /\ d \in Decision /\ d \notin {"none", "pending", "expired"}
  BY <1>0, <1>1 DEF Stand, ShapeAt, DecidePC, DecisionOf, Decision
<1>3. \A i \in Id : row'[i].status = IF i = id THEN d ELSE row[i].status
  BY <1>0, <1>1, <1>2 DEF Stand, UpdateStatus, Row
<1>4. \A v \in Worker : WonAt(v) => v # w /\ job[v].id # id
  BY <1>0, <1>1 DEF WonAt, Won, DecisionInv, WonDecided, DecisionOf
<1>5. \A v \in Worker : /\ pc'[v] = IF v = w THEN "audit_decided" ELSE pc[v]
                        /\ WonAt(v)' => v = w \/ WonAt(v)
  BY <1>0, <1>1 DEF Stand, WonAt, Won
<1>6. applied[id] = 0 /\ \A e \in Decision \cup {"expired"} : <<e, id>> \notin audit
  BY <1>1, <1>2 DEF DecisionInv, OpenUntouched
<1> HIDE DEF id, d
<1>a. id = job[w].id /\ d = DecisionOf(job[w].kind)
  BY DEF id, d
<1>7. WonDecided'
  <2> SUFFICES ASSUME NEW v \in Worker, WonAt(v)'
               PROVE  row'[job[v].id].status \in {DecisionOf(job[v].kind), "expired"}
    BY <1>1 DEF WonDecided
  <2>1. CASE v = w
    BY <1>2, <1>3, <1>a, <2>1
  <2>2. CASE v # w
    BY <1>0, <1>3, <1>4, <1>5, <2>2 DEF Stand, DecisionInv, WonDecided
  <2> QED BY <2>1, <2>2
<1>8. WonOnce'
  BY <1>1, <1>4, <1>5, <1>a DEF DecisionInv, WonOnce
<1>9. WonFresh'
  BY <1>1, <1>5, <1>6, <1>a DEF DecisionInv, WonFresh
<1>10. WonUnlogged'
  BY <1>1, <1>5, <1>6, <1>a DEF DecisionInv, WonUnlogged
<1>11. OpenUntouched'
  BY <1>1, <1>2, <1>3 DEF DecisionInv, OpenUntouched
<1>12. SweptExpired'
  <2>1. \A v \in Worker : pc'[v] = "sweep_audit" => pc[v] = "sweep_audit"
    BY <1>5
  <2>2. \A i \in Id : row[i].status = "expired" => row'[i].status = "expired"
    BY <1>1, <1>3, <1>a
  <2> QED BY <1>0, <1>1, <2>1, <2>2 DEF Stand, DecisionInv, SweptExpired
<1>13. Told'
  <2>1. AuditBearsOut'
    BY <1>1, <1>3, <1>6 DEF DecisionInv, Told, AuditBearsOut
  <2> QED BY <1>1, <2>1 DEF DecisionInv, Told, AppliedAtMostOnce, OneOperatorDecision
<1> QED BY <1>7, <1>8, <1>9, <1>10, <1>11, <1>12, <1>13 DEF DecisionInv

LEMMA AuditDecidedInv ==
    ASSUME TypeInv, DecisionInv, NEW w \in Worker, AuditDecided(w)
    PROVE  DecisionInv'
<1> DEFINE id == job[w].id
           d == DecisionOf(job[w].kind)
<1>0. Stand(w)
  BY Standing
<1>1. pc[w] = "audit_decided" /\ audit' = audit \cup {<<d, id>>}
      /\ UNCHANGED <<row, applied>>
  BY DEF AuditDecided, Exit, Step, Log, ghost
<1>2. id \in Id /\ d \in Decision /\ row[id].status \in {d, "expired"} /\ WonAt(w)
      /\ (\A e \in Decision : <<e, id>> \notin audit) /\ "expired" \notin Decision
  BY <1>0, <1>1 DEF Stand, ShapeAt, DecidePC, DecisionOf, Decision, WonAt, Won,
       DecisionInv, WonDecided, WonUnlogged
<1>3. \A v \in Worker : /\ v # w => pc'[v] = pc[v] /\ job'[v] = job[v]
                        /\ pc'[w] \in {"read", "post", "idle"}
                        /\ WonAt(w)' => job'[w] = job[w]
  BY <1>0 DEF Stand, AuditDecided, Exit, Step, WonAt, Won, NoJob
<1>4. \A v \in Worker : WonAt(v)' => WonAt(v) /\ job'[v] = job[v]
  BY <1>2, <1>3 DEF WonAt
<1>5. \A v \in Worker : pc'[v] \in {"audit_decided", "sweep_audit"} =>
          v # w /\ pc'[v] = pc[v] /\ job'[v] = job[v]
  BY <1>3
<1> HIDE DEF id, d
<1>a. id = job[w].id
  BY DEF id
<1>6. WonDecided' /\ WonOnce' /\ WonFresh'
  BY <1>1, <1>4 DEF DecisionInv, WonDecided, WonOnce, WonFresh
<1>7. WonUnlogged'
  <2> SUFFICES ASSUME NEW v \in Worker, pc'[v] = "audit_decided", NEW e \in Decision
               PROVE  <<e, job'[v].id>> \notin audit'
    BY DEF WonUnlogged
  <2>1. v # w /\ pc[v] = "audit_decided" /\ WonAt(v) /\ job'[v] = job[v]
    BY <1>5 DEF WonAt, Won
  <2>2. job[v].id # id
    BY <1>2, <1>a, <2>1 DEF DecisionInv, WonOnce
  <2>3. <<e, job[v].id>> \notin audit
    BY <2>1 DEF DecisionInv, WonUnlogged
  <2> QED BY <1>1, <2>1, <2>2, <2>3
<1>8. OpenUntouched'
  BY <1>1, <1>2 DEF DecisionInv, OpenUntouched, Decision
<1>9. SweptExpired'
  BY <1>1, <1>5 DEF DecisionInv, SweptExpired
<1>10. AppliedAtMostOnce'
  BY <1>1 DEF DecisionInv, Told, AppliedAtMostOnce
<1>11. OneOperatorDecision'
  BY <1>1, <1>2 DEF DecisionInv, Told, OneOperatorDecision
<1>12. AuditBearsOut'
  BY <1>1, <1>2 DEF DecisionInv, Told, AuditBearsOut
<1> QED BY <1>6, <1>7, <1>8, <1>9, <1>10, <1>11, <1>12 DEF DecisionInv, Told

LEMMA InsertInv ==
    ASSUME TypeInv, DecisionInv, NEW w \in Worker, Insert(w)
    PROVE  DecisionInv'
<1>0. Stand(w)
  BY Standing
<1>1. PICK id \in Id : Insert(w)!(id)
  BY DEF Insert
<1>2. pc[w] = "insert" /\ pc' = [pc EXCEPT ![w] = "audit_created"]
      /\ UNCHANGED <<audit, applied>> /\ row[id].status = "none"
      /\ job' = [job EXCEPT ![w].new = id]
  BY <1>1 DEF Step, ghost, IsNextId, Exists
<1>3. \A i \in Id : row'[i].status = IF i = id THEN "pending" ELSE row[i].status
  BY <1>0, <1>1 DEF Stand, Inserted, NoRow
<1>4. \A v \in Worker : v # w => pc'[v] = pc[v] /\ job'[v] = job[v]
  BY <1>0, <1>2 DEF Stand
<1>5. pc'[w] = "audit_created"
  BY <1>0, <1>2 DEF Stand
<1>6. \A v \in Worker : WonAt(v)' => v # w /\ WonAt(v) /\ job'[v] = job[v]
                                   /\ pc'[v] = pc[v] /\ job[v].id # id
  BY <1>2, <1>4, <1>5 DEF WonAt, Won, DecisionInv, WonDecided, DecisionOf
<1>7. \A v \in Worker : pc'[v] \in {"audit_decided", "sweep_audit"} =>
          v # w /\ pc'[v] = pc[v] /\ job'[v] = job[v]
  BY <1>4, <1>5
<1>8. applied[id] = 0 /\ \A e \in Decision \cup {"expired"} : <<e, id>> \notin audit
  BY <1>2 DEF DecisionInv, OpenUntouched
<1>9. WonDecided' /\ WonOnce' /\ WonFresh' /\ WonUnlogged'
  BY <1>0, <1>2, <1>3, <1>6, <1>7
     DEF Stand, DecisionInv, WonDecided, WonOnce, WonFresh, WonUnlogged
<1>10. OpenUntouched'
  BY <1>2, <1>3, <1>8 DEF DecisionInv, OpenUntouched
<1>11. SweptExpired'
  BY <1>0, <1>2, <1>3, <1>7 DEF Stand, DecisionInv, SweptExpired
<1>12. Told'
  BY <1>2, <1>3, <1>8
     DEF DecisionInv, Told, AppliedAtMostOnce, OneOperatorDecision, AuditBearsOut
<1> QED BY <1>9, <1>10, <1>11, <1>12 DEF DecisionInv

LEMMA SweepUpdateInv ==
    ASSUME TypeInv, DecisionInv, NEW w \in Worker, SweepUpdate(w)
    PROVE  DecisionInv'
<1>0. Stand(w)
  BY Standing
<1>1. pc[w] = "sweep_update" /\ pc' = [pc EXCEPT ![w] = "sweep_audit"]
      /\ UNCHANGED <<audit, job, applied>> /\ row' = Expire(row, job[w].due, job[w].stamp)
  BY DEF SweepUpdate, Step, ghost
<1>2. \A i \in Id : row'[i].status = IF i \in job[w].due THEN "expired" ELSE row[i].status
  BY <1>0, <1>1 DEF Stand, Expire, Row
<1>3. \A v \in Worker : pc'[v] = IF v = w THEN "sweep_audit" ELSE pc[v]
  BY <1>0, <1>1 DEF Stand
<1>4. \A v \in Worker : WonAt(v)' => WonAt(v)
  BY <1>0, <1>1, <1>3 DEF WonAt, Won, Stand, ShapeAt, CollectPC
<1>5. WonDecided'
  BY <1>0, <1>1, <1>2, <1>4 DEF Stand, DecisionInv, WonDecided
<1>6. WonOnce' /\ WonFresh' /\ WonUnlogged'
  BY <1>1, <1>3, <1>4 DEF DecisionInv, WonOnce, WonFresh, WonUnlogged
<1>7. OpenUntouched'
  BY <1>1, <1>2 DEF DecisionInv, OpenUntouched
<1>8. SweptExpired'
  BY <1>0, <1>1, <1>2, <1>3 DEF Stand, DecisionInv, SweptExpired
<1>9. Told'
  BY <1>1, <1>2
     DEF DecisionInv, Told, AppliedAtMostOnce, OneOperatorDecision, AuditBearsOut
<1> QED BY <1>5, <1>6, <1>7, <1>8, <1>9 DEF DecisionInv

LEMMA SweepAuditInv ==
    ASSUME TypeInv, DecisionInv, NEW w \in Worker, SweepAudit(w)
    PROVE  DecisionInv'
<1>0. Stand(w)
  BY Standing
<1>1. PICK id \in job[w].due : SweepAudit(w)!(id)
  BY DEF SweepAudit
<1>2. pc[w] = "sweep_audit" /\ UNCHANGED <<row, applied>> /\ id \in Id
      /\ audit' = audit \cup {<<"expired", id>>} /\ row[id].status = "expired"
  BY <1>0, <1>1 DEF Step, ghost, Log, Stand, DecisionInv, SweptExpired
<1>3. \A v \in Worker : v # w => pc'[v] = pc[v] /\ job'[v] = job[v]
  BY <1>0, <1>1 DEF Stand, Step
<1>4. pc'[w] \in {"sweep_audit", "next_site"} /\ job'[w].due \subseteq job[w].due
      /\ job'[w].kind = job[w].kind /\ job[w].kind = "collect"
  BY <1>0, <1>1, <1>2 DEF Stand, Step, ShapeAt, CollectPC, Job
<1>5. \A v \in Worker : WonAt(v)' => v # w /\ WonAt(v) /\ job'[v] = job[v]
  BY <1>3, <1>4 DEF WonAt, Won
<1>6. \A v \in Worker :
          /\ pc'[v] = "audit_decided" => pc[v] = "audit_decided" /\ job'[v] = job[v]
          /\ pc'[v] = "sweep_audit" => pc[v] = "sweep_audit" /\ job'[v].due \subseteq job[v].due
  BY <1>2, <1>3, <1>4
<1>7. "expired" \notin Decision
  BY DEF Decision
<1>8. WonDecided' /\ WonOnce' /\ WonFresh'
  BY <1>2, <1>5 DEF DecisionInv, WonDecided, WonOnce, WonFresh
<1>9. WonUnlogged'
  BY <1>2, <1>6, <1>7 DEF DecisionInv, WonUnlogged
<1>10. OpenUntouched'
  BY <1>2 DEF DecisionInv, OpenUntouched
<1>11. SweptExpired'
  BY <1>2, <1>6 DEF DecisionInv, SweptExpired
<1>12. Told'
  BY <1>2, <1>7
     DEF DecisionInv, Told, AppliedAtMostOnce, OneOperatorDecision, AuditBearsOut
<1> QED BY <1>8, <1>9, <1>10, <1>11, <1>12 DEF DecisionInv

LEMMA WriteConfigInv ==
    ASSUME TypeInv, DecisionInv, NEW w \in Worker, WriteConfig(w)
    PROVE  DecisionInv'
<1> DEFINE id == job[w].id
<1>0. Stand(w)
  BY Standing
<1>1. pc[w] = "write" /\ pc' = [pc EXCEPT ![w] = "audit_applied"]
      /\ UNCHANGED <<row, audit, job>> /\ applied' = [applied EXCEPT ![id] = @ + 1]
  BY DEF WriteConfig, Step
<1>2. WonAt(w) /\ job[w].kind = "approve" /\ id \in Id
  BY <1>0, <1>1 DEF Stand, ShapeAt, ApplyPC, WonAt, Won
<1>3. \A v \in Worker : pc'[v] = IF v = w THEN "audit_applied" ELSE pc[v]
  BY <1>0, <1>1 DEF Stand
<1>4. \A v \in Worker : WonAt(v)' => v # w /\ WonAt(v) /\ job[v].id # id
  BY <1>1, <1>2, <1>3 DEF WonAt, Won, DecisionInv, WonOnce
<1>5. applied[id] = 0 /\ row[id].status \notin {"none", "pending"}
  BY <1>2 DEF DecisionInv, WonFresh, WonDecided, DecisionOf
<1>6. \A i \in Id : applied'[i] = IF i = id THEN 1 ELSE applied[i]
  BY <1>1, <1>2, <1>5 DEF TypeInv, DataOK
<1> HIDE DEF id
<1>7. WonDecided' /\ WonOnce'
  BY <1>1, <1>4 DEF DecisionInv, WonDecided, WonOnce
<1>8. WonFresh'
  BY <1>0, <1>1, <1>4, <1>6 DEF Stand, DecisionInv, WonFresh
<1>9. WonUnlogged' /\ SweptExpired'
  BY <1>1, <1>3 DEF DecisionInv, WonUnlogged, SweptExpired
<1>10. OpenUntouched'
  BY <1>1, <1>5, <1>6 DEF DecisionInv, OpenUntouched
<1>11. Told'
  BY <1>1, <1>6
     DEF DecisionInv, Told, AppliedAtMostOnce, OneOperatorDecision, AuditBearsOut
<1> QED BY <1>7, <1>8, <1>9, <1>10, <1>11 DEF DecisionInv

-----------------------------------------------------------------------------
(* All other steps are calm. *)

LEMMA DecidingInv ==
    ASSUME TypeInv, DecisionInv, NEW w \in Worker, DecidingStep(w)
    PROVE  DecisionInv'
<1>0. job \in [Worker -> Job]
  BY DEF TypeInv, JobsOK
<1>1. ASSUME NEW kind \in Kind \ {"collect"}, NEW id \in Id, Begin(w, kind, id)
      PROVE  DecisionInv'
  <2>1. pc' = [pc EXCEPT ![w] = "get"] /\ "get" \in Calm /\ UNCHANGED <<row, audit, applied>>
        /\ job' = [job EXCEPT ![w] = [NoJob EXCEPT !.kind = kind, !.id = id]]
    BY <1>1 DEF Begin, Step, Calm, PC, DecidePC, ghost
  <2> QED BY <2>1, CalmMove, Unchanged
<1>2. CASE Get(w)
  <2> DEFINE p == AfterGet(job[w].kind)
             j == [job[w] EXCEPT !.site = row[job[w].id].site]
  <2>1. pc' = [pc EXCEPT ![w] = p] /\ job' = [job EXCEPT ![w] = j]
        /\ UNCHANGED <<row, audit, applied>>
    BY <1>0, <1>2 DEF Get, Step, ghost
  <2>2. p \in Calm
    BY DEF AfterGet, Calm, PC, DecidePC, HealPC
  <2> HIDE DEF p, j
  <2> QED BY <2>1, <2>2, CalmMove, Unchanged
<1>3. CASE GetRefused(w) \/ RecheckRefused(w)
  BY <1>3, CalmExit, Unchanged DEF GetRefused, RecheckRefused, ghost
<1>4. CASE Recheck(w)
  <2>1. pc' = [pc EXCEPT ![w] = "cas"] /\ "cas" \in Calm /\ job' = job
        /\ UNCHANGED <<row, audit, applied>>
    BY <1>4 DEF Recheck, Step, Calm, PC, DecidePC, ghost
  <2> QED BY <2>1, CalmStay, Unchanged
<1>5. CASE DecideLost(w)
  BY <1>5, CalmExit, Unchanged DEF DecideLost, UpdateStatus, ghost
<1> QED BY <1>1, <1>2, <1>3, <1>4, <1>5, DecideInv, AuditDecidedInv DEF DecidingStep

LEMMA AfterRunCalm == ASSUME NEW w, NEW ok PROVE AfterRun(w, ok) \in Calm
BY DEF AfterRun, Calm, PC, ApplyPC, CollectPC

LEMMA HealingInv ==
    ASSUME TypeInv, DecisionInv, NEW w \in Worker, HealingStep(w)
    PROVE  DecisionInv'
<1>1. ASSUME NEW from, HealSkip(w, from) PROVE DecisionInv'
  <2>1. pc' = [pc EXCEPT ![w] = AfterRun(w, job[w].ok)] /\ job' = job
        /\ UNCHANGED <<row, audit, applied>>
    BY <1>1 DEF HealSkip, Step, ghost
  <2> QED BY <2>1, AfterRunCalm, CalmStay, Unchanged
<1>2. ASSUME NEW from, NEW to \in Calm, HealGuard(w, from, to) PROVE DecisionInv'
  <2>1. pc' = [pc EXCEPT ![w] = to] /\ job' = job /\ UNCHANGED <<row, audit, applied>>
    BY <1>2 DEF HealGuard, Step, ghost
  <2> QED BY <2>1, CalmStay, Unchanged
<1>3. {"heal_pending", "heal_rejected", "heal_llm", "insert", "llm", "decide", "attach",
       "post"} \subseteq Calm
  BY DEF Calm, PC, HealPC, DecidePC
<1>4. CASE HealHistory(w) \/ HealPending(w) \/ HealRejected(w) \/ HealLlm(w)
  BY <1>1, <1>2, <1>3, <1>4 DEF HealHistory, HealPending, HealRejected, HealLlm
<1>5. CASE Count(w) \/ Llm(w)
  <2>1. CASE (Exit(w, "count") \/ Exit(w, "llm")) /\ UNCHANGED <<row, audit, files, world, ghost>>
    BY <2>1, CalmExit, Unchanged DEF ghost
  <2> QED BY <1>2, <1>3, <1>5, <2>1 DEF Count, Llm
<1>6. CASE AuditCreated(w)
  <2> DEFINE p == IF job[w].kind = "regenerate" THEN "decide" ELSE "post"
  <2>1. pc' = [pc EXCEPT ![w] = p] /\ job' = job /\ Log("created", job[w].new)
        /\ UNCHANGED <<row, applied>> /\ p \in Calm
    BY <1>3, <1>6 DEF AuditCreated, Step, ghost
  <2>2. SameVerdicts
    BY <2>1, SameVerdictsLog DEF Decision, Event
  <2>3. SameStatus
    BY <2>1 DEF SameStatus
  <2> HIDE DEF p
  <2> QED BY <2>1, <2>2, <2>3, CalmStay
<1>7. ASSUME NEW from, CardDone(w, from), SameStatus, SameVerdicts, applied' = applied
      PROVE  DecisionInv'
  <2>1. CASE Exit(w, from)
    BY <1>7, <2>1, CalmExit
  <2>2. CASE Step(w, from, AfterRun(w, job[w].ok)) /\ job' = job
    BY <1>7, <2>2, AfterRunCalm, CalmStay DEF Step
  <2> QED BY <1>7, <2>1, <2>2 DEF CardDone
<1>8. CASE Post(w)
  <2>1. UNCHANGED <<row, audit, applied>>
    BY <1>8 DEF Post, ghost
  <2>2. CASE Step(w, "post", "attach") /\ job' = job
    BY <1>3, <2>1, <2>2, CalmStay, Unchanged DEF Step
  <2> QED BY <1>7, <1>8, <2>1, <2>2, Unchanged DEF Post
<1>9. CASE Attach(w)
  <2>1. UNCHANGED <<audit, applied>> /\ row' = AttachSlack(row, job[w].new)
        /\ CardDone(w, "attach")
    BY <1>9 DEF Attach, ghost
  <2>2. row \in [Id -> Row]
    BY DEF TypeInv, DataOK
  <2>3. SameStatus
    BY <2>1, <2>2 DEF AttachSlack, SameStatus, Row
  <2>4. SameVerdicts
    BY <2>1 DEF SameVerdicts
  <2> QED BY <1>7, <2>1, <2>3, <2>4
<1> QED BY <1>4, <1>5, <1>6, <1>8, <1>9, InsertInv DEF HealingStep

LEMMA RunSiteInv ==
    ASSUME TypeInv, DecisionInv, NEW w \in Worker, NEW s, NEW from, RunSite(w, s, from),
           UNCHANGED <<row, audit, applied>>
    PROVE  DecisionInv'
<1>0. job \in [Worker -> Job]
  BY DEF TypeInv, JobsOK
<1>1. "heal_history" \in Calm
  BY DEF Calm, PC, HealPC
<1>2. ASSUME NEW r \in Results, RunSite(w, s, from)!1!(r) PROVE DecisionInv'
  <2> DEFINE ok == job[w].kind = "approve" /\ r.records # "none"
             p == IF r.status = "failed" THEN "heal_history" ELSE AfterRun(w, ok)
             j == [job[w] EXCEPT !.site = s, !.ok = ok, !.todo = @ \ {s}]
  <2>1. pc' = [pc EXCEPT ![w] = p] /\ job' = [job EXCEPT ![w] = j]
    BY <1>0, <1>2 DEF Step
  <2>2. p \in Calm
    BY <1>1, AfterRunCalm
  <2> HIDE DEF p, j
  <2> QED BY <2>1, <2>2, CalmMove, Unchanged
<1>3. CASE RunSite(w, s, from)!2
  <2> DEFINE j == [job[w] EXCEPT !.site = s, !.todo = @ \ {s}]
  <2>1. pc' = [pc EXCEPT ![w] = AfterRun(w, FALSE)] /\ job' = [job EXCEPT ![w] = j]
    BY <1>0, <1>3 DEF Step
  <2> HIDE DEF j
  <2> QED BY <2>1, AfterRunCalm, CalmMove, Unchanged
<1> QED BY <1>2, <1>3 DEF RunSite

LEMMA PatchingInv ==
    ASSUME TypeInv, DecisionInv, NEW w \in Worker, PatchingStep(w)
    PROVE  DecisionInv'
<1>0. job \in [Worker -> Job] /\ ShapeAt(pc[w], job[w])
  BY DEF TypeInv, JobsOK
<1>1. {"audit_failed", "audit_applied", "load", "rerun", "report", "rb_truncate",
       "rb_write", "audit_rolled_back"} \subseteq Calm
  BY DEF Calm, PC, ApplyPC
<1>2. pc[w] \in {"read", "backup", "truncate"} => WonAt(w)
  BY <1>0 DEF WonAt, Won, ShapeAt, ApplyPC
<1>3. CASE ReadConfig(w)
  <2> DEFINE j == [job[w] EXCEPT !.text = yaml[job[w].site]]
  <2>1. UNCHANGED <<row, audit, applied>>
    BY <1>3 DEF ReadConfig, ghost
  <2>2. CASE Step(w, "read", "audit_failed") /\ job' = job
    BY <1>1, <2>1, <2>2, CalmStay, Unchanged DEF Step
  <2>3. CASE Step(w, "read", "backup") /\ job' = [job EXCEPT ![w].text = yaml[job[w].site]]
    <3>1. pc[w] = "read" /\ pc' = [pc EXCEPT ![w] = "backup"] /\ job' = [job EXCEPT ![w] = j]
          /\ j.id = job[w].id /\ j.kind = job[w].kind
      BY <1>0, <2>3 DEF Step, Job
    <3> HIDE DEF j
    <3> QED BY <1>2, <2>1, <3>1, CalmStep, Unchanged
  <2> QED BY <1>3, <2>2, <2>3 DEF ReadConfig
<1>4. CASE BackupConfig(w)
  <2> DEFINE j == [job[w] EXCEPT !.stamp = now]
  <2>1. pc[w] = "backup" /\ pc' = [pc EXCEPT ![w] = "truncate"] /\ job' = [job EXCEPT ![w] = j]
        /\ j.id = job[w].id /\ j.kind = job[w].kind /\ UNCHANGED <<row, audit, applied>>
    BY <1>0, <1>4 DEF BackupConfig, Step, ghost, Job
  <2> HIDE DEF j
  <2> QED BY <1>2, <2>1, CalmStep, Unchanged
<1>5. CASE TruncateConfig(w, "truncate", "write")
  <2>1. pc[w] = "truncate" /\ pc' = [pc EXCEPT ![w] = "write"]
        /\ job' = [job EXCEPT ![w] = job[w]] /\ UNCHANGED <<row, audit, applied>>
    BY <1>0, <1>5 DEF TruncateConfig, Step, ghost
  <2> QED BY <1>2, <2>1, CalmStep, Unchanged
<1>6. CASE AuditApplyFailed(w) \/ AuditRolledBack(w)
  <2>1. PICK from \in {"audit_failed", "audit_rolled_back"},
             e \in {"apply_failed", "rolled_back"} :
          Exit(w, from) /\ Log(e, job[w].id) /\ UNCHANGED <<row, applied>>
    BY <1>6 DEF AuditApplyFailed, AuditRolledBack
  <2>2. SameVerdicts
    BY <2>1, SameVerdictsLog DEF Decision, Event
  <2>3. SameStatus
    BY <2>1 DEF SameStatus
  <2> QED BY <2>1, <2>2, <2>3, CalmExit
<1>7. CASE AuditApplied(w)
  <2>1. pc' = [pc EXCEPT ![w] = "load"] /\ job' = job /\ Log("applied", job[w].id)
        /\ UNCHANGED <<row, applied>>
    BY <1>7 DEF AuditApplied, Step, ghost
  <2>2. SameVerdicts
    BY <2>1, SameVerdictsLog DEF Decision, Event
  <2>3. SameStatus
    BY <2>1 DEF SameStatus
  <2> QED BY <1>1, <2>1, <2>2, <2>3, CalmStay
<1>8. CASE LoadConfigs(w) \/ TruncateConfig(w, "rb_truncate", "rb_write") \/ Rollback(w)
  <2>1. UNCHANGED <<row, audit, applied>>
    BY <1>8 DEF LoadConfigs, TruncateConfig, Rollback, ghost
  <2>2. CASE Exit(w, "load")
    BY <2>1, <2>2, CalmExit, Unchanged
  <2>3. CASE ~Exit(w, "load")
    <3>1. job' = job /\ \E to \in Calm : pc' = [pc EXCEPT ![w] = to]
      BY <1>1, <1>8, <2>3 DEF LoadConfigs, TruncateConfig, Rollback, Step
    <3> QED BY <2>1, <3>1, CalmStay, Unchanged
  <2> QED BY <2>2, <2>3
<1>9. CASE Rerun(w)
  BY <1>9, RunSiteInv DEF Rerun, ghost
<1>10. CASE Report(w)
  BY <1>10, CalmExit, Unchanged DEF Report
<1> QED BY <1>3, <1>4, <1>5, <1>6, <1>7, <1>8, <1>9, <1>10, WriteConfigInv DEF PatchingStep

LEMMA CollectingInv ==
    ASSUME TypeInv, DecisionInv, NEW w \in Worker, CollectingStep(w)
    PROVE  DecisionInv'
<1>0. job \in [Worker -> Job]
  BY DEF TypeInv, JobsOK
<1>1. {"acquire", "sweep", "sweep_update", "next_site"} \subseteq Calm
  BY DEF Calm, PC, CollectPC
<1>2. CASE Collect(w)
  <2>1. PICK plan \in (SUBSET Site) \ {{}} :
          job' = [job EXCEPT ![w] = [NoJob EXCEPT !.kind = "collect", !.todo = plan]]
    BY <1>2 DEF Collect
  <2>2. pc' = [pc EXCEPT ![w] = "acquire"] /\ UNCHANGED <<row, audit, applied>>
    BY <1>2 DEF Collect, Step, ghost
  <2> QED BY <1>1, <2>1, <2>2, CalmMove, Unchanged
<1>2a. CASE Acquire(w)
  BY <1>1, <1>2a, CalmStay, Unchanged DEF Acquire, Step, ghost
<1>2b. CASE AcquireRefused(w)
  BY <1>2b, CalmExit, Unchanged DEF AcquireRefused, ghost
<1>3. CASE SweepSelect(w)
  <2> DEFINE p == IF Due(row, now) = {} THEN "next_site" ELSE "sweep_update"
             j == [job[w] EXCEPT !.due = Due(row, now), !.stamp = now]
  <2>1. pc' = [pc EXCEPT ![w] = p] /\ job' = [job EXCEPT ![w] = j]
        /\ UNCHANGED <<row, audit, applied>> /\ p \in Calm
    BY <1>0, <1>1, <1>3 DEF SweepSelect, Step, ghost
  <2> HIDE DEF p, j
  <2> QED BY <2>1, CalmMove, Unchanged
<1>4. CASE CollectSite(w)
  BY <1>4, RunSiteInv DEF CollectSite, ghost
<1>5. CASE Release(w)
  BY <1>5, CalmExit, Unchanged DEF Release, ghost
<1> QED BY <1>2, <1>2a, <1>2b, <1>3, <1>4, <1>5, SweepUpdateInv, SweepAuditInv DEF CollectingStep

LEMMA DecisionNext == TypeInv /\ DecisionInv /\ [Next]_vars => DecisionInv'
<1> SUFFICES ASSUME TypeInv, DecisionInv, [Next]_vars PROVE DecisionInv'
  OBVIOUS
<1>1. ASSUME NEW w \in Worker, ProcessStep(w) PROVE DecisionInv'
  BY <1>1, DecidingInv, HealingInv, PatchingInv, CollectingInv DEF ProcessStep
<1>2. ASSUME NEW w \in Worker, Crash(w) PROVE DecisionInv'
  BY <1>2, CalmExit, Unchanged DEF Crash, ghost
<1>3. CASE ClearStaleLock \/ Tick \/ UNCHANGED vars
  <2>1. UNCHANGED <<row, audit, applied, pc, job>>
    BY <1>3 DEF ClearStaleLock, Tick, vars, ghost
  <2> QED BY <2>1
      DEF DecisionInv, WonDecided, WonOnce, WonFresh, WonUnlogged, OpenUntouched,
          SweptExpired, Told, AppliedAtMostOnce, OneOperatorDecision, AuditBearsOut,
          WonAt
<1> QED BY <1>1, <1>2, <1>3 DEF Next

LEMMA DecisionInvariant == Spec => []DecisionInv
BY DecisionInit, DecisionNext, TypeInvariant, PTL DEF Spec

LEMMA DecisionInvTold ==
    DecisionInv => AppliedAtMostOnce /\ OneOperatorDecision /\ AuditBearsOut
BY DEF DecisionInv, Told

\* The patch of a request is written at most once, however many processes are
\* told to approve it and whichever are killed: update_status lets one past.
THEOREM AppliedOnce == Spec => []AppliedAtMostOnce
BY DecisionInvariant, DecisionInvTold, PTL

\* The audit log records at most one operator decision about a request.
THEOREM DecisionLoggedOnce == Spec => []OneOperatorDecision
BY DecisionInvariant, DecisionInvTold, PTL

\* What the audit log says was decided or expired, the table says too.
THEOREM AuditTrustworthy == Spec => []AuditBearsOut
BY DecisionInvariant, DecisionInvTold, PTL

-----------------------------------------------------------------------------
(* The statements of all the processes implement the lifecycle of each     *)
(* request.  A process carries a request while its patch may be written.   *)

Carries(p, j) == j.kind = "approve" /\ p \in Carrying
CarriesAt(w) == Carries(pc[w], job[w])
Carried == {id \in Id : \E w \in Worker : /\ job[w].kind = "approve"
                                          /\ job[w].id = id
                                          /\ pc[w] \in Carrying}

LStatus == [id \in Id |-> row[id].status]

LEMMA StatusSame == SameStatus => LStatus' = LStatus
BY DEF SameStatus, LStatus

\* One process carries a request at most, and it has won it.
LEMMA CarriedOnce ==
    ASSUME TypeInv, DecisionInv, NEW v \in Worker, NEW w \in Worker, CarriesAt(v), CarriesAt(w),
           job[v].id = job[w].id
    PROVE  v = w
BY DEF CarriesAt, Carries, Carrying, DecisionInv, WonOnce, WonAt, Won

LEMMA CarriedKnown ==
    ASSUME TypeInv, NEW w \in Worker, CarriesAt(w) PROVE job[w].id \in Id /\ job[w].id \in Carried
BY DEF TypeInv, JobsOK, ShapeAt, CarriesAt, Carries, Carried

\* A step of another process, and what a step of w leaves of the carried.
LEMMA CarriedStep ==
    ASSUME NEW w \in Worker, OwnStep(w), NEW id \in Id, NEW v \in Worker,
           v # w \/ (CarriesAt(w) <=> CarriesAt(w)')
    PROVE  CarriesAt(v)' /\ job'[v].id = id <=> CarriesAt(v) /\ job[v].id = id
<1>1. CASE v # w
  BY <1>1 DEF OwnStep, CarriesAt
<1>2. CASE v = w
  BY <1>2 DEF OwnStep, CarriesAt, Carries, Carrying
<1> QED BY <1>1, <1>2

LEMMA Stutters ==
    ASSUME TypeInv, NEW w \in Worker, OwnStep(w), SameStatus, applied' = applied,
           CarriesAt(w) <=> CarriesAt(w)'
    PROVE  UNCHANGED Lifecycle!lvars
<1>1. Carried' = Carried
  BY CarriedStep DEF Carried, CarriesAt, Carries
<1> QED BY <1>1, StatusSame DEF Lifecycle!lvars, LStatus, Carried

LEMMA Lapses ==
    ASSUME TypeInv, DecisionInv, NEW w \in Worker, OwnStep(w), SameStatus, applied' = applied,
           CarriesAt(w), ~CarriesAt(w)'
    PROVE  Lifecycle!LNext
<1>1. job[w].id \in Id /\ job[w].id \in Carried
  BY CarriedKnown
<1>2. ASSUME NEW id \in Id PROVE id \in Carried' <=> id \in Carried \ {job[w].id}
  BY CarriedStep, CarriedOnce DEF Carried, CarriesAt, Carries
<1>3. Carried' = Carried \ {job[w].id}
  BY <1>2 DEF Carried
<1>4. PICK r \in Id : r = job[w].id
  BY <1>1
<1>5. Lifecycle!Lapse(r)
  BY <1>1, <1>3, <1>4, StatusSame DEF Lifecycle!Lapse, LStatus, Carried
<1> QED BY <1>5 DEF Lifecycle!LNext

\* A step between two program points at which nothing is carried.
LEMMA Empty ==
    ASSUME TypeInv, NEW w \in Worker, NEW from, from \notin Carrying,
           NEW to, to \notin Carrying, Step(w, from, to), OwnStep(w),
           SameStatus, applied' = applied
    PROVE  UNCHANGED Lifecycle!lvars
<1>1. ~CarriesAt(w) /\ ~CarriesAt(w)'
  BY DEF TypeInv, JobsOK, Step, CarriesAt, Carries
<1> QED BY <1>1, Stutters

-----------------------------------------------------------------------------

LEMMA DecideRefines ==
    ASSUME TypeInv, DecisionInv, NEW w \in Worker, OwnStep(w), Decide(w)
    PROVE  Lifecycle!LNext
<1> DEFINE d == DecisionOf(job[w].kind)
<1>0. Stand(w)
  BY Standing
<1>01. PICK id \in Id : id = job[w].id
  BY <1>0 DEF Stand, ShapeAt, DecidePC, Decide, Step
<1>1. pc[w] = "cas" /\ pc' = [pc EXCEPT ![w] = "audit_decided"]
      /\ UNCHANGED <<job, applied>> /\ row[id].status = "pending"
      /\ row' = UpdateStatus(row, id, d, now) /\ Matches(row, id)
  BY <1>01 DEF Decide, Step, ghost, Matches, Pending
<1>2. job[w].kind \in {"approve", "reject", "regenerate"}
  BY <1>0, <1>1 DEF Stand, ShapeAt, DecidePC
<1>3. \A i \in Id : row'[i].status = IF i = id THEN d ELSE row[i].status
  BY <1>0, <1>01, <1>1, <1>2 DEF Stand, UpdateStatus, Row
<1>4. LStatus' = [LStatus EXCEPT ![id] = d] /\ LStatus[id] = "pending"
  BY <1>1, <1>2, <1>3 DEF LStatus
<1>5. ~CarriesAt(w) /\ (CarriesAt(w)' <=> job[w].kind = "approve")
  BY <1>0, <1>1 DEF Stand, CarriesAt, Carries, Carrying
<1>6. CASE job[w].kind = "approve"
  <2>1. ASSUME NEW i \in Id PROVE i \in Carried' <=> i \in Carried \cup {id}
    BY <1>01, <1>1, <1>5, <1>6, CarriedStep DEF Carried, CarriesAt, Carries
  <2>2. Carried' = Carried \cup {id}
    BY <1>2, <2>1 DEF Carried
  <2>3. d = "approved"
    BY <1>6 DEF DecisionOf
  <2>4. Lifecycle!Approve(id)
    BY <1>1, <1>4, <2>2, <2>3 DEF Lifecycle!Approve, LStatus, Carried
  <2> QED BY <2>4 DEF Lifecycle!LNext
<1>7. CASE job[w].kind # "approve"
  <2>1. Carried' = Carried
    BY <1>5, <1>7, CarriedStep DEF Carried, CarriesAt, Carries
  <2>2. d \in {"rejected", "superseded"}
    BY <1>2, <1>7 DEF DecisionOf
  <2>3. Lifecycle!Close(id)
    BY <1>1, <1>4, <2>1, <2>2 DEF Lifecycle!Close, LStatus, Carried
  <2> QED BY <2>3 DEF Lifecycle!LNext
<1> QED BY <1>6, <1>7

LEMMA DecidingRefines ==
    ASSUME TypeInv, DecisionInv, NEW w \in Worker, OwnStep(w), DecidingStep(w)
    PROVE  [Lifecycle!LNext]_(Lifecycle!lvars)
<1>0. Stand(w)
  BY Standing
<1>1. ASSUME NEW kind, NEW id, Begin(w, kind, id) PROVE UNCHANGED Lifecycle!lvars
  BY <1>1, Empty, Unchanged DEF Begin, Carrying, ghost
<1>2. CASE Get(w) \/ GetRefused(w) \/ Recheck(w) \/ RecheckRefused(w)
  BY <1>2, Empty, Unchanged
     DEF Get, GetRefused, Recheck, RecheckRefused, AfterGet, Exit, Carrying, ghost
<1>3. CASE DecideLost(w)
  BY <1>3, Empty, Unchanged DEF DecideLost, UpdateStatus, Exit, Carrying, ghost
<1>4. CASE Decide(w)
  BY <1>4, DecideRefines
<1>5. CASE AuditDecided(w)
  <2>1. SameStatus /\ applied' = applied /\ pc[w] = "audit_decided"
    BY <1>5 DEF AuditDecided, SameStatus, Exit, Step, ghost
  <2>2. CarriesAt(w) <=> CarriesAt(w)'
    BY <1>0, <1>5, <2>1 DEF Stand, AuditDecided, Exit, Step, CarriesAt, Carries, Carrying, NoJob
  <2> QED BY <2>1, <2>2, Stutters
<1> QED BY <1>1, <1>2, <1>3, <1>4, <1>5 DEF DecidingStep

LEMMA AfterRunEmpty == ASSUME NEW w, NEW ok PROVE AfterRun(w, ok) \notin Carrying
BY DEF AfterRun, Carrying

LEMMA InsertRefines ==
    ASSUME TypeInv, NEW w \in Worker, OwnStep(w), Insert(w)
    PROVE  Lifecycle!LNext
<1>0. row \in [Id -> Row] /\ pc \in [Worker -> PC] /\ job \in [Worker -> Job]
  BY DEF TypeInv, DataOK, JobsOK
<1>1. PICK id \in Id : Insert(w)!(id)
  BY DEF Insert
<1>2. pc[w] = "insert" /\ pc'[w] = "audit_created" /\ row[id].status = "none"
      /\ applied' = applied
  BY <1>0, <1>1 DEF Step, ghost, IsNextId, Exists
<1>3. \A i \in Id : row'[i].status = IF i = id THEN "pending" ELSE row[i].status
  BY <1>0, <1>1 DEF Inserted, NoRow
<1>4. LStatus' = [LStatus EXCEPT ![id] = "pending"] /\ LStatus[id] = "none"
  BY <1>2, <1>3 DEF LStatus
<1>5. Carried' = Carried
  BY <1>2, CarriedStep DEF Carried, CarriesAt, Carries, Carrying
<1>6. Lifecycle!Create(id)
  BY <1>2, <1>4, <1>5 DEF Lifecycle!Create, LStatus, Carried
<1> QED BY <1>6 DEF Lifecycle!LNext

LEMMA HealingRefines ==
    ASSUME TypeInv, NEW w \in Worker, OwnStep(w), HealingStep(w)
    PROVE  [Lifecycle!LNext]_(Lifecycle!lvars)
<1>1. CASE HealHistory(w) \/ HealPending(w) \/ HealRejected(w) \/ HealLlm(w)
  BY <1>1, Empty, Unchanged, AfterRunEmpty
     DEF HealHistory, HealPending, HealRejected, HealLlm, HealGuard, HealSkip, Carrying, ghost
<1>2. CASE Count(w) \/ Llm(w)
  BY <1>2, Empty, Unchanged DEF Count, Llm, HealGuard, Exit, Carrying, ghost
<1>3. CASE AuditCreated(w)
  <2>1. SameStatus /\ applied' = applied
    BY <1>3 DEF AuditCreated, SameStatus, ghost
  <2> QED BY <1>3, <2>1, Empty DEF AuditCreated, Carrying
<1>4. CASE Post(w)
  BY <1>4, Empty, Unchanged, AfterRunEmpty DEF Post, CardDone, Exit, Carrying, ghost
<1>5. CASE Attach(w)
  <2>1. row \in [Id -> Row]
    BY DEF TypeInv, DataOK
  <2>2. SameStatus /\ applied' = applied
    BY <1>5, <2>1 DEF Attach, AttachSlack, SameStatus, Row, ghost
  <2> QED BY <1>5, <2>2, Empty, AfterRunEmpty DEF Attach, CardDone, Exit, Carrying
<1>6. CASE Insert(w)
  BY <1>6, InsertRefines
<1> QED BY <1>1, <1>2, <1>3, <1>4, <1>5, <1>6 DEF HealingStep

LEMMA RunSiteRefines ==
    ASSUME TypeInv, NEW w \in Worker, OwnStep(w), NEW s, NEW from, from \notin Carrying,
           RunSite(w, s, from), SameStatus, applied' = applied
    PROVE  UNCHANGED Lifecycle!lvars
<1>1. ASSUME NEW r \in Results, RunSite(w, s, from)!1!(r) PROVE UNCHANGED Lifecycle!lvars
  BY <1>1, AfterRunEmpty, Empty DEF Carrying
<1>2. CASE RunSite(w, s, from)!2
  BY <1>2, AfterRunEmpty, Empty
<1> QED BY <1>1, <1>2 DEF RunSite

LEMMA WriteRefines ==
    ASSUME TypeInv, DecisionInv, NEW w \in Worker, OwnStep(w), WriteConfig(w)
    PROVE  Lifecycle!LNext
<1>0. Stand(w)
  BY Standing
<1>1. pc[w] = "write" /\ pc'[w] = "audit_applied" /\ SameStatus
      /\ applied' = [applied EXCEPT ![job[w].id] = @ + 1]
  BY <1>0 DEF WriteConfig, Step, Stand, SameStatus
<1>2. CarriesAt(w) /\ ~CarriesAt(w)'
  BY <1>0, <1>1 DEF Stand, ShapeAt, ApplyPC, CarriesAt, Carries, Carrying
<1>3. job[w].id \in Id /\ job[w].id \in Carried
  BY <1>2, CarriedKnown
<1>4. ASSUME NEW id \in Id PROVE id \in Carried' <=> id \in Carried \ {job[w].id}
  BY <1>2, CarriedStep, CarriedOnce DEF Carried, CarriesAt, Carries
<1>5. Carried' = Carried \ {job[w].id}
  BY <1>4 DEF Carried
<1>6. PICK r \in Id : r = job[w].id
  BY <1>3
<1>7. Lifecycle!Apply(r)
  BY <1>1, <1>3, <1>5, <1>6, StatusSame DEF Lifecycle!Apply, LStatus, Carried
<1> QED BY <1>7 DEF Lifecycle!LNext

LEMMA PatchingRefines ==
    ASSUME TypeInv, DecisionInv, NEW w \in Worker, OwnStep(w), PatchingStep(w)
    PROVE  [Lifecycle!LNext]_(Lifecycle!lvars)
<1>0. Stand(w)
  BY Standing
<1>1. CASE ReadConfig(w)
  <2>1. SameStatus /\ applied' = applied /\ pc[w] = "read" /\ job[w].kind = "approve"
        /\ pc'[w] \in {"backup", "audit_failed"}
    BY <1>0, <1>1 DEF ReadConfig, Step, Stand, ShapeAt, ApplyPC, SameStatus, ghost
  <2>2. CarriesAt(w)
    BY <2>1 DEF CarriesAt, Carries, Carrying
  <2>3. CASE pc'[w] = "backup"
    <3>1. CarriesAt(w)'
      BY <2>1, <2>3 DEF OwnStep, CarriesAt, Carries, Carrying
    <3> QED BY <2>1, <2>2, <3>1, Stutters
  <2>4. CASE pc'[w] = "audit_failed"
    <3>1. ~CarriesAt(w)'
      BY <2>4 DEF CarriesAt, Carries, Carrying
    <3> QED BY <2>1, <2>2, <3>1, Lapses
  <2> QED BY <2>1, <2>3, <2>4
<1>2. CASE BackupConfig(w) \/ TruncateConfig(w, "truncate", "write")
  <2>1. SameStatus /\ applied' = applied /\ pc[w] \in Carrying /\ pc'[w] \in Carrying
    BY <1>0, <1>2 DEF BackupConfig, TruncateConfig, Step, Stand, SameStatus, ghost, Carrying
  <2>2. CarriesAt(w) <=> CarriesAt(w)'
    BY <2>1 DEF OwnStep, CarriesAt, Carries, Carrying
  <2> QED BY <2>1, <2>2, Stutters
<1>3. CASE \/ AuditApplyFailed(w) \/ AuditApplied(w) \/ LoadConfigs(w) \/ Report(w)
           \/ TruncateConfig(w, "rb_truncate", "rb_write") \/ Rollback(w) \/ AuditRolledBack(w)
  <2>1. SameStatus /\ applied' = applied
    BY <1>3 DEF AuditApplyFailed, AuditApplied, LoadConfigs, Report, TruncateConfig, Rollback,
                AuditRolledBack, SameStatus, ghost
  <2> QED BY <1>3, <2>1, Empty
          DEF AuditApplyFailed, AuditApplied, LoadConfigs, Report, TruncateConfig, Rollback,
              AuditRolledBack, Exit, Carrying
<1>4. CASE Rerun(w)
  BY <1>4, RunSiteRefines, Unchanged DEF Rerun, Carrying, ghost
<1>5. CASE WriteConfig(w)
  BY <1>5, WriteRefines
<1> QED BY <1>1, <1>2, <1>3, <1>4, <1>5 DEF PatchingStep

LEMMA SweepRefines ==
    ASSUME TypeInv, NEW w \in Worker, OwnStep(w), SweepUpdate(w)
    PROVE  Lifecycle!LNext
<1>0. Stand(w) /\ \A id \in job[w].due : Exists(row, id)
  BY Standing DEF TypeInv, KeptOK, KeepsAt, Stand
<1>1. pc[w] = "sweep_update" /\ pc'[w] = "sweep_audit" /\ applied' = applied
      /\ row' = Expire(row, job[w].due, job[w].stamp)
  BY <1>0 DEF SweepUpdate, Step, Stand, ghost
<1>2. \A i \in Id : row'[i].status = IF i \in job[w].due THEN "expired" ELSE row[i].status
  BY <1>0, <1>1 DEF Stand, Expire, Row
<1>3. /\ LStatus' = [i \in Id |-> IF i \in job[w].due THEN "expired" ELSE LStatus[i]]
      /\ job[w].due \in SUBSET Id /\ \A i \in job[w].due : LStatus[i] # "none"
  BY <1>0, <1>2 DEF Stand, LStatus, Exists
<1>4. Carried' = Carried
  BY <1>1, CarriedStep DEF Carried, CarriesAt, Carries, Carrying
<1>5. PICK S \in SUBSET Id : S = job[w].due
  BY <1>3
<1>6. Lifecycle!Sweep(S)
  BY <1>1, <1>3, <1>4, <1>5 DEF Lifecycle!Sweep, LStatus, Carried
<1> QED BY <1>6 DEF Lifecycle!LNext

LEMMA CollectingRefines ==
    ASSUME TypeInv, NEW w \in Worker, OwnStep(w), CollectingStep(w)
    PROVE  [Lifecycle!LNext]_(Lifecycle!lvars)
<1>1. CASE Collect(w) \/ Acquire(w) \/ AcquireRefused(w) \/ SweepSelect(w) \/ Release(w)
  BY <1>1, Empty, Unchanged
     DEF Collect, Acquire, AcquireRefused, SweepSelect, Release, Exit, Carrying, ghost
<1>2. CASE SweepAudit(w)
  <2>1. SameStatus /\ applied' = applied
    BY <1>2 DEF SweepAudit, SameStatus, ghost
  <2> QED BY <1>2, <2>1, Empty DEF SweepAudit, Carrying
<1>3. CASE CollectSite(w)
  BY <1>3, RunSiteRefines, Unchanged DEF CollectSite, Carrying, ghost
<1>4. CASE SweepUpdate(w)
  BY <1>4, SweepRefines
<1> QED BY <1>1, <1>2, <1>3, <1>4 DEF CollectingStep

LEMMA CrashRefines ==
    ASSUME TypeInv, DecisionInv, NEW w \in Worker, OwnStep(w), Crash(w)
    PROVE  [Lifecycle!LNext]_(Lifecycle!lvars)
<1>1. SameStatus /\ applied' = applied
  BY DEF Crash, SameStatus, ghost
<1>2. ~CarriesAt(w)'
  BY DEF Crash, Exit, Step, TypeInv, JobsOK, CarriesAt, Carries, Carrying
<1> QED BY <1>1, <1>2, Stutters, Lapses

LEMMA LifecycleInit == Init => Lifecycle!LInit
<1> SUFFICES ASSUME Init PROVE Lifecycle!LInit
  OBVIOUS
<1>1. LStatus = [id \in Id |-> "none"]
  BY DEF Init, LStatus, NoRow
<1>2. Carried = {}
  BY DEF Init, Carried, Carrying
<1> QED BY <1>1, <1>2 DEF Init, Lifecycle!LInit, LStatus, Carried

LEMMA LifecycleNext ==
    TypeInv /\ DecisionInv /\ [Next]_vars => [Lifecycle!LNext]_(Lifecycle!lvars)
<1> SUFFICES ASSUME TypeInv, DecisionInv, [Next]_vars
             PROVE  [Lifecycle!LNext]_(Lifecycle!lvars)
  OBVIOUS
<1>1. ASSUME NEW w \in Worker, ProcessStep(w) \/ Crash(w)
      PROVE  [Lifecycle!LNext]_(Lifecycle!lvars)
  <2>1. OwnStep(w)
    BY <1>1, Own
  <2> QED BY <1>1, <2>1, DecidingRefines, HealingRefines, PatchingRefines, CollectingRefines,
             CrashRefines DEF ProcessStep
<1>2. CASE ClearStaleLock \/ Tick \/ UNCHANGED vars
  <2>1. UNCHANGED <<row, pc, job, applied>>
    BY <1>2 DEF ClearStaleLock, Tick, vars, ghost
  <2> QED BY <2>1 DEF Lifecycle!lvars
<1> QED BY <1>1, <1>2 DEF Next

\* The statements of all the processes, in any interleaving and with any of them
\* killed, implement the abstract lifecycle of every request: it is created once,
\* decided once, its patch written once and by its approval only.
THEOREM RunnerImplementsLifecycle == Spec => LifecycleSpec
BY LifecycleInit, LifecycleNext, TypeInvariant, DecisionInvariant, PTL
   DEF Spec, LifecycleSpec, Lifecycle!LSpec

-----------------------------------------------------------------------------
(* No config file, and no backup a rollback could bring back, ever holds a *)
(* patch whose approval is not in the audit log.                           *)

Approvals == {id \in Id : <<"approved", id>> \in audit}

Clean(content, ids) == content # Torn => content \subseteq ids

\* The approve command is on its way to the write of its patch.
Bound == {"read", "backup", "truncate", "write"}

PatchInv ==
    /\ \A w \in Worker : pc[w] \in Bound => job[w].id \in Approvals
    /\ \A w \in Worker : job[w].text \subseteq Approvals
    /\ \A s \in Site : Clean(yaml[s], Approvals)
    /\ \A s \in Site, t \in Time : Clean(backup[s][t], Approvals)
    /\ \A id \in Id : applied[id] > 0 => id \in Approvals

LEMMA PatchInit == Init => PatchInv
BY DEF Init, PatchInv, Clean, Bound, NoJob

\* The log only grows.
LEMMA ApprovalsGrow ==
    ASSUME audit \subseteq audit' PROVE Approvals \subseteq Approvals'
BY DEF Approvals

LEMMA PatchStep ==
    ASSUME TypeInv, PatchInv, NEW w \in Worker, NEW p, NEW j,
           pc' = [pc EXCEPT ![w] = p], job' = [job EXCEPT ![w] = j],
           audit \subseteq audit',
           p \in Bound => j.id \in Approvals',
           j.text \subseteq Approvals',
           \A s \in Site : yaml'[s] = yaml[s] \/ Clean(yaml'[s], Approvals),
           \A s \in Site, t \in Time :
               backup'[s][t] = backup[s][t] \/ Clean(backup'[s][t], Approvals),
           \A id \in Id : applied'[id] = applied[id] \/ id \in Approvals
    PROVE  PatchInv'
<1>1. pc \in [Worker -> PC] /\ job \in [Worker -> Job] /\ Approvals \subseteq Approvals'
  BY ApprovalsGrow DEF TypeInv, JobsOK
<1>2. ASSUME NEW v \in Worker
      PROVE  /\ pc'[v] \in Bound => job'[v].id \in Approvals'
             /\ job'[v].text \subseteq Approvals'
  <2>1. CASE v = w
    BY <1>1, <2>1
  <2>2. CASE v # w
    BY <1>1, <2>2 DEF PatchInv
  <2> QED BY <2>1, <2>2
<1>3. \A c : Clean(c, Approvals) => Clean(c, Approvals')
  BY <1>1 DEF Clean
<1>4. \A s \in Site : Clean(yaml'[s], Approvals')
  BY <1>3 DEF PatchInv
<1>5. \A s \in Site, t \in Time : Clean(backup'[s][t], Approvals')
  BY <1>3 DEF PatchInv
<1>6. \A id \in Id : applied'[id] > 0 => id \in Approvals'
  BY <1>1 DEF PatchInv
<1> QED BY <1>2, <1>4, <1>5, <1>6 DEF PatchInv, Clean

\* A step that leaves the files alone and is not on its way to a write.
LEMMA PatchSkip ==
    ASSUME TypeInv, PatchInv, NEW w \in Worker, NEW p, NEW j,
           pc' = [pc EXCEPT ![w] = p], job' = [job EXCEPT ![w] = j],
           audit \subseteq audit', p \notin Bound, j.text \in {{}, job[w].text},
           UNCHANGED <<yaml, backup, applied>>
    PROVE  PatchInv'
<1>1. job[w].text \subseteq Approvals /\ Approvals \subseteq Approvals'
  BY ApprovalsGrow DEF PatchInv
<1>2. j.text \subseteq Approvals'
  BY <1>1
<1> QED BY <1>2, PatchStep

LEMMA PatchStay ==
    ASSUME TypeInv, PatchInv, NEW w \in Worker, NEW p, pc' = [pc EXCEPT ![w] = p],
           job' = job, audit \subseteq audit', p \notin Bound,
           UNCHANGED <<yaml, backup, applied>>
    PROVE  PatchInv'
<1>1. job' = [job EXCEPT ![w] = job[w]]
  BY DEF TypeInv, JobsOK
<1> QED BY <1>1, PatchSkip

LEMMA PatchExit ==
    ASSUME TypeInv, PatchInv, NEW w \in Worker, NEW from, Exit(w, from),
           audit \subseteq audit', UNCHANGED <<yaml, backup, applied>>
    PROVE  PatchInv'
<1>1. NoJob.text = {} /\ "idle" \notin Bound
  BY DEF NoJob, Bound
<1> QED BY <1>1, PatchSkip DEF Exit, Step

LEMMA DecidingPatch ==
    ASSUME TypeInv, PatchInv, NEW w \in Worker, DecidingStep(w)
    PROVE  PatchInv'
<1>0. job \in [Worker -> Job] /\ job[w] \in Job /\ ShapeAt(pc[w], job[w])
  BY DEF TypeInv, JobsOK
<1>1. UNCHANGED <<yaml, backup, applied>> /\ audit \subseteq audit'
  BY DEF DecidingStep, Begin, Get, GetRefused, Recheck, RecheckRefused, Decide, DecideLost,
         AuditDecided, Log, files, ghost
<1>2. ASSUME NEW kind \in Kind \ {"collect"}, NEW id \in Id, Begin(w, kind, id)
      PROVE  PatchInv'
  <2> DEFINE j == [NoJob EXCEPT !.kind = kind, !.id = id]
  <2>1. pc' = [pc EXCEPT ![w] = "get"] /\ job' = [job EXCEPT ![w] = j]
    BY <1>2 DEF Begin, Step
  <2>2. j.text = {} /\ "get" \notin Bound
    BY DEF NoJob, Bound
  <2> HIDE DEF j
  <2> QED BY <1>1, <2>1, <2>2, PatchSkip
<1>3. CASE Get(w)
  <2> DEFINE p == AfterGet(job[w].kind)
             j == [job[w] EXCEPT !.site = row[job[w].id].site]
  <2>1. pc' = [pc EXCEPT ![w] = p] /\ job' = [job EXCEPT ![w] = j]
    BY <1>0, <1>3 DEF Get, Step
  <2>2. j.text = job[w].text /\ p \notin Bound
    BY <1>0 DEF Job, AfterGet, Bound
  <2> HIDE DEF j, p
  <2> QED BY <1>1, <2>1, <2>2, PatchSkip
<1>4. CASE GetRefused(w) \/ RecheckRefused(w) \/ DecideLost(w)
  BY <1>1, <1>4, PatchExit DEF GetRefused, RecheckRefused, DecideLost
<1>5. CASE Recheck(w) \/ Decide(w)
  <2>1. job' = job /\ \E p \in {"cas", "audit_decided"} : pc' = [pc EXCEPT ![w] = p]
    BY <1>5 DEF Recheck, Decide, Step
  <2> QED BY <1>1, <2>1, PatchStay DEF Bound
<1>6. CASE AuditDecided(w)
  <2>1. CASE Exit(w, "audit_decided")
    BY <1>1, <2>1, PatchExit
  <2>2. CASE Step(w, "audit_decided", "post") /\ job' = job
    BY <1>1, <2>2, PatchStay DEF Step, Bound
  <2>3. CASE job[w].kind = "approve" /\ Step(w, "audit_decided", "read") /\ job' = job
    <3>1. job[w].id \in Approvals'
      BY <1>0, <1>6, <2>3 DEF AuditDecided, Log, DecisionOf, Approvals, Step, ShapeAt, DecidePC
    <3>2. pc' = [pc EXCEPT ![w] = "read"] /\ job' = [job EXCEPT ![w] = job[w]]
      BY <1>0, <2>3 DEF Step
    <3>3. job[w].text \subseteq Approvals'
      BY <1>1, ApprovalsGrow DEF PatchInv
    <3> QED BY <1>1, <3>1, <3>2, <3>3, PatchStep
  <2> QED BY <1>6, <2>1, <2>2, <2>3 DEF AuditDecided
<1> QED BY <1>2, <1>3, <1>4, <1>5, <1>6 DEF DecidingStep

LEMMA AfterRunUnbound == ASSUME NEW w, NEW ok PROVE AfterRun(w, ok) \notin Bound
BY DEF AfterRun, Bound

LEMMA HealingPatch ==
    ASSUME TypeInv, PatchInv, NEW w \in Worker, HealingStep(w)
    PROVE  PatchInv'
<1>0. job \in [Worker -> Job] /\ job[w] \in Job
  BY DEF TypeInv, JobsOK
<1>1. UNCHANGED <<yaml, backup, applied>> /\ audit \subseteq audit'
  BY DEF HealingStep, HealHistory, HealPending, HealRejected, HealLlm, Count, Llm, Insert,
         AuditCreated, Post, Attach, HealGuard, HealSkip, Log, files, ghost
<1>2. ASSUME NEW from, HealSkip(w, from) PROVE PatchInv'
  BY <1>1, <1>2, AfterRunUnbound, PatchStay DEF HealSkip, Step
<1>3. ASSUME NEW from, NEW to, to \notin Bound, HealGuard(w, from, to) PROVE PatchInv'
  BY <1>1, <1>3, PatchStay DEF HealGuard, Step
<1>4. CASE HealHistory(w) \/ HealPending(w) \/ HealRejected(w) \/ HealLlm(w)
  BY <1>2, <1>3, <1>4 DEF HealHistory, HealPending, HealRejected, HealLlm, Bound
<1>5. CASE Count(w) \/ Llm(w)
  BY <1>1, <1>3, <1>5, PatchExit DEF Count, Llm, Bound
<1>6. CASE Insert(w)
  <2>1. PICK id \in Id : Insert(w)!(id)
    BY <1>6 DEF Insert
  <2> DEFINE j == [job[w] EXCEPT !.new = id]
  <2>2. pc' = [pc EXCEPT ![w] = "audit_created"] /\ job' = [job EXCEPT ![w] = j]
    BY <1>0, <2>1 DEF Step
  <2>3. j.text = job[w].text /\ "audit_created" \notin Bound
    BY <1>0 DEF Job, Bound
  <2> HIDE DEF j
  <2> QED BY <1>1, <2>2, <2>3, PatchSkip
<1>7. CASE AuditCreated(w)
  BY <1>1, <1>7, PatchStay DEF AuditCreated, Step, Bound
<1>8. ASSUME NEW from, CardDone(w, from) PROVE PatchInv'
  <2>1. CASE Exit(w, from)
    BY <1>1, <2>1, PatchExit
  <2>2. CASE Step(w, from, AfterRun(w, job[w].ok)) /\ job' = job
    BY <1>1, <2>2, AfterRunUnbound, PatchStay DEF Step
  <2> QED BY <1>8, <2>1, <2>2 DEF CardDone
<1>9. CASE Post(w) \/ Attach(w)
  <2>1. CASE Step(w, "post", "attach") /\ job' = job
    BY <1>1, <2>1, PatchStay DEF Step, Bound
  <2> QED BY <1>8, <1>9, <2>1 DEF Post, Attach
<1> QED BY <1>4, <1>5, <1>6, <1>7, <1>9 DEF HealingStep

LEMMA RunSitePatch ==
    ASSUME TypeInv, PatchInv, NEW w \in Worker, NEW s, NEW from, RunSite(w, s, from),
           UNCHANGED <<audit, yaml, backup, applied>>
    PROVE  PatchInv'
<1>0. job \in [Worker -> Job] /\ job[w] \in Job
  BY DEF TypeInv, JobsOK
<1>1. ASSUME NEW r \in Results, RunSite(w, s, from)!1!(r) PROVE PatchInv'
  <2> DEFINE ok == job[w].kind = "approve" /\ r.records # "none"
             p == IF r.status = "failed" THEN "heal_history" ELSE AfterRun(w, ok)
             j == [job[w] EXCEPT !.site = s, !.ok = ok, !.todo = @ \ {s}]
  <2>1. pc' = [pc EXCEPT ![w] = p] /\ job' = [job EXCEPT ![w] = j]
    BY <1>0, <1>1 DEF Step
  <2>2. p \notin Bound /\ j.text = job[w].text
    BY <1>0, AfterRunUnbound DEF Bound, Job
  <2> HIDE DEF p, j
  <2> QED BY <2>1, <2>2, PatchSkip
<1>2. CASE RunSite(w, s, from)!2
  <2> DEFINE j == [job[w] EXCEPT !.site = s, !.todo = @ \ {s}]
  <2>1. pc' = [pc EXCEPT ![w] = AfterRun(w, FALSE)] /\ job' = [job EXCEPT ![w] = j]
    BY <1>0, <1>2 DEF Step
  <2>2. j.text = job[w].text
    BY <1>0 DEF Job
  <2> HIDE DEF j
  <2> QED BY <2>1, <2>2, AfterRunUnbound, PatchSkip
<1> QED BY <1>1, <1>2 DEF RunSite

LEMMA PatchingPatch ==
    ASSUME TypeInv, PatchInv, NEW w \in Worker, PatchingStep(w)
    PROVE  PatchInv'
<1>0. /\ job \in [Worker -> Job] /\ job[w] \in Job
      /\ pc[w] \in ApplyPC => job[w].site \in Site /\ job[w].id \in Id
      /\ yaml \in [Site -> Content] /\ backup \in [Site -> [Time -> Content]]
      /\ applied \in [Id -> Nat] /\ now \in Time
  BY DEF TypeInv, JobsOK, DataOK, ShapeAt, ApplyPC
<1>1. /\ pc[w] \in Bound => job[w].id \in Approvals /\ pc[w] \in ApplyPC
      /\ job[w].text \subseteq Approvals
      /\ \A s \in Site : Clean(yaml[s], Approvals)
      /\ \A s \in Site, t \in Time : Clean(backup[s][t], Approvals)
  BY DEF PatchInv, Bound, ApplyPC
<1>2. CASE ReadConfig(w)
  <2> DEFINE j == [job[w] EXCEPT !.text = yaml[job[w].site]]
  <2>1. UNCHANGED <<audit, yaml, backup, applied>>
    BY <1>2 DEF ReadConfig, files, ghost
  <2>2. CASE Step(w, "read", "audit_failed") /\ job' = job
    BY <2>1, <2>2, PatchStay DEF Step, Bound
  <2>3. CASE /\ Step(w, "read", "backup") /\ yaml[job[w].site] # Torn
             /\ job' = [job EXCEPT ![w].text = yaml[job[w].site]]
    <3>1. pc[w] = "read" /\ pc' = [pc EXCEPT ![w] = "backup"] /\ job' = [job EXCEPT ![w] = j]
          /\ j.id = job[w].id /\ j.text = yaml[job[w].site]
      BY <1>0, <2>3 DEF Step, Job
    <3>2. j.id \in Approvals /\ j.text \subseteq Approvals
      BY <1>0, <1>1, <2>3, <3>1 DEF Bound, Clean
    <3>3. Approvals' = Approvals
      BY <2>1 DEF Approvals
    <3> HIDE DEF j
    <3> QED BY <2>1, <3>1, <3>2, <3>3, PatchStep
  <2> QED BY <1>2, <2>2, <2>3 DEF ReadConfig
<1>3. CASE BackupConfig(w)
  <2> DEFINE s == job[w].site
             j == [job[w] EXCEPT !.stamp = now]
  <2>1. pc[w] = "backup" /\ pc' = [pc EXCEPT ![w] = "truncate"] /\ job' = [job EXCEPT ![w] = j]
        /\ j.id = job[w].id /\ j.text = job[w].text
        /\ UNCHANGED <<audit, yaml, applied>> /\ backup' = [backup EXCEPT ![s][now] = yaml[s]]
    BY <1>0, <1>3 DEF BackupConfig, Step, ghost, Job
  <2>2. \A q \in Site, t \in Time :
            backup'[q][t] = backup[q][t] \/ Clean(backup'[q][t], Approvals)
    BY <1>0, <1>1, <2>1
  <2>3. Approvals' = Approvals /\ job[w].id \in Approvals
    BY <1>1, <2>1 DEF Approvals, Bound
  <2> HIDE DEF j
  <2> QED BY <1>1, <2>1, <2>2, <2>3, PatchStep
<1>4. CASE TruncateConfig(w, "truncate", "write") \/ TruncateConfig(w, "rb_truncate", "rb_write")
  <2>1. PICK p \in {"write", "rb_write"} :
          /\ p = "write" => pc[w] = "truncate"
          /\ pc' = [pc EXCEPT ![w] = p] /\ job' = [job EXCEPT ![w] = job[w]]
          /\ yaml' = [yaml EXCEPT ![job[w].site] = Torn]
          /\ UNCHANGED <<audit, backup, applied>>
    BY <1>0, <1>4 DEF TruncateConfig, Step, ghost
  <2>2. \A s \in Site : yaml'[s] = yaml[s] \/ Clean(yaml'[s], Approvals)
    BY <1>0, <2>1 DEF Clean
  <2>3. Approvals' = Approvals
    BY <2>1 DEF Approvals
  <2>4. p \in Bound => job[w].id \in Approvals
    BY <1>1, <2>1 DEF Bound
  <2> QED BY <1>1, <2>1, <2>2, <2>3, <2>4, PatchStep
<1>5. CASE WriteConfig(w)
  <2>1. pc[w] = "write" /\ pc' = [pc EXCEPT ![w] = "audit_applied"]
        /\ job' = [job EXCEPT ![w] = job[w]] /\ UNCHANGED <<audit, backup>>
        /\ yaml' = [yaml EXCEPT ![job[w].site] = job[w].text \cup {job[w].id}]
        /\ applied' = [applied EXCEPT ![job[w].id] = @ + 1]
    BY <1>0, <1>5 DEF WriteConfig, Step
  <2>2. job[w].id \in Approvals
    BY <1>1, <2>1 DEF Bound
  <2>3. \A s \in Site : yaml'[s] = yaml[s] \/ Clean(yaml'[s], Approvals)
    BY <1>0, <1>1, <2>1, <2>2 DEF Clean
  <2>4. \A id \in Id : applied'[id] = applied[id] \/ id \in Approvals
    BY <1>0, <2>1, <2>2
  <2>5. Approvals' = Approvals /\ "audit_applied" \notin Bound
    BY <2>1 DEF Approvals, Bound
  <2> QED BY <1>1, <2>1, <2>3, <2>4, <2>5, PatchStep
<1>6. CASE Rollback(w)
  <2>1. pc[w] = "rb_write" /\ pc' = [pc EXCEPT ![w] = "audit_rolled_back"]
        /\ job' = [job EXCEPT ![w] = job[w]] /\ UNCHANGED <<audit, backup, applied>>
        /\ yaml' = [yaml EXCEPT ![job[w].site] = backup[job[w].site][job[w].stamp]]
    BY <1>0, <1>6 DEF Rollback, Step, ghost
  <2>2. job[w].site \in Site /\ job[w].stamp \in Time
    BY <1>0, <2>1 DEF Job, ApplyPC
  <2>3. \A s \in Site : yaml'[s] = yaml[s] \/ Clean(yaml'[s], Approvals)
    BY <1>0, <1>1, <2>1, <2>2
  <2>4. Approvals' = Approvals /\ "audit_rolled_back" \notin Bound
    BY <2>1 DEF Approvals, Bound
  <2> QED BY <1>1, <2>1, <2>3, <2>4, PatchStep
<1>7. CASE AuditApplyFailed(w) \/ AuditRolledBack(w) \/ Report(w)
  <2>1. audit \subseteq audit' /\ UNCHANGED <<yaml, backup, applied>>
    BY <1>7 DEF AuditApplyFailed, AuditRolledBack, Report, Log, files
  <2> QED BY <1>7, <2>1, PatchExit DEF AuditApplyFailed, AuditRolledBack, Report
<1>8. CASE AuditApplied(w) \/ LoadConfigs(w)
  <2>1. audit \subseteq audit' /\ UNCHANGED <<yaml, backup, applied>>
    BY <1>8 DEF AuditApplied, LoadConfigs, Log, files, ghost
  <2>2. CASE Exit(w, "load")
    BY <2>1, <2>2, PatchExit
  <2>3. CASE ~Exit(w, "load")
    <3>1. job' = job /\ \E p \in {"load", "rerun", "rb_truncate"} : pc' = [pc EXCEPT ![w] = p]
      BY <1>8, <2>3 DEF AuditApplied, LoadConfigs, Step
    <3> QED BY <2>1, <3>1, PatchStay DEF Bound
  <2> QED BY <2>2, <2>3
<1>9. CASE Rerun(w)
  BY <1>9, RunSitePatch DEF Rerun, files, ghost
<1> QED BY <1>2, <1>3, <1>4, <1>5, <1>6, <1>7, <1>8, <1>9 DEF PatchingStep

LEMMA CollectingPatch ==
    ASSUME TypeInv, PatchInv, NEW w \in Worker, CollectingStep(w)
    PROVE  PatchInv'
<1>0. job \in [Worker -> Job] /\ job[w] \in Job
  BY DEF TypeInv, JobsOK
<1>1. UNCHANGED <<yaml, backup, applied>> /\ audit \subseteq audit'
  BY DEF CollectingStep, Collect, Acquire, AcquireRefused, SweepSelect, SweepUpdate,
         SweepAudit, CollectSite, Release, Log, files, ghost
<1>2. CASE Collect(w)
  <2>1. PICK plan \in (SUBSET Site) \ {{}} :
          job' = [job EXCEPT ![w] = [NoJob EXCEPT !.kind = "collect", !.todo = plan]]
    BY <1>2 DEF Collect
  <2> DEFINE j == [NoJob EXCEPT !.kind = "collect", !.todo = plan]
  <2>2. pc' = [pc EXCEPT ![w] = "acquire"] /\ job' = [job EXCEPT ![w] = j]
    BY <1>2, <2>1 DEF Collect, Step
  <2>3. j.text = {} /\ "acquire" \notin Bound
    BY DEF NoJob, Bound
  <2> HIDE DEF j
  <2> QED BY <1>1, <2>2, <2>3, PatchSkip
<1>3. CASE AcquireRefused(w) \/ Release(w)
  BY <1>1, <1>3, PatchExit DEF AcquireRefused, Release
<1>4. CASE Acquire(w) \/ SweepUpdate(w)
  <2>1. job' = job /\ \E p \in {"sweep", "sweep_audit"} : pc' = [pc EXCEPT ![w] = p]
    BY <1>4 DEF Acquire, SweepUpdate, Step
  <2> QED BY <1>1, <2>1, PatchStay DEF Bound
<1>5. CASE SweepSelect(w)
  <2> DEFINE j == [job[w] EXCEPT !.due = Due(row, now), !.stamp = now]
  <2>1. job' = [job EXCEPT ![w] = j] /\ j.text = job[w].text
    BY <1>0, <1>5 DEF SweepSelect, Job
  <2>2. PICK p \in {"next_site", "sweep_update"} : pc' = [pc EXCEPT ![w] = p]
    BY <1>5 DEF SweepSelect, Step
  <2> HIDE DEF j
  <2> QED BY <1>1, <2>1, <2>2, PatchSkip DEF Bound
<1>6. CASE SweepAudit(w)
  <2>1. PICK id \in job[w].due : SweepAudit(w)!(id)
    BY <1>6 DEF SweepAudit
  <2> DEFINE j == [job[w] EXCEPT !.due = @ \ {id}]
  <2>2. job' = [job EXCEPT ![w] = j] /\ j.text = job[w].text
    BY <1>0, <2>1 DEF Job
  <2>3. PICK p \in {"next_site", "sweep_audit"} : pc' = [pc EXCEPT ![w] = p]
    BY <2>1 DEF Step
  <2> HIDE DEF j
  <2> QED BY <1>1, <2>2, <2>3, PatchSkip DEF Bound
<1>7. CASE CollectSite(w)
  BY <1>1, <1>7, RunSitePatch DEF CollectSite, files, ghost
<1> QED BY <1>2, <1>3, <1>4, <1>5, <1>6, <1>7 DEF CollectingStep

LEMMA PatchNext == TypeInv /\ PatchInv /\ [Next]_vars => PatchInv'
<1> SUFFICES ASSUME TypeInv, PatchInv, [Next]_vars PROVE PatchInv'
  OBVIOUS
<1>1. ASSUME NEW w \in Worker, ProcessStep(w) PROVE PatchInv'
  BY <1>1, DecidingPatch, HealingPatch, PatchingPatch, CollectingPatch DEF ProcessStep
<1>2. ASSUME NEW w \in Worker, Crash(w) PROVE PatchInv'
  BY <1>2, PatchExit DEF Crash, files, ghost
<1>3. CASE ClearStaleLock \/ Tick \/ UNCHANGED vars
  <2>1. UNCHANGED <<audit, yaml, backup, applied, pc, job>>
    BY <1>3 DEF ClearStaleLock, Tick, vars, files, ghost
  <2> QED BY <2>1 DEF PatchInv, Clean, Approvals
<1> QED BY <1>1, <1>2, <1>3 DEF Next

LEMMA PatchInvAudited == PatchInv => PatchHasAuditedApproval
BY DEF PatchInv, PatchHasAuditedApproval, Clean, Approvals

\* A patch is in a config file only after its approval is in the audit log,
\* whatever approve commands, rollbacks and kills interleave.
THEOREM PatchAudited == Spec => []PatchHasAuditedApproval
<1>1. Spec => []PatchInv
  BY PatchInit, PatchNext, TypeInvariant, PTL DEF Spec
<1> QED BY <1>1, PatchInvAudited, PTL

-----------------------------------------------------------------------------
(* What holds as long as no process has been killed where that matters:    *)
(* the audit log is complete, and, with one approve command at a time, so  *)
(* is the verification of what is in the configs.                          *)

\* No process has been killed, or none can be at the given program points.
Spared(points) == crashes = 0 \/ CrashAt \cap points = {}

LEMMA SparedCrash ==
    ASSUME TypeInv, NEW points, NEW w \in Worker, Crash(w), Spared(points)'
    PROVE  Spared(points) /\ pc[w] \notin points
<1>1. crashes \in Nat /\ crashes' = crashes + 1 /\ pc[w] \in CrashAt
  BY RunnerAssumption DEF TypeInv, DataOK, Crash
<1> QED BY <1>1 DEF Spared

\* Only a kill counts as one.
LEMMA SparedStep ==
    ASSUME NEW points, [Next]_vars, ~\E w \in Worker : Crash(w), Spared(points)'
    PROVE  Spared(points)
<1>1. crashes' = crashes
  <2>1. ASSUME NEW w \in Worker, DecidingStep(w) PROVE crashes' = crashes
    BY <2>1 DEF DecidingStep, Begin, Get, GetRefused, Recheck, RecheckRefused, Decide,
                DecideLost, AuditDecided, world
  <2>2. ASSUME NEW w \in Worker, HealingStep(w) PROVE crashes' = crashes
    BY <2>2 DEF HealingStep, HealHistory, HealPending, HealRejected, HealLlm, Count, Llm,
                Insert, AuditCreated, Post, Attach, HealGuard, HealSkip, world
  <2>3. ASSUME NEW w \in Worker, PatchingStep(w) PROVE crashes' = crashes
    BY <2>3 DEF PatchingStep, ReadConfig, AuditApplyFailed, BackupConfig, TruncateConfig,
                WriteConfig, AuditApplied, LoadConfigs, Rerun, Report, Rollback,
                AuditRolledBack, world
  <2>4. ASSUME NEW w \in Worker, CollectingStep(w) PROVE crashes' = crashes
    BY <2>4 DEF CollectingStep, Collect, Acquire, AcquireRefused, SweepSelect, SweepUpdate,
                SweepAudit, CollectSite, Release, world
  <2> QED BY <2>1, <2>2, <2>3, <2>4 DEF Next, ProcessStep, ClearStaleLock, Tick, vars
<1> QED BY <1>1 DEF Spared

-----------------------------------------------------------------------------
(* The log is complete.  What is in the table and not in the log is owed   *)
(* by a process that stands between the two writes.                        *)

Owing == {"audit_created", "audit_decided", "sweep_audit"}

Owes(p, j, event, id) ==
    \/ p = "audit_created" /\ j.new = id /\ event = "created"
    \/ p = "audit_decided" /\ j.id = id /\ event = DecisionOf(j.kind)
    \/ p = "sweep_audit" /\ id \in j.due /\ event = "expired"

\* What the log is to say of a request.
ToLog(t, id) ==
    IF ~Exists(t, id) THEN {}
    ELSE {"created"} \cup (IF id \in Pending(t) THEN {} ELSE {t[id].status})

Recorded ==
    \A id \in Id : \A event \in ToLog(row, id) :
        \/ <<event, id>> \in audit
        \/ \E w \in Worker : Owes(pc[w], job[w], event, id)

LEMMA RecordedInit == Init => Recorded
BY DEF Init, Recorded, ToLog, Exists, NoRow

LEMMA RecordedStep ==
    ASSUME Recorded, NEW w \in Worker, OwnStep(w), audit \subseteq audit',
           \A id \in Id : \A event \in ToLog(row', id) :
               event \in ToLog(row, id) \/ Owes(pc'[w], job'[w], event, id),
           \A event : \A id \in Id : Owes(pc[w], job[w], event, id) =>
               <<event, id>> \in audit' \/ Owes(pc'[w], job'[w], event, id)
    PROVE  Recorded'
<1>1. ASSUME NEW id \in Id, NEW event \in ToLog(row', id)
      PROVE  \/ <<event, id>> \in audit'
             \/ \E v \in Worker : Owes(pc'[v], job'[v], event, id)
  <2>1. CASE event \in ToLog(row, id)
    <3>1. CASE <<event, id>> \in audit
      BY <3>1
    <3>2. ASSUME NEW v \in Worker, Owes(pc[v], job[v], event, id)
          PROVE  \/ <<event, id>> \in audit'
                 \/ \E u \in Worker : Owes(pc'[u], job'[u], event, id)
      <4>1. CASE v = w
        BY <3>2, <4>1
      <4>2. CASE v # w
        <5>1. pc'[v] = pc[v] /\ job'[v] = job[v]
          BY <4>2 DEF OwnStep
        <5> QED BY <3>2, <5>1
      <4> QED BY <4>1, <4>2
    <3> QED BY <2>1, <3>1, <3>2 DEF Recorded
  <2>2. CASE event \notin ToLog(row, id)
    BY <2>2
  <2> QED BY <2>1, <2>2
<1> QED BY <1>1 DEF Recorded, ToLog, Exists, Pending

\* A step that leaves the status of every request alone owes nothing new.
SameStates == \A id \in Id : row'[id].status = row[id].status

LEMMA RecordedQuiet ==
    ASSUME Recorded, NEW w \in Worker, OwnStep(w), audit \subseteq audit', SameStates,
           pc[w] \notin Owing
    PROVE  Recorded'
<1>1. \A id \in Id : ToLog(row', id) = ToLog(row, id)
  BY DEF SameStates, ToLog, Exists, Pending
<1>2. \A event : \A id \in Id : ~Owes(pc[w], job[w], event, id)
  BY DEF Owes, Owing
<1> QED BY <1>1, <1>2, RecordedStep

LEMMA RecordedDecide ==
    ASSUME TypeInv, Recorded, NEW w \in Worker, OwnStep(w), Decide(w) PROVE Recorded'
<1> DEFINE d == DecisionOf(job[w].kind)
<1>1. /\ pc \in [Worker -> PC] /\ row \in [Id -> Row] /\ job' = job /\ audit' = audit
      /\ pc[w] = "cas" /\ pc'[w] = "audit_decided" /\ job[w].id \in Id
  BY DEF Decide, Step, TypeInv, JobsOK, DataOK, ShapeAt, DecidePC
<1>2. row' = [row EXCEPT ![job[w].id].status = d, ![job[w].id].decided = now]
      /\ job[w].id \in Pending(row) /\ d \in Decision
  BY DEF Decide, UpdateStatus, Matches, DecisionOf, Decision
<1>3. /\ row'[job[w].id].status = d
      /\ \A id \in Id : id # job[w].id => row'[id].status = row[id].status
  BY <1>1, <1>2 DEF Row
<1>4. ASSUME NEW id \in Id, NEW event \in ToLog(row', id)
      PROVE  event \in ToLog(row, id) \/ Owes(pc'[w], job'[w], event, id)
  <2>1. CASE id = job[w].id
    BY <1>1, <1>2, <1>3, <1>4, <2>1 DEF ToLog, Exists, Pending, Owes, Decision
  <2>2. CASE id # job[w].id
    BY <1>3, <1>4, <2>2 DEF ToLog, Exists, Pending
  <2> QED BY <2>1, <2>2
<1>5. \A event : \A id \in Id : ~Owes(pc[w], job[w], event, id)
  BY <1>1 DEF Owes
<1> QED BY <1>1, <1>4, <1>5, RecordedStep

LEMMA RecordedInsert ==
    ASSUME TypeInv, Recorded, NEW w \in Worker, OwnStep(w), Insert(w) PROVE Recorded'
<1>1. PICK new \in Id :
        /\ IsNextId(row, new)
        /\ Step(w, "insert", "audit_created")
        /\ \E run : row' = Inserted(row, new, job[w].site, run, now)
        /\ job' = [job EXCEPT ![w].new = new]
        /\ audit' = audit
  BY DEF Insert
<1>2. /\ pc \in [Worker -> PC] /\ row \in [Id -> Row] /\ job \in [Worker -> Job]
      /\ pc[w] = "insert" /\ pc'[w] = "audit_created" /\ job'[w].new = new
  BY <1>1 DEF Step, TypeInv, JobsOK, DataOK, Job
<1>3. /\ row'[new].status = "pending" /\ ~Exists(row, new)
      /\ \A id \in Id : id # new => row'[id].status = row[id].status
  BY <1>1, <1>2 DEF Inserted, IsNextId, NoRow
<1>4. ASSUME NEW id \in Id, NEW event \in ToLog(row', id)
      PROVE  event \in ToLog(row, id) \/ Owes(pc'[w], job'[w], event, id)
  <2>1. CASE id = new
    BY <1>2, <1>3, <1>4, <2>1 DEF ToLog, Exists, Pending, Owes
  <2>2. CASE id # new
    BY <1>3, <1>4, <2>2 DEF ToLog, Exists, Pending
  <2> QED BY <2>1, <2>2
<1>5. \A event : \A id \in Id : ~Owes(pc[w], job[w], event, id)
  BY <1>2 DEF Owes
<1> QED BY <1>1, <1>4, <1>5, RecordedStep

LEMMA RecordedSweep ==
    ASSUME TypeInv, Recorded, NEW w \in Worker, OwnStep(w), SweepUpdate(w) PROVE Recorded'
<1>1. /\ pc \in [Worker -> PC] /\ row \in [Id -> Row] /\ job' = job /\ audit' = audit
      /\ pc[w] = "sweep_update" /\ pc'[w] = "sweep_audit"
      /\ row' = Expire(row, job[w].due, job[w].stamp)
      /\ \A id \in Id : id \in job[w].due => Exists(row, id)
  BY DEF SweepUpdate, Step, TypeInv, JobsOK, DataOK, KeptOK, KeepsAt
<1>2. \A id \in Id : row'[id].status = IF id \in job[w].due THEN "expired" ELSE row[id].status
  <2>1. ASSUME NEW id \in Id
        PROVE  row'[id].status = IF id \in job[w].due THEN "expired" ELSE row[id].status
    <3>1. row[id] \in Row
      BY <1>1
    <3> QED BY <1>1, <3>1 DEF Expire, Row
  <2> QED BY <2>1
<1>3. ASSUME NEW id \in Id, NEW event \in ToLog(row', id)
      PROVE  event \in ToLog(row, id) \/ Owes(pc'[w], job'[w], event, id)
  BY <1>1, <1>2, <1>3 DEF ToLog, Exists, Pending, Owes
<1>4. \A event : \A id \in Id : ~Owes(pc[w], job[w], event, id)
  BY <1>1 DEF Owes
<1> QED BY <1>1, <1>3, <1>4, RecordedStep

\* Each of the three log writes pays what is owed, the sweep's one by one.
LEMMA RecordedLog ==
    ASSUME TypeInv, Recorded, NEW w \in Worker, OwnStep(w),
           AuditCreated(w) \/ AuditDecided(w) \/ SweepAudit(w)
    PROVE  Recorded'
<1>0. pc \in [Worker -> PC] /\ job \in [Worker -> Job]
  BY DEF TypeInv, JobsOK
<1>1. row' = row /\ audit \subseteq audit'
  BY DEF AuditCreated, AuditDecided, SweepAudit, Log
<1>2. ASSUME NEW id \in Id, NEW event, Owes(pc[w], job[w], event, id)
      PROVE  <<event, id>> \in audit' \/ Owes(pc'[w], job'[w], event, id)
  <2>1. CASE AuditCreated(w) \/ AuditDecided(w)
    BY <1>2, <2>1 DEF AuditCreated, AuditDecided, Owes, Log, Exit, Step
  <2>2. CASE SweepAudit(w)
    <3>1. PICK i \in job[w].due :
            /\ Step(w, "sweep_audit", IF job[w].due = {i} THEN "next_site" ELSE "sweep_audit")
            /\ Log("expired", i)
            /\ job' = [job EXCEPT ![w].due = @ \ {i}]
      BY <2>2 DEF SweepAudit
    <3>2. event = "expired" /\ id \in job[w].due
      BY <1>2, <3>1 DEF Owes, Step
    <3>3. job'[w].due = job[w].due \ {i}
      BY <1>0, <3>1 DEF Job
    <3>4. CASE id = i
      BY <3>1, <3>2, <3>4 DEF Log
    <3>5. CASE id # i
      <4>1. pc'[w] = "sweep_audit"
        BY <1>0, <3>1, <3>2, <3>5 DEF Step
      <4> QED BY <3>2, <3>3, <3>5, <4>1 DEF Owes
    <3> QED BY <3>4, <3>5
  <2> QED BY <2>1, <2>2
<1>3. \A id \in Id : ToLog(row', id) = ToLog(row, id)
  BY <1>1 DEF ToLog, Exists, Pending
<1> QED BY <1>1, <1>2, <1>3, RecordedStep

LEMMA RecordedProcess ==
    ASSUME TypeInv, Recorded, NEW w \in Worker, ProcessStep(w) PROVE Recorded'
<1>0. OwnStep(w) /\ row \in [Id -> Row]
  BY Own DEF TypeInv, DataOK
<1>1. CASE Decide(w)
  BY <1>0, <1>1, RecordedDecide
<1>2. CASE Insert(w)
  BY <1>0, <1>2, RecordedInsert
<1>3. CASE SweepUpdate(w)
  BY <1>0, <1>3, RecordedSweep
<1>4. CASE AuditCreated(w) \/ AuditDecided(w) \/ SweepAudit(w)
  BY <1>0, <1>4, RecordedLog
<1>5. CASE pc[w] \notin Owing /\ row' = row /\ audit \subseteq audit'
  BY <1>0, <1>5, RecordedQuiet DEF SameStates
<1>6. CASE DecideLost(w)
  <2>1. pc[w] \notin Owing /\ row' = row /\ audit' = audit
    BY <1>6 DEF DecideLost, UpdateStatus, Exit, Step, Owing
  <2> QED BY <1>5, <2>1
<1>7. CASE Attach(w)
  <2>1. pc[w] \notin Owing /\ audit' = audit
    BY <1>7 DEF Attach, CardDone, Exit, Step, Owing
  <2>2. SameStates
    BY <1>0, <1>7 DEF Attach, AttachSlack, SameStates, Row
  <2> QED BY <1>0, <2>1, <2>2, RecordedQuiet
<1>8. CASE PatchingStep(w)
  <2>1. pc[w] \notin Owing /\ row' = row /\ audit \subseteq audit'
    BY <1>8 DEF PatchingStep, ReadConfig, AuditApplyFailed, BackupConfig, TruncateConfig,
                WriteConfig, AuditApplied, LoadConfigs, Rerun, RunSite, Report, Rollback,
                AuditRolledBack, Exit, Step, Log, Owing
  <2> QED BY <1>5, <2>1
<1>9. CASE DecidingStep(w)
  <2>1. ASSUME ~Decide(w), ~DecideLost(w), ~AuditDecided(w)
        PROVE  pc[w] \notin Owing /\ row' = row /\ audit \subseteq audit'
    BY <1>9, <2>1 DEF DecidingStep, Begin, Get, GetRefused, Recheck, RecheckRefused,
                      Exit, Step, Owing
  <2> QED BY <1>1, <1>4, <1>5, <1>6, <2>1
<1>10. CASE HealingStep(w)
  <2>1. ASSUME ~Insert(w), ~AuditCreated(w), ~Attach(w)
        PROVE  pc[w] \notin Owing /\ row' = row /\ audit \subseteq audit'
    BY <1>10, <2>1 DEF HealingStep, HealHistory, HealPending, HealRejected, HealLlm,
                       HealGuard, HealSkip, Count, Llm, Post, CardDone, Exit, Step, Owing
  <2> QED BY <1>2, <1>4, <1>5, <1>7, <2>1
<1>11. CASE CollectingStep(w)
  <2>1. ASSUME ~SweepUpdate(w), ~SweepAudit(w)
        PROVE  pc[w] \notin Owing /\ row' = row /\ audit \subseteq audit'
    BY <1>11, <2>1 DEF CollectingStep, Collect, Acquire, AcquireRefused, SweepSelect,
                       CollectSite, RunSite, Release, Exit, Step, Owing
  <2> QED BY <1>3, <1>4, <1>5, <2>1
<1> QED BY <1>8, <1>9, <1>10, <1>11 DEF ProcessStep

\* A process killed between the two writes leaves its debt unpaid for ever;
\* killed anywhere else it owes nothing.
LEMMA RecordedNext ==
    ASSUME TypeInv, Spared(Owing) => Recorded, [Next]_vars, Spared(Owing)'
    PROVE  Recorded'
<1>1. ASSUME NEW w \in Worker, Crash(w) PROVE Recorded'
  <2>1. Recorded /\ pc[w] \notin Owing
    BY <1>1, SparedCrash
  <2>2. row' = row /\ audit' = audit
    BY <1>1 DEF Crash
  <2>3. SameStates
    BY <2>2 DEF SameStates
  <2> QED BY <1>1, <2>1, <2>2, <2>3, Own, RecordedQuiet
<1>2. CASE ~\E w \in Worker : Crash(w)
  <2>1. Recorded
    BY <1>2, SparedStep
  <2>2. ASSUME NEW w \in Worker, ProcessStep(w) PROVE Recorded'
    BY <2>1, <2>2, RecordedProcess
  <2>3. CASE UNCHANGED <<row, audit, pc, job>>
    BY <2>1, <2>3 DEF Recorded
  <2>4. CASE ClearStaleLock \/ Tick \/ UNCHANGED vars
    BY <2>3, <2>4 DEF ClearStaleLock, Tick, vars
  <2> QED BY <1>2, <2>2, <2>4 DEF Next
<1> QED BY <1>1, <1>2

LEMMA RecordedQuietly == Recorded => QuietlyAudited
<1> SUFFICES ASSUME Recorded, Quiet, NEW id \in Id, Exists(row, id)
             PROVE  /\ <<"created", id>> \in audit
                    /\ id \notin Pending(row) => <<row[id].status, id>> \in audit
  BY DEF QuietlyAudited
<1>1. \A event : ~\E w \in Worker : Owes(pc[w], job[w], event, id)
  BY DEF Quiet, Owes
<1>2. "created" \in ToLog(row, id)
      /\ (id \notin Pending(row) => row[id].status \in ToLog(row, id))
  BY DEF ToLog
<1> QED BY <1>1, <1>2 DEF Recorded

\* When all is quiet the log accounts for every request and for every way it
\* was closed, if no process was killed between a write to the table and the
\* line in the log that belongs to it; kills anywhere else do no harm.
THEOREM AuditComplete == Spec => [](Spared(Owing) => QuietlyAudited)
<1> DEFINE Inv == Spared(Owing) => Recorded
<1>1. Init => Inv
  BY RecordedInit
<1>2. TypeInv /\ Inv /\ [Next]_vars => Inv'
  BY RecordedNext
<1>3. Inv => (Spared(Owing) => QuietlyAudited)
  BY RecordedQuietly
<1> QED BY <1>1, <1>2, <1>3, TypeInvariant, PTL DEF Spec

-----------------------------------------------------------------------------
(* What is in the configs is verified, if approve commands do not overlap. *)

\* The program points at which the config of an approve command contains its
\* patch, or nothing at all, and the outcome of the patch is open.
Patched == {"audit_applied", "load", "rerun", "report", "rb_truncate"} \cup HealPC
Unverified == Patched \cup {"write", "rb_write"}

\* Those at which its request is decided and its outcome open.
Closing == ApplyPC \cup HealPC \cup {"audit_decided"}

Verified(c) == c # Torn /\ \A id \in c : outcome[id] = "kept"

\* What an approve command has in its hands: a copy of the config that is
\* verified, made before it touches the config.
TriedAt(p, j) ==
    /\ p \in Closing => outcome[j.id] = "none" /\ Settled(row, j.id)
    /\ p \in {"backup", "truncate"} => j.text = yaml[j.site]
    /\ p = "truncate" => backup[j.site][j.stamp] = yaml[j.site]
    /\ p = "write" => Verified(j.text)
    /\ p \in Unverified => Verified(backup[j.site][j.stamp])
    /\ p \in Patched =>
         yaml[j.site] # Torn /\ \A id \in yaml[j.site] : id = j.id \/ outcome[id] = "kept"

Approving(w) == job[w].kind = "approve"

Approvers == \A w \in Worker : Approving(w) => pc[w] # "idle"

\* Past its decision an approve command is the only one that is, of whatever
\* site: one that finds another's config empty ends without its rollback.
InHand(w) == Approving(w) /\ pc[w] \in Closing
Apart == \A v, w \in Worker : InHand(v) /\ InHand(w) => v = w

Untried == \A id \in Id : ~Settled(row, id) => outcome[id] = "none"

Attended ==
    \A s \in Site :
        \/ Verified(yaml[s])
        \/ \E w \in Worker : Approving(w) /\ pc[w] \in Unverified /\ job[w].site = s

VerifiedInv ==
    /\ Approvers
    /\ Untried
    /\ Attended
    /\ \A w \in Worker : Approving(w) => TriedAt(pc[w], job[w])

LEMMA VerifiedInit == Init => VerifiedInv
<1> SUFFICES ASSUME Init PROVE VerifiedInv
  OBVIOUS
<1>1. \A s \in Site : Verified(yaml[s])
  BY DEF Init, Verified, Torn
<1>2. Untried
  BY DEF Init, Untried
<1>3. \A w \in Worker : ~Approving(w)
  BY DEF Init, Approving, NoJob
<1> QED BY <1>1, <1>2, <1>3 DEF VerifiedInv, Approvers, Attended

LEMMA UnverifiedCloses ==
    Unverified \subseteq Closing /\ Patched \subseteq Unverified /\ ApplyPC \subseteq Closing
BY DEF Unverified, Patched, Closing, ApplyPC

\* While an approve command has its patch in hand, every other config is
\* verified, and its own is too unless it stands where it is not.
LEMMA OthersVerified ==
    ASSUME VerifiedInv, Apart, NEW w \in Worker, InHand(w), NEW s \in Site,
           s # job[w].site \/ pc[w] \notin Unverified
    PROVE  Verified(yaml[s])
BY UnverifiedCloses DEF VerifiedInv, Apart, InHand, Attended

LEMMA UntriedStill ==
    ASSUME Untried, Onward(row, row'), outcome' = outcome PROVE Untried'
BY DEF Untried, Onward, Settled

\* A step of the approve command that has its patch in hand, or takes it.
LEMMA ApproverMoves ==
    ASSUME VerifiedInv, Apart, Apart', NEW w \in Worker, OwnStep(w),
           InHand(w) \/ InHand(w)',
           Approving(w)' => pc'[w] # "idle" /\ TriedAt(pc[w], job[w])', Untried', Attended'
    PROVE  VerifiedInv'
<1>1. ASSUME NEW v \in Worker, v # w, Approving(v)'
      PROVE  pc'[v] # "idle" /\ TriedAt(pc[v], job[v])'
  <2>1. Approving(v) /\ pc'[v] = pc[v]
    BY <1>1 DEF OwnStep, Approving
  <2>2. pc'[v] \notin Closing
    BY <1>1, <2>1 DEF Apart, InHand
  <2>3. TriedAt(pc[v], job[v])'
    BY <2>2 DEF TriedAt, Closing, Unverified, Patched, ApplyPC
  <2> QED BY <2>1, <2>3 DEF VerifiedInv, Approvers
<1> QED BY <1>1 DEF VerifiedInv, Approvers

\* A step at which nothing is at stake: the process is no approve command, or
\* it has not decided yet, or it is killed before it has touched the config.
LEMMA FreeMoves ==
    ASSUME VerifiedInv, NEW w \in Worker, OwnStep(w), Onward(row, row'),
           UNCHANGED <<yaml, backup, outcome>>, TypeInv,
           Approving(w) => pc[w] \notin Unverified,
           Approving(w)' => pc'[w] \notin Closing \cup {"idle"}
    PROVE  VerifiedInv'
<1>1. \A c : Verified(c) => Verified(c)'
  BY DEF Verified
<1>2. ASSUME NEW v \in Worker, v # w, Approving(v)'
      PROVE  Approving(v) /\ pc'[v] # "idle" /\ TriedAt(pc[v], job[v])'
  <2>1. Approving(v) /\ pc'[v] = pc[v] /\ job'[v] = job[v]
    BY <1>2 DEF OwnStep, Approving
  <2>2. pc[v] # "idle" /\ TriedAt(pc[v], job[v])
    BY <2>1 DEF VerifiedInv, Approvers
  <2>3. pc[v] \in Closing => job[v].id \in Id
    BY <2>1 DEF TypeInv, JobsOK, ShapeAt, Approving
  <2>4. TriedAt(pc[v], job[v])'
    BY <2>1, <2>2, <2>3 DEF TriedAt, Verified, Onward
  <2> QED BY <2>1, <2>2, <2>4
<1>3. ASSUME Approving(w)' PROVE TriedAt(pc[w], job[w])'
  BY <1>3 DEF TriedAt, Closing, Unverified, Patched, ApplyPC
<1>4. Attended'
  <2>1. ASSUME NEW s \in Site, NEW v \in Worker, Approving(v), pc[v] \in Unverified,
               job[v].site = s
        PROVE  Approving(v)' /\ pc'[v] \in Unverified /\ job'[v].site = s
    BY <2>1 DEF OwnStep, Approving
  <2>2. ASSUME NEW s \in Site, Verified(yaml[s]) PROVE Verified(yaml[s])'
    BY <2>2 DEF Verified
  <2> QED BY <2>1, <2>2 DEF VerifiedInv, Attended
<1>5. Untried'
  BY UntriedStill DEF VerifiedInv
<1> QED BY <1>2, <1>3, <1>4, <1>5 DEF VerifiedInv, Approvers

\* A step of the rerun that verifies the patch, or of its healing.
LEMMA PatchedMoves ==
    ASSUME VerifiedInv, TypeInv, Apart, Apart', NEW w \in Worker, OwnStep(w),
           Onward(row, row'), UNCHANGED <<yaml, backup, outcome>>,
           Approving(w), pc[w] \in Patched, pc'[w] \in Patched,
           job'[w].site = job[w].site, job'[w].stamp = job[w].stamp
    PROVE  VerifiedInv'
<1>1. pc[w] # "idle" /\ pc'[w] # "idle"
  BY DEF Patched, HealPC
<1>2. job'[w].kind = "approve" /\ job'[w].id = job[w].id /\ job[w].id \in Id
  BY <1>1 DEF OwnStep, Approving, TypeInv, JobsOK, ShapeAt
<1>3. pc[w] \in Closing /\ pc'[w] \in Closing /\ pc'[w] \in Unverified
      /\ pc[w] \in Unverified /\ pc'[w] \notin {"backup", "truncate", "write"}
  BY DEF Patched, Closing, Unverified, ApplyPC, HealPC
<1>4. TriedAt(pc[w], job[w])
  BY DEF VerifiedInv
<1>5. TriedAt(pc[w], job[w])'
  BY <1>2, <1>3, <1>4 DEF TriedAt, Verified, Onward
<1>6. Attended'
  <2>1. ASSUME NEW s \in Site, s # job[w].site PROVE Verified(yaml[s])'
    BY <1>3, <2>1, OthersVerified DEF Verified, InHand
  <2> QED BY <1>2, <1>3, <2>1 DEF Attended, Approving
<1>7. Untried'
  BY UntriedStill DEF VerifiedInv
<1> QED BY <1>1, <1>3, <1>5, <1>6, <1>7, ApproverMoves DEF InHand

LEMMA VerifiedDeciding ==
    ASSUME VerifiedInv, TypeInv, Apart, Apart', NEW w \in Worker, OwnStep(w),
           DecidingStep(w), Onward(row, row')
    PROVE  VerifiedInv'
<1>0. /\ pc \in [Worker -> PC] /\ job \in [Worker -> Job] /\ row \in [Id -> Row]
      /\ ShapeAt(pc[w], job[w]) /\ UNCHANGED <<yaml, backup, outcome>>
  BY DEF TypeInv, JobsOK, DataOK, DecidingStep, Begin, Get, GetRefused, Recheck,
         RecheckRefused, Decide, DecideLost, AuditDecided, files, ghost
<1>1. Approving(w) => pc[w] # "idle" /\ TriedAt(pc[w], job[w])
  BY DEF VerifiedInv, Approvers
<1>2. ASSUME ~Decide(w), ~AuditDecided(w) PROVE VerifiedInv'
  <2>1. /\ pc[w] \notin Unverified
        /\ Approving(w)' => pc'[w] \notin Closing \cup {"idle"}
    <3>1. ASSUME NEW kind \in Kind \ {"collect"}, NEW id \in Id, Begin(w, kind, id)
          PROVE  pc[w] = "idle" /\ pc'[w] = "get"
      BY <1>0, <3>1 DEF Begin, Step
    <3>2. CASE Get(w) \/ Recheck(w)
      <4>1. pc[w] \in {"get", "decide"} /\ pc'[w] \in {"count", "decide", "cas"}
            /\ job'[w].kind = job[w].kind
            /\ (job[w].kind = "approve" => pc'[w] # "count")
        BY <1>0, <3>2 DEF Get, Recheck, Step, AfterGet, Job
      <4> QED
        BY <1>1, <4>1
           DEF Approving, Unverified, Closing, Patched, ApplyPC, HealPC
    <3>3. CASE GetRefused(w) \/ RecheckRefused(w) \/ DecideLost(w)
      <4>1. pc[w] \in {"get", "decide", "cas"} /\ job'[w].kind = "none"
        BY <1>0, <3>3 DEF GetRefused, RecheckRefused, DecideLost, Exit, Step, NoJob
      <4> QED BY <4>1 DEF Approving, Unverified, Patched, HealPC
    <3> QED
      BY <1>2, <3>1, <3>2, <3>3
         DEF DecidingStep, Unverified, Closing, Patched, ApplyPC, HealPC
  <2> QED BY <1>0, <2>1, FreeMoves
<1>3. ASSUME Decide(w) \/ AuditDecided(w), ~Approving(w) PROVE VerifiedInv'
  <2>1. pc[w] \in {"cas", "audit_decided"} /\ ~Approving(w)'
    BY <1>0, <1>3 DEF Decide, AuditDecided, Exit, Step, Approving, NoJob
  <2> QED BY <1>0, <1>3, <2>1, FreeMoves
<1>4. ASSUME Decide(w) \/ AuditDecided(w), Approving(w) PROVE VerifiedInv'
  <2>1. /\ \/ pc[w] = "cas" /\ pc'[w] = "audit_decided"
           \/ pc[w] = "audit_decided" /\ pc'[w] = "read"
        /\ job' = job /\ job[w].id \in Id
    BY <1>0, <1>4
       DEF Decide, AuditDecided, Exit, Step, Approving, ShapeAt, DecidePC
  <2>2. outcome[job[w].id] = "none" /\ Settled(row', job[w].id)
    <3>1. CASE Decide(w)
      <4>1. Matches(row, job[w].id)
            /\ row' = UpdateStatus(row, job[w].id, DecisionOf(job[w].kind), now)
        BY <3>1 DEF Decide
      <4>2. ~Settled(row, job[w].id)
        BY <4>1 DEF Matches, Pending, Settled
      <4>3. job[w].kind \in {"approve", "reject", "regenerate"}
        BY <1>4 DEF Approving
      <4> QED BY <2>1, <4>1, <4>2, <4>3, OnwardUpdate DEF VerifiedInv, Untried
    <3>2. CASE AuditDecided(w)
      <4>1. pc[w] \in Closing
        BY <3>2 DEF AuditDecided, Exit, Step, Closing
      <4> QED BY <1>1, <1>4, <2>1, <4>1 DEF TriedAt, Onward
    <3> QED BY <1>4, <3>1, <3>2
  <2>3. pc[w] \notin Unverified /\ pc'[w] \notin Unverified \cup {"backup", "truncate", "idle"}
    BY <2>1 DEF Unverified, Patched, HealPC
  <2>4. TriedAt(pc[w], job[w])'
    BY <1>0, <2>1, <2>2, <2>3 DEF TriedAt, Unverified
  <2>5. Attended'
    <3>1. ASSUME NEW s \in Site, NEW v \in Worker, Approving(v), pc[v] \in Unverified,
                 job[v].site = s
          PROVE  Approving(v)' /\ pc'[v] \in Unverified /\ job'[v].site = s
      BY <2>1, <2>3, <3>1 DEF OwnStep, Approving
    <3> QED BY <1>0, <3>1 DEF VerifiedInv, Attended, Verified
  <2>6. Untried'
    BY <1>0, UntriedStill DEF VerifiedInv
  <2>7. InHand(w) \/ InHand(w)'
    BY <1>4, <2>1 DEF InHand, Approving, Closing
  <2> QED BY <2>3, <2>4, <2>5, <2>6, <2>7, ApproverMoves
<1> QED BY <1>2, <1>3, <1>4

LEMMA VerifiedHealing ==
    ASSUME VerifiedInv, TypeInv, Apart, Apart', NEW w \in Worker, OwnStep(w),
           HealingStep(w), Onward(row, row')
    PROVE  VerifiedInv'
<1>0. /\ pc \in [Worker -> PC] /\ job \in [Worker -> Job]
      /\ ShapeAt(pc[w], job[w]) /\ UNCHANGED <<yaml, backup, outcome>>
      /\ pc[w] \in HealPC
  BY DEF TypeInv, JobsOK, HealingStep, HealHistory, HealPending, HealRejected, HealLlm,
         HealGuard, HealSkip, Count, Llm, Insert, AuditCreated, Post, Attach, CardDone,
         Exit, Step, HealPC, files, ghost
<1>1. CASE Approving(w)
  <2>1. pc[w] \notin {"count", "llm"} /\ AfterRun(w, job[w].ok) \in {"report", "rb_truncate"}
    BY <1>0, <1>1 DEF Approving, ShapeAt, AfterRun
  <2>2. /\ pc'[w] \in HealPC \cup {"report", "rb_truncate"}
        /\ job'[w].site = job[w].site /\ job'[w].stamp = job[w].stamp
    <3>1. CASE HealHistory(w) \/ HealPending(w) \/ HealRejected(w) \/ HealLlm(w)
      BY <1>0, <2>1, <3>1
         DEF HealHistory, HealPending, HealRejected, HealLlm, HealGuard, HealSkip, Step,
             HealPC
    <3>2. CASE Insert(w)
      <4>1. PICK id \in Id : Step(w, "insert", "audit_created")
                             /\ job' = [job EXCEPT ![w].new = id]
        BY <3>2 DEF Insert
      <4> QED BY <1>0, <4>1 DEF Step, HealPC, Job
    <3>3. CASE AuditCreated(w) \/ Post(w) \/ Attach(w)
      BY <1>0, <1>1, <2>1, <3>3
         DEF AuditCreated, Post, Attach, CardDone, Step, HealPC, Approving
    <3>4. ~Count(w) /\ ~Llm(w)
      BY <2>1 DEF Count, Llm, HealGuard, Exit, Step
    <3> QED BY <3>1, <3>2, <3>3, <3>4 DEF HealingStep
  <2>3. pc[w] \in Patched /\ pc'[w] \in Patched
    BY <1>0, <2>2 DEF Patched
  <2> QED BY <1>0, <1>1, <2>2, <2>3, PatchedMoves
<1>2. CASE ~Approving(w)
  <2>1. ~Approving(w)'
    <3>1. pc[w] # "idle"
      BY <1>0 DEF HealPC
    <3>2. pc'[w] = "idle" => job'[w] = NoJob
      BY <1>0
         DEF HealingStep, HealHistory, HealPending, HealRejected, HealLlm, HealGuard,
             HealSkip, Count, Llm, Insert, AuditCreated, Post, Attach, CardDone, Exit,
             Step, AfterRun
    <3> QED BY <1>2, <3>1, <3>2 DEF OwnStep, Approving, NoJob
  <2> QED BY <1>0, <1>2, <2>1, FreeMoves
<1> QED BY <1>1, <1>2

LEMMA VerifiedCollecting ==
    ASSUME VerifiedInv, TypeInv, Apart, Apart', NEW w \in Worker, OwnStep(w),
           CollectingStep(w), Onward(row, row')
    PROVE  VerifiedInv'
<1>0. /\ pc \in [Worker -> PC] /\ job \in [Worker -> Job]
      /\ ShapeAt(pc[w], job[w]) /\ UNCHANGED <<yaml, backup, outcome>>
      /\ pc[w] \in CollectPC \/ Collect(w)
  BY DEF TypeInv, JobsOK, CollectingStep, Acquire, AcquireRefused, SweepSelect,
         SweepUpdate, SweepAudit, CollectSite, RunSite, Release, Collect,
         Exit, Step, CollectPC, files, ghost
<1>1. CASE Collect(w)
  <2>1. pc[w] = "idle" /\ ~Approving(w)'
    BY <1>0, <1>1 DEF Collect, Step, Approving, NoJob
  <2>2. ~Approving(w)
    BY <2>1 DEF VerifiedInv, Approvers
  <2> QED BY <1>0, <2>1, <2>2, FreeMoves
<1>2. CASE ~Collect(w)
  <2>1. ~Approving(w) /\ pc[w] # "idle"
    BY <1>0, <1>2 DEF ShapeAt, Approving, CollectPC
  <2>2. pc'[w] = "idle" => job'[w] = NoJob
    BY <1>0, <1>2
       DEF CollectingStep, Acquire, AcquireRefused, SweepSelect, SweepUpdate, SweepAudit,
           CollectSite, RunSite, Release, Exit, Step, AfterRun
  <2>3. ~Approving(w)'
    BY <2>1, <2>2 DEF OwnStep, Approving, NoJob
  <2> QED BY <1>0, <2>1, <2>3, FreeMoves
<1> QED BY <1>1, <1>2

\* A command that ends without keeping its patch: every config is verified by
\* then, and none contains it.
LEMMA GaveUp ==
    ASSUME VerifiedInv, TypeInv, Apart, Apart', NEW w \in Worker, OwnStep(w), Approving(w),
           pc[w] \in {"audit_failed", "audit_rolled_back"}, ~Approving(w)',
           row' = row, yaml' = yaml, NEW o,
           outcome' = [outcome EXCEPT ![job[w].id] = o]
    PROVE  VerifiedInv'
<1>1. pc[w] \in Closing /\ pc[w] \notin Unverified
  BY DEF Closing, Unverified, Patched, ApplyPC, HealPC
<1>2. /\ outcome[job[w].id] = "none" /\ Settled(row, job[w].id) /\ job[w].id \in Id
      /\ outcome \in [Id -> {"none", "kept", "rolled_back", "apply_failed"}]
  BY <1>1 DEF VerifiedInv, TriedAt, TypeInv, JobsOK, DataOK, ShapeAt, Approving
<1>3. ASSUME NEW s \in Site PROVE Verified(yaml[s])'
  <2>1. Verified(yaml[s])
    BY <1>1, OthersVerified DEF InHand
  <2>2. yaml[s] # Torn /\ yaml[s] \subseteq Id
    BY <2>1 DEF Verified, TypeInv, DataOK, Content
  <2> QED BY <1>2, <2>1, <2>2 DEF Verified
<1>4. Untried'
  BY <1>2 DEF VerifiedInv, Untried, Settled
<1> QED BY <1>1, <1>3, <1>4, ApproverMoves DEF Attended, InHand

LEMMA VerifiedPatching ==
    ASSUME VerifiedInv, TypeInv, Apart, Apart', NEW w \in Worker, OwnStep(w),
           PatchingStep(w), Onward(row, row')
    PROVE  VerifiedInv'
<1> DEFINE j == job[w]
<1>0. /\ pc \in [Worker -> PC] /\ job \in [Worker -> Job]
      /\ pc[w] \in ApplyPC /\ Approving(w) /\ InHand(w) /\ row' = row
  <2>1. pc[w] \in ApplyPC /\ row' = row
    BY DEF PatchingStep, ReadConfig, AuditApplyFailed, BackupConfig, TruncateConfig,
           WriteConfig, AuditApplied, LoadConfigs, Rerun, RunSite, Report, Rollback,
           AuditRolledBack, Exit, Step, ApplyPC
  <2> QED BY <2>1, UnverifiedCloses DEF TypeInv, JobsOK, ShapeAt, Approving, InHand
<1>1. /\ j \in Job /\ j.id \in Id /\ j.site \in Site /\ j.stamp \in Time
      /\ yaml \in [Site -> Content] /\ backup \in [Site -> [Time -> Content]]
      /\ outcome \in [Id -> {"none", "kept", "rolled_back", "apply_failed"}]
      /\ now \in Time
  <2>1. pc[w] # "get" /\ ShapeAt(pc[w], j) /\ j \in Job /\ DataOK
    BY <1>0 DEF TypeInv, JobsOK, ApplyPC
  <2> QED BY <1>0, <2>1 DEF DataOK, ShapeAt, Approving, Job
<1>2. TriedAt(pc[w], j) /\ Untried
  BY <1>0 DEF VerifiedInv
<1>3. outcome[j.id] = "none" /\ Settled(row, j.id)
  BY <1>0, <1>2 DEF TriedAt, Closing
<1>4. ASSUME NEW s \in Site, s # j.site \/ pc[w] \notin Unverified
      PROVE  Verified(yaml[s])
  BY <1>0, <1>4, OthersVerified
<1>5. CASE ReadConfig(w)
  <2>1. /\ pc[w] = "read" /\ pc'[w] \in {"backup", "audit_failed"}
        /\ UNCHANGED <<yaml, backup, outcome>>
        /\ job'[w].id = j.id /\ job'[w].site = j.site
        /\ pc'[w] = "backup" => job'[w].text = yaml[j.site]
    BY <1>0, <1>5 DEF ReadConfig, Step, files, ghost, Job
  <2>2. pc[w] \notin Unverified /\ pc'[w] \notin Unverified \cup {"truncate", "idle"}
    BY <2>1 DEF Unverified, Patched, HealPC
  <2>3. TriedAt(pc[w], job[w])'
    BY <1>0, <1>3, <2>1, <2>2 DEF TriedAt, Settled, Unverified
  <2>4. Attended'
    BY <1>4, <2>1, <2>2 DEF Attended, Verified
  <2>5. Untried'
    BY <1>2, <2>1, UntriedStill
  <2> QED BY <1>0, <2>2, <2>3, <2>4, <2>5, ApproverMoves
<1>6. CASE BackupConfig(w)
  <2>1. /\ pc[w] = "backup" /\ pc'[w] = "truncate" /\ UNCHANGED <<yaml, outcome>>
        /\ job'[w].id = j.id /\ job'[w].site = j.site /\ job'[w].stamp = now
        /\ job'[w].text = j.text
        /\ backup'[j.site][now] = yaml[j.site]
    BY <1>0, <1>1, <1>6 DEF BackupConfig, Step, ghost, Job
  <2>2. pc[w] \notin Unverified /\ pc'[w] \notin Unverified \cup {"idle"}
    BY <2>1 DEF Unverified, Patched, HealPC
  <2>3. TriedAt(pc[w], job[w])'
    BY <1>0, <1>2, <1>3, <2>1, <2>2 DEF TriedAt, Settled, Unverified
  <2>4. Attended'
    BY <1>4, <2>1, <2>2 DEF Attended, Verified
  <2>5. Untried'
    BY <1>2, <2>1, UntriedStill
  <2> QED BY <1>0, <2>2, <2>3, <2>4, <2>5, ApproverMoves
<1>7. CASE TruncateConfig(w, "truncate", "write") \/ TruncateConfig(w, "rb_truncate", "rb_write")
  <2>1. /\ \/ pc[w] = "truncate" /\ pc'[w] = "write"
           \/ pc[w] = "rb_truncate" /\ pc'[w] = "rb_write"
        /\ UNCHANGED <<job, backup, outcome>>
        /\ \A s \in Site : s # j.site => yaml'[s] = yaml[s]
    BY <1>0, <1>1, <1>7 DEF TruncateConfig, Step, ghost
  <2>2. pc'[w] \in Unverified /\ pc'[w] \notin Patched \cup {"backup", "truncate", "idle"}
    BY <2>1 DEF Unverified, Patched, HealPC
  <2>3. Verified(backup[j.site][j.stamp]) /\ (pc[w] = "truncate" => Verified(j.text))
    <3>1. CASE pc[w] = "truncate"
      <4>1. pc[w] \notin Unverified
        BY <3>1 DEF Unverified, Patched, HealPC
      <4> QED BY <1>1, <1>2, <1>4, <3>1, <4>1 DEF TriedAt
    <3>2. CASE pc[w] = "rb_truncate"
      BY <1>2, <3>2 DEF TriedAt, Unverified, Patched
    <3> QED BY <2>1, <3>1, <3>2
  <2>4. TriedAt(pc[w], job[w])'
    BY <1>0, <1>3, <2>1, <2>2, <2>3 DEF TriedAt, Settled, Verified
  <2>5. \A s \in Site : s # j.site => Verified(yaml[s])'
    BY <1>4, <2>1 DEF Verified
  <2>6. Attended'
    BY <1>0, <2>1, <2>2, <2>5 DEF Attended, Approving
  <2>7. Untried'
    BY <1>0, <1>2, <2>1, UntriedStill
  <2> QED BY <1>0, <2>2, <2>4, <2>6, <2>7, ApproverMoves
<1>8. CASE WriteConfig(w)
  <2>1. /\ pc[w] = "write" /\ pc'[w] = "audit_applied"
        /\ UNCHANGED <<job, backup, outcome>>
        /\ yaml'[j.site] = j.text \cup {j.id}
        /\ \A s \in Site : s # j.site => yaml'[s] = yaml[s]
    BY <1>0, <1>1, <1>8 DEF WriteConfig, Step, ghost
  <2>2. pc'[w] \in Patched
    BY <2>1 DEF Patched
  <2>3. Verified(backup[j.site][j.stamp]) /\ Verified(j.text)
    BY <1>2, <2>1 DEF TriedAt, Unverified
  <2>4. yaml'[j.site] # Torn
    <3>1. j.id \in yaml'[j.site] /\ j.id # 0
      BY <1>1, <2>1 DEF Id
    <3> QED BY <3>1 DEF Torn
  <2>5. TriedAt(pc[w], job[w])'
    BY <1>0, <1>3, <2>1, <2>3, <2>4 DEF TriedAt, Settled, Verified
  <2>6. \A s \in Site : s # j.site => Verified(yaml[s])'
    BY <1>4, <2>1 DEF Verified
  <2>7. Attended'
    BY <1>0, <2>1, <2>2, <2>6 DEF Attended, Approving, Unverified
  <2>8. Untried'
    BY <1>0, <1>2, <2>1, UntriedStill
  <2> QED BY <1>0, <2>1, <2>5, <2>7, <2>8, ApproverMoves
<1>9. CASE AuditApplied(w) \/ LoadConfigs(w) \/ Rerun(w)
  <2>1. pc[w] \in Patched /\ UNCHANGED <<yaml, backup, outcome>>
    BY <1>9 DEF AuditApplied, LoadConfigs, Rerun, RunSite, Exit, Step, Patched, files, ghost
  <2>2. \A s \in Site : yaml[s] # Torn
    <3>1. yaml[j.site] # Torn
      BY <1>2, <2>1 DEF TriedAt
    <3> QED BY <1>4, <3>1 DEF Verified
  <2>3. /\ pc'[w] \in {"load", "rerun", "rb_truncate", "report", "heal_history"}
        /\ job'[w].site = j.site /\ job'[w].stamp = j.stamp
    <3>1. CASE AuditApplied(w)
      BY <1>0, <3>1 DEF AuditApplied, Step
    <3>2. CASE LoadConfigs(w)
      BY <1>0, <2>2, <3>2 DEF LoadConfigs, Step
    <3>3. CASE Rerun(w)
      <4>1. \A ok : AfterRun(w, ok) \in {"report", "rb_truncate"}
        BY <1>0 DEF AfterRun, Approving
      <4>2. ASSUME NEW r \in Results, RunSite(w, j.site, "rerun")!1!(r)
            PROVE  /\ pc'[w] \in {"load", "rerun", "rb_truncate", "report", "heal_history"}
                   /\ job'[w].site = j.site /\ job'[w].stamp = j.stamp
        <5> DEFINE ok == job[w].kind = "approve" /\ r.records # "none"
        <5>1. /\ Step(w, "rerun", IF r.status = "failed" THEN "heal_history"
                                                         ELSE AfterRun(w, ok))
              /\ job' = [job EXCEPT ![w].site = j.site, ![w].ok = ok,
                                    ![w].todo = @ \ {j.site}]
          BY <4>2
        <5> HIDE DEF ok
        <5> QED BY <1>0, <4>1, <5>1 DEF Step, Job
      <4>3. CASE RunSite(w, j.site, "rerun")!2
        BY <1>0, <4>1, <4>3 DEF Step, Job
      <4> QED BY <3>3, <4>2, <4>3 DEF Rerun, RunSite
    <3> QED BY <1>9, <3>1, <3>2, <3>3
  <2>4. pc'[w] \in Patched
    BY <2>3 DEF Patched, HealPC
  <2> QED BY <1>0, <2>1, <2>3, <2>4, PatchedMoves
<1>10. CASE Report(w)
  <2>1. /\ pc[w] = "report" /\ ~Approving(w)' /\ yaml' = yaml
        /\ outcome' = [outcome EXCEPT ![j.id] = "kept"]
    BY <1>0, <1>10 DEF Report, Exit, Step, Approving, NoJob, files
  <2>2. ASSUME NEW s \in Site PROVE Verified(yaml[s])'
    <3>1. yaml[s] # Torn /\ \A id \in yaml[s] : id = j.id \/ outcome[id] = "kept"
      <4>1. CASE s = j.site
        BY <1>2, <2>1, <4>1 DEF TriedAt, Patched
      <4>2. CASE s # j.site
        BY <1>4, <4>2 DEF Verified
      <4> QED BY <4>1, <4>2
    <3>2. yaml[s] \subseteq Id
      BY <1>1, <3>1 DEF Content
    <3> QED BY <1>1, <2>1, <3>1, <3>2 DEF Verified
  <2>3. Untried'
    BY <1>0, <1>1, <1>2, <1>3, <2>1 DEF Untried, Settled
  <2> QED BY <1>0, <2>1, <2>2, <2>3, ApproverMoves DEF Attended
<1>11. CASE Rollback(w)
  <2>1. /\ pc[w] = "rb_write" /\ pc'[w] = "audit_rolled_back"
        /\ UNCHANGED <<job, backup, outcome>>
        /\ yaml'[j.site] = backup[j.site][j.stamp]
        /\ \A s \in Site : s # j.site => yaml'[s] = yaml[s]
    BY <1>0, <1>1, <1>11 DEF Rollback, Step, ghost
  <2>2. pc'[w] \notin Unverified \cup {"backup", "truncate", "idle"}
    BY <2>1 DEF Unverified, Patched, HealPC
  <2>3. Verified(backup[j.site][j.stamp])
    BY <1>2, <2>1 DEF TriedAt, Unverified
  <2>4. \A s \in Site : Verified(yaml[s])'
    BY <1>4, <2>1, <2>3 DEF Verified
  <2>5. TriedAt(pc[w], job[w])'
    BY <1>0, <1>3, <2>1, <2>2 DEF TriedAt, Settled, Unverified
  <2>6. Untried'
    BY <1>0, <1>2, <2>1, UntriedStill
  <2> QED BY <1>0, <2>2, <2>4, <2>5, <2>6, ApproverMoves DEF Attended
<1>12. CASE AuditApplyFailed(w)
  <2>1. /\ pc[w] = "audit_failed" /\ ~Approving(w)' /\ yaml' = yaml
        /\ outcome' = [outcome EXCEPT ![j.id] = "apply_failed"]
    BY <1>0, <1>12 DEF AuditApplyFailed, Exit, Step, Approving, NoJob, files
  <2> QED BY <1>0, <2>1, GaveUp
<1>13. CASE AuditRolledBack(w)
  <2>1. /\ pc[w] = "audit_rolled_back" /\ ~Approving(w)' /\ yaml' = yaml
        /\ outcome' = [outcome EXCEPT ![j.id] = "rolled_back"]
    BY <1>0, <1>13 DEF AuditRolledBack, Exit, Step, Approving, NoJob, files
  <2> QED BY <1>0, <2>1, GaveUp
<1> QED
  BY <1>5, <1>6, <1>7, <1>8, <1>9, <1>10, <1>11, <1>12, <1>13 DEF PatchingStep

LEMMA VerifiedNext ==
    ASSUME TypeInv, Apart, Apart', Spared(Unverified) => VerifiedInv, [Next]_vars,
           Spared(Unverified)'
    PROVE  VerifiedInv'
<1>0. Onward(row, row')
  BY OnwardNext
<1>1. ASSUME NEW w \in Worker, Crash(w) PROVE VerifiedInv'
  <2>1. VerifiedInv /\ pc[w] \notin Unverified
    BY <1>1, SparedCrash
  <2>2. UNCHANGED <<yaml, backup, outcome>> /\ ~Approving(w)'
    BY <1>1 DEF Crash, Exit, Step, files, ghost, TypeInv, JobsOK, Approving, NoJob
  <2> QED BY <1>0, <1>1, <2>1, <2>2, Own, FreeMoves
<1>2. CASE ~\E w \in Worker : Crash(w)
  <2>1. VerifiedInv
    BY <1>2, SparedStep
  <2>2. ASSUME NEW w \in Worker, ProcessStep(w) PROVE VerifiedInv'
    BY <1>0, <2>1, <2>2, Own, VerifiedDeciding, VerifiedHealing, VerifiedPatching,
       VerifiedCollecting DEF ProcessStep
  <2>3. CASE ClearStaleLock \/ Tick \/ UNCHANGED vars
    <3>1. UNCHANGED <<row, yaml, backup, pc, job, outcome>>
      BY <2>3 DEF ClearStaleLock, Tick, vars, files, ghost
    <3> QED
      BY <2>1, <3>1
         DEF VerifiedInv, Approvers, Untried, Attended, Approving, TriedAt, Verified
  <2> QED BY <1>2, <2>2, <2>3 DEF Next
<1> QED BY <1>1, <1>2

LEMMA VerifiedConfigs == VerifiedInv => ConfigsVerified
BY DEF VerifiedInv, Attended, Verified, Approving, ConfigsVerified

\* As long as no two approve commands overlap past their decisions, whenever
\* none is under way every config is whole and every patch in it was kept after
\* a rerun that collected records, unless a process was killed while its config
\* held an unverified patch or nothing: a rerun that fails always leads to a
\* rollback.
THEOREM VerifiedUnlessKilled ==
    Spec /\ []Apart => [](Spared(Unverified) => ConfigsVerified)
<1> DEFINE Inv == Spared(Unverified) => VerifiedInv
<1>1. Init => Inv
  BY VerifiedInit
<1>2. TypeInv /\ Apart /\ Apart' /\ Inv /\ [Next]_vars => Inv'
  BY VerifiedNext
<1>3. Inv => (Spared(Unverified) => ConfigsVerified)
  BY VerifiedConfigs
<1> HIDE DEF Inv
<1> QED BY <1>1, <1>2, <1>3, TypeInvariant, PTL DEF Spec

-----------------------------------------------------------------------------
(* One open request per site, as long as only collect runs heal: the run   *)
(* lock then keeps the check and the insert of two of them apart.          *)

\* Nothing is approved or regenerated.  An approve command's rerun heals, and
\* regenerate inserts, without the run lock.
OnlyCollectsHeal == \A w \in Worker : Commands[w] \cap {"approve", "regenerate"} = {}

\* The points between the check for a pending request and the insert.
Asking == {"heal_rejected", "heal_llm", "insert"}

AskInv ==
    /\ \A w \in Worker : job[w].kind \notin {"approve", "regenerate"}
    /\ \A v, w \in Worker : HoldsLock(v) => lock /\ (HoldsLock(w) => v = w)
    /\ \A w \in Worker : pc[w] \in Asking => PendingAt(row, job[w].site) = {}

LEMMA AskInit == Init => AskInv
BY DEF Init, AskInv, HoldsLock, NoJob, Asking

\* A process keeps to its command, or ends, or begins another; only Acquire
\* takes it past the lock.
Minds(w) ==
    \/ job'[w].kind = job[w].kind /\ pc[w] # "acquire"
    \/ job'[w].kind \in {"none"} \cup (Commands[w] \ {"collect"})
    \/ job'[w].kind = "collect" /\ pc'[w] = "acquire"

LEMMA ExitMinds ==
    ASSUME TypeInv, NEW w \in Worker, NEW from, Exit(w, from)
    PROVE  Minds(w)
BY DEF TypeInv, JobsOK, Exit, NoJob, Minds

LEMMA OwnMinds ==
    ASSUME TypeInv, NEW w \in Worker, OwnStep(w), pc[w] \notin {"idle", "acquire"},
           pc'[w] # "idle"
    PROVE  Minds(w)
BY DEF OwnStep, Minds

\* A site run ends in the guards of healing or where AfterRun says.
Leads(w, from) ==
    pc[w] = from /\ pc'[w] \in {"heal_history", "next_site", "report", "rb_truncate"}

LEMMA RunSiteLeads ==
    ASSUME TypeInv, NEW w \in Worker, NEW s, NEW from, RunSite(w, s, from)
    PROVE  Leads(w, from)
<1>0. pc \in [Worker -> PC]
  BY DEF TypeInv, JobsOK
<1>1. ASSUME NEW ok PROVE AfterRun(w, ok) \in {"next_site", "report", "rb_truncate"}
  BY DEF AfterRun
<1>2. \E to : Step(w, from, to) /\ (to = "heal_history" \/ \E ok : to = AfterRun(w, ok))
  BY DEF RunSite
<1> QED BY <1>0, <1>1, <1>2 DEF Step, Leads

LEMMA StepMinds ==
    ASSUME TypeInv, NEW w \in Worker, ProcessStep(w) \/ Crash(w)
    PROVE  Minds(w) \/ Acquire(w)
<1>0. pc \in [Worker -> PC] /\ job \in [Worker -> Job] /\ OwnStep(w)
  BY Own DEF TypeInv, JobsOK
<1>1. ASSUME NEW ok PROVE AfterRun(w, ok) # "idle"
  BY DEF AfterRun
<1>2. ASSUME NEW from \in {"rerun", "next_site"}, NEW s, RunSite(w, s, from) PROVE Minds(w)
  BY <1>0, <1>2, RunSiteLeads, OwnMinds DEF Leads
<1>3. CASE DecidingStep(w)
  <2>1. ASSUME NEW kind, NEW id, Begin(w, kind, id) PROVE Minds(w)
    BY <1>0, <2>1 DEF Begin, Minds
  <2>2. CASE GetRefused(w) \/ RecheckRefused(w) \/ DecideLost(w)
    BY <2>2, ExitMinds DEF GetRefused, RecheckRefused, DecideLost
  <2>3. CASE Get(w) \/ Recheck(w) \/ Decide(w)
    BY <1>0, <2>3, OwnMinds DEF Get, AfterGet, Recheck, Decide, Step
  <2>4. CASE AuditDecided(w)
    BY <1>0, <2>4, OwnMinds, ExitMinds DEF AuditDecided, Step
  <2> QED BY <1>3, <2>1, <2>2, <2>3, <2>4 DEF DecidingStep
<1>4. CASE HealingStep(w)
  <2>1. CASE HealHistory(w) \/ HealPending(w) \/ HealRejected(w) \/ HealLlm(w)
    BY <1>0, <1>1, <2>1, OwnMinds
       DEF HealHistory, HealPending, HealRejected, HealLlm, HealGuard, HealSkip, Step
  <2>2. CASE Count(w) \/ Llm(w)
    BY <1>0, <2>2, OwnMinds, ExitMinds DEF Count, Llm, HealGuard, Step
  <2>3. CASE Insert(w) \/ AuditCreated(w)
    BY <1>0, <2>3, OwnMinds DEF Insert, AuditCreated, Step
  <2>4. CASE Post(w) \/ Attach(w)
    BY <1>0, <1>1, <2>4, OwnMinds, ExitMinds DEF Post, Attach, CardDone, Step
  <2> QED BY <1>4, <2>1, <2>2, <2>3, <2>4 DEF HealingStep
<1>5. CASE PatchingStep(w)
  <2>1. CASE Rerun(w)
    BY <1>2, <2>1 DEF Rerun
  <2>2. CASE \/ ReadConfig(w) \/ BackupConfig(w) \/ WriteConfig(w) \/ AuditApplied(w)
             \/ TruncateConfig(w, "truncate", "write")
             \/ TruncateConfig(w, "rb_truncate", "rb_write") \/ Rollback(w)
    BY <1>0, <2>2, OwnMinds
       DEF ReadConfig, BackupConfig, WriteConfig, AuditApplied, TruncateConfig, Rollback, Step
  <2>3. CASE AuditApplyFailed(w) \/ Report(w) \/ AuditRolledBack(w) \/ LoadConfigs(w)
    BY <1>0, <2>3, OwnMinds, ExitMinds
       DEF AuditApplyFailed, Report, AuditRolledBack, LoadConfigs, Step
  <2> QED BY <1>5, <2>1, <2>2, <2>3 DEF PatchingStep
<1>6. CASE CollectingStep(w)
  <2>1. CASE Collect(w)
    BY <1>0, <2>1 DEF Collect, Step, Minds
  <2>2. CASE AcquireRefused(w) \/ Release(w)
    BY <2>2, ExitMinds DEF AcquireRefused, Release
  <2>3. CASE SweepSelect(w) \/ SweepUpdate(w) \/ SweepAudit(w)
    BY <1>0, <2>3, OwnMinds DEF SweepSelect, SweepUpdate, SweepAudit, Step
  <2>4. CASE CollectSite(w)
    BY <1>2, <2>4 DEF CollectSite
  <2> QED BY <1>6, <2>1, <2>2, <2>3, <2>4 DEF CollectingStep
<1>7. CASE Crash(w)
  BY <1>7, ExitMinds DEF Crash
<1> QED BY <1>3, <1>4, <1>5, <1>6, <1>7 DEF ProcessStep

\* Without an insert no request comes to exist, or is pending that was not, and
\* none changes its site.
NoneAsked ==
    /\ \A id \in Id : Exists(row', id) => Exists(row, id)
    /\ \A s : PendingAt(row', s) \subseteq PendingAt(row, s)

LEMMA OnlyInsertAsks ==
    ASSUME TypeInv, [Next]_vars, ~\E w \in Worker : Insert(w)
    PROVE  NoneAsked
<1>0. row \in [Id -> Row]
  BY DEF TypeInv, DataOK
<1>1. CASE row' = row
  BY <1>1 DEF NoneAsked
<1>2. ASSUME NEW w \in Worker, Decide(w) \/ DecideLost(w)
      PROVE  NoneAsked
  <2>1. PICK st \in Decision : row' = UpdateStatus(row, job[w].id, st, now)
    BY <1>2 DEF Decide, DecideLost, DecisionOf, Decision
  <2> QED BY <1>0, <2>1 
     DEF UpdateStatus, Matches, Pending, PendingAt, Decision, Row, Exists, NoneAsked
<1>3. ASSUME NEW w \in Worker, Attach(w)
      PROVE  NoneAsked
  BY <1>0, <1>3 DEF Attach, AttachSlack, Pending, PendingAt, Row, Exists, NoneAsked
<1>4. ASSUME NEW w \in Worker, SweepUpdate(w)
      PROVE  NoneAsked
  <2>1. \A id \in Id : id \in job[w].due => Exists(row, id)
    BY DEF TypeInv, KeptOK, KeepsAt
  <2>2. \A id \in Id : /\ Exists(row', id) => Exists(row, id)
                       /\ id \in Pending(row') => row'[id] = row[id]
    BY <1>0, <1>4, <2>1 DEF SweepUpdate, Expire, Pending, Row, Exists
  <2> QED BY <1>0, <2>2 DEF Pending, PendingAt, NoneAsked
<1>5. ASSUME NEW w \in Worker, ProcessStep(w)
      PROVE  row' = row \/ Decide(w) \/ DecideLost(w) \/ Attach(w) \/ SweepUpdate(w)
  BY <1>5
     DEF ProcessStep, DecidingStep, Begin, Get, GetRefused, Recheck, RecheckRefused,
         AuditDecided, HealingStep, HealHistory, HealPending, HealRejected, HealLlm,
         HealGuard, HealSkip, Count, Llm, AuditCreated, Post, PatchingStep, ReadConfig,
         AuditApplyFailed, BackupConfig, TruncateConfig, WriteConfig, AuditApplied,
         LoadConfigs, Rerun, Report, Rollback, AuditRolledBack, CollectingStep, Collect,
         Acquire, AcquireRefused, SweepSelect, SweepAudit, CollectSite, Release
<1> QED
  BY <1>1, <1>2, <1>3, <1>4, <1>5 DEF Next, Crash, ClearStaleLock, Tick, vars

\* The lock comes and goes with its holder, a killed one's apart.
LEMMA LockSteps ==
    ASSUME [Next]_vars, lock' # lock
    PROVE  \/ \E w \in Worker : Acquire(w) \/ Release(w)
           \/ ClearStaleLock
<1>1. ASSUME NEW w \in Worker, DecidingStep(w) PROVE lock' = lock
  BY <1>1 DEF DecidingStep, Begin, Get, GetRefused, Recheck, RecheckRefused, Decide,
              DecideLost, AuditDecided, world
<1>2. ASSUME NEW w \in Worker, HealingStep(w) PROVE lock' = lock
  BY <1>2 DEF HealingStep, HealHistory, HealPending, HealRejected, HealLlm, HealGuard,
              HealSkip, Count, Llm, Insert, AuditCreated, Post, Attach, world
<1>3. ASSUME NEW w \in Worker, PatchingStep(w) PROVE lock' = lock
  BY <1>3 DEF PatchingStep, ReadConfig, AuditApplyFailed, BackupConfig, TruncateConfig,
              WriteConfig, AuditApplied, LoadConfigs, Rerun, Report, Rollback,
              AuditRolledBack, world
<1>4. ASSUME NEW w \in Worker, CollectingStep(w)
      PROVE  lock' = lock \/ Acquire(w) \/ Release(w)
  BY <1>4 DEF CollectingStep, Collect, AcquireRefused, SweepSelect, SweepUpdate,
              SweepAudit, CollectSite, world
<1>5. ASSUME Tick \/ UNCHANGED vars \/ \E w \in Worker : Crash(w) PROVE lock' = lock
  BY <1>5 DEF Crash, Tick, vars
<1> QED BY <1>1, <1>2, <1>3, <1>4, <1>5 DEF Next, ProcessStep

\* Who asks has checked while it held the lock.
LEMMA AskersHold ==
    ASSUME TypeInv, AskInv, NEW w \in Worker, pc[w] \in Asking
    PROVE  HoldsLock(w)
BY DEF TypeInv, JobsOK, ShapeAt, HealGuardPC, HealPC, Asking, AskInv, HoldsLock

LEMMA AskProcess ==
    ASSUME TypeInv, AskInv, OnlyCollectsHeal, [Next]_vars,
           NEW w \in Worker, ProcessStep(w) \/ Crash(w)
    PROVE  AskInv'
<1>0. pc \in [Worker -> PC] /\ job \in [Worker -> Job] /\ ShapeAt(pc[w], job[w])
  BY DEF TypeInv, JobsOK
<1>1. OwnStep(w) /\ (Minds(w) \/ Acquire(w))
  BY Own, StepMinds
<1>2. ASSUME NEW v \in Worker \ {w} PROVE pc'[v] = pc[v] /\ job'[v] = job[v]
  BY <1>1 DEF OwnStep
<1>3. Acquire(w) => /\ job' = job /\ pc[w] = "acquire" /\ pc'[w] = "sweep"
                    /\ ~lock /\ lock' /\ job[w].kind = "collect"
  BY <1>0 DEF Acquire, Step, ShapeAt, CollectPC
<1>4. job'[w].kind \notin {"approve", "regenerate"}
  BY <1>1, <1>3 DEF Minds, AskInv, OnlyCollectsHeal
<1>5. HoldsLock(w)' => HoldsLock(w) \/ Acquire(w)
  BY <1>1, <1>3 DEF Minds, HoldsLock
<1>6. \A u, v \in Worker : HoldsLock(u)' => lock' /\ (HoldsLock(v)' => u = v)
  <2>1. CASE Acquire(w)
    BY <1>2, <1>3, <2>1 DEF AskInv, HoldsLock
  <2>2. CASE Release(w)
    <3>1. HoldsLock(w) /\ ~HoldsLock(w)'
      BY <1>0, <2>2 DEF Release, Exit, Step, NoJob, HoldsLock, ShapeAt, CollectPC
    <3>2. ASSUME NEW u \in Worker PROVE ~HoldsLock(u)'
      BY <1>2, <3>1 DEF AskInv, HoldsLock
    <3> QED BY <3>2
  <2>3. CASE ~Acquire(w) /\ ~Release(w)
    <3>1. ASSUME NEW u \in Worker, HoldsLock(u)' PROVE HoldsLock(u)
      BY <1>2, <1>5, <2>3, <3>1 DEF HoldsLock
    <3>2. (\E u \in Worker : HoldsLock(u)) => lock'
      <4>1. ASSUME NEW u \in Worker, Acquire(u) \/ Release(u) PROVE u = w
        BY <1>0, <1>2, <4>1 DEF Acquire, Release, Exit, Step
      <4>2. ~\E u \in Worker : Acquire(u) \/ Release(u)
        BY <2>3, <4>1
      <4>3. lock' = lock \/ ClearStaleLock
        BY <4>2, LockSteps
      <4> QED BY <4>3 DEF AskInv, ClearStaleLock
    <3> QED BY <3>1, <3>2 DEF AskInv
  <2> QED BY <2>1, <2>2, <2>3
<1>7. ASSUME NEW v \in Worker, pc'[v] \in Asking PROVE PendingAt(row', job'[v].site) = {}
  <2>1. CASE v # w
    <3>1. HoldsLock(v) /\ PendingAt(row, job[v].site) = {}
      BY <1>2, <1>7, <2>1, AskersHold DEF AskInv
    <3>2. ASSUME NEW u \in Worker, Insert(u) PROVE FALSE
      <4>1. u = w
        BY <1>0, <1>2, <3>2 DEF Insert, Step
      <4>2. HoldsLock(w)
        BY <3>2, <4>1, AskersHold DEF Insert, Step, Asking
      <4> QED BY <2>1, <3>1, <4>2 DEF AskInv
    <3> QED BY <1>2, <2>1, <3>1, <3>2, OnlyInsertAsks DEF NoneAsked
  <2>2. CASE v = w
    <3>1. /\ row' = row /\ job' = job
          /\ pc[w] \in Asking \/ PendingAt(row, job[w].site) = {}
      <4> USE <1>0, <1>7, <2>2 DEF Asking
      <4>0. ASSUME NEW ok PROVE AfterRun(w, ok) \notin Asking
        BY DEF AfterRun
      <4>0a. ASSUME NEW s, NEW from, RunSite(w, s, from) PROVE FALSE
        BY <4>0a, RunSiteLeads DEF Leads
      <4>1. CASE HealingStep(w)
        <5>1. CASE HealHistory(w) \/ HealPending(w) \/ HealRejected(w) \/ HealLlm(w)
          BY <4>0, <5>1
             DEF HealHistory, HealPending, HealRejected, HealLlm, HealGuard, HealSkip, Step
        <5>2. CASE Count(w) \/ Llm(w)
          BY <5>2 DEF Count, Llm, HealGuard, Exit, Step, AskInv, ShapeAt
        <5>3. CASE Insert(w) \/ AuditCreated(w) \/ Post(w) \/ Attach(w)
          BY <4>0, <5>3 DEF Insert, AuditCreated, Post, Attach, CardDone, Exit, Step
        <5> QED BY <4>1, <5>1, <5>2, <5>3 DEF HealingStep
      <4>2. CASE DecidingStep(w)
        BY <4>2 DEF DecidingStep, Begin, Get, AfterGet, GetRefused, Recheck, RecheckRefused,
                    Decide, DecideLost, AuditDecided, Exit, Step
      <4>3. CASE PatchingStep(w)
        BY <4>0a, <4>3
           DEF PatchingStep, ReadConfig, AuditApplyFailed, BackupConfig, TruncateConfig,
               WriteConfig, AuditApplied, LoadConfigs, Rerun, Report, Rollback,
               AuditRolledBack, Exit, Step
      <4>4. CASE CollectingStep(w)
        BY <4>0a, <4>4
           DEF CollectingStep, Collect, Acquire, AcquireRefused, SweepSelect, SweepUpdate,
               SweepAudit, CollectSite, Release, Exit, Step
      <4>5. CASE Crash(w)
        BY <4>5 DEF Crash, Exit, Step
      <4> QED BY <4>1, <4>2, <4>3, <4>4, <4>5 DEF ProcessStep
    <3> QED BY <2>2, <3>1 DEF AskInv
  <2> QED BY <2>1, <2>2
<1>8. \A v \in Worker : job'[v].kind \notin {"approve", "regenerate"}
  BY <1>2, <1>4 DEF AskInv
<1> QED BY <1>6, <1>7, <1>8 DEF AskInv

LEMMA AskNext == ASSUME TypeInv, AskInv, OnlyCollectsHeal, [Next]_vars PROVE AskInv'
<1>1. ASSUME NEW w \in Worker, ProcessStep(w) \/ Crash(w) PROVE AskInv'
  BY <1>1, AskProcess
<1>2. CASE ClearStaleLock
  BY <1>2 DEF ClearStaleLock, AskInv, HoldsLock
<1>3. CASE Tick \/ UNCHANGED vars
  BY <1>3 DEF Tick, vars, AskInv, HoldsLock
<1> QED BY <1>1, <1>2, <1>3 DEF Next

\* The insert of a collect run finds what its check has found.
LEMMA AsksOnce ==
    ASSUME TypeInv, AskInv, [Next]_vars, NEW id \in Id, ~Exists(row, id), Exists(row', id)
    PROVE  PendingAt(row, row'[id].site) = {}
<1>0. row \in [Id -> Row]
  BY DEF TypeInv, DataOK
<1>1. PICK w \in Worker : Insert(w)
  BY OnlyInsertAsks DEF NoneAsked
<1>2. PendingAt(row, job[w].site) = {}
  BY <1>1 DEF Insert, Step, Asking, AskInv
<1>3. row'[id].site = job[w].site
  BY <1>0, <1>1 DEF Insert, Inserted, Exists, NoRow
<1> QED BY <1>2, <1>3

\* As long as nothing is approved or regenerated, automatic healing asks about
\* a site only while no request about it is pending, whatever collect runs are
\* started at the same time, killed, or find a stale lock.
THEOREM OneOpenRequest == OnlyCollectsHeal => (Spec => HealingAsksOnce)
<1> SUFFICES ASSUME OnlyCollectsHeal PROVE Spec => HealingAsksOnce
  OBVIOUS
<1>1. TypeInv /\ AskInv /\ [Next]_vars => AskInv'
  BY AskNext
<1>2. TypeInv /\ AskInv /\ [Next]_vars
        => [\A id \in Id : ~Exists(row, id) /\ Exists(row', id) /\ row'[id].run = id
              => PendingAt(row, row'[id].site) = {}]_vars
  BY AsksOnce
<1> QED BY <1>1, <1>2, AskInit, TypeInvariant, PTL DEF Spec, HealingAsksOnce
=============================================================================
