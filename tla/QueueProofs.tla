---------------------------- MODULE QueueProofs ----------------------------
(***************************************************************************)
(* Pollers take only steps of Runner, so what is proved of Runner holds of *)
(* decisions that come from Slack, however often a click is delivered.     *)
(***************************************************************************)
EXTENDS DecisionQueue, DecisionProofs

-----------------------------------------------------------------------------
(* The queue only grows, and the pollers' batches are positions of it.     *)

QueueInv ==
    /\ queue \in Seq(QueuedDecision)
    /\ acked \subseteq DOMAIN queue
    /\ late \subseteq DOMAIN queue
    /\ batch \in [Poller -> SUBSET DOMAIN queue]
    /\ phase \in [Poller -> Phase]

LEMMA QueueInit == QInit => QueueInv
BY DEF QInit, QueueInv, Phase

LEMMA Appended ==
    ASSUME QueueInv, NEW d \in QueuedDecision, queue' = Append(queue, d)
    PROVE  /\ queue' \in Seq(QueuedDecision)
           /\ DOMAIN queue \subseteq DOMAIN queue'
           /\ \A c \in DOMAIN queue : queue'[c] = queue[c]
           /\ \A c \in DOMAIN queue' : c \in DOMAIN queue \/ queue'[c] = d
BY DEF QueueInv

LEMMA QueueNext == QueueInv /\ [QNext]_allvars => QueueInv'
<1> SUFFICES ASSUME QueueInv, [QNext]_allvars PROVE QueueInv'
  OBVIOUS
<1>1. ASSUME NEW id \in Id, NEW kind \in Kind \ {"collect"}, Click(id, kind)
      PROVE  QueueInv'
  <2>1. [id |-> id, kind |-> kind] \in QueuedDecision
    BY DEF QueuedDecision
  <2> QED BY <1>1, <2>1, Appended DEF Click, QueueInv
<1>2. ASSUME NEW p \in Poller, PollerStep(p) PROVE QueueInv'
  <2>1. queue' = queue
    BY <1>2 DEF PollerStep, ListAcked, ListQueue, Dispatch, Ack, Run, DatabaseBusy,
                AckLost, AckDelayed, Finish, Abandon, CrashPoller
  <2>2. \A from, to : Goto(p, from, to) /\ to \in Phase => phase' \in [Poller -> Phase]
    BY DEF Goto, QueueInv
  <2>3. phase' \in [Poller -> Phase]
    BY <1>2, <2>2
       DEF PollerStep, ListAcked, ListQueue, Dispatch, Ack, Run, AfterCommand,
           AfterException, DatabaseBusy, AckLost, AckDelayed, Finish, Abandon, CrashPoller,
           Phase, QueueInv
  <2>4. acked' \subseteq DOMAIN queue /\ late' \subseteq DOMAIN queue
    BY <1>2 DEF PollerStep, ListAcked, ListQueue, Dispatch, Ack, Run, DatabaseBusy,
                AckLost, AckDelayed, Finish, Abandon, CrashPoller, QueueInv
  <2>5. \A S \in SUBSET DOMAIN queue : batch' = [batch EXCEPT ![p] = S]
          => batch' \in [Poller -> SUBSET DOMAIN queue]
    BY DEF QueueInv
  <2>6. Done(p) \/ Forget(p) \/ batch' = batch => batch' \in [Poller -> SUBSET DOMAIN queue]
    BY <2>5 DEF Done, Forget, QueueInv
  <2>7. batch' \in [Poller -> SUBSET DOMAIN queue]
    BY <1>2, <2>5, <2>6
       DEF PollerStep, ListAcked, ListQueue, Dispatch, Ack, Run, AfterCommand,
           AfterException, DatabaseBusy, AckLost, AckDelayed, Finish, Abandon, CrashPoller
  <2> QED BY <2>1, <2>3, <2>4, <2>7 DEF QueueInv
<1>3. ASSUME NEW c \in Positions, LateAck(c) PROVE QueueInv'
  BY <1>3 DEF LateAck, QueueInv
<1>4. CASE Others \/ UNCHANGED allvars
  BY <1>4 DEF Others, allvars, qvars, QueueInv
<1> QED BY <1>1, <1>2, <1>3, <1>4 DEF QNext

LEMMA QueueInvariant == QSpec => []QueueInv
BY QueueInit, QueueNext, PTL DEF QSpec

-----------------------------------------------------------------------------
(* Pollers refine operators.                                               *)

LEMMA PollerRuns ==
    ASSUME QueueInv, NEW p \in Poller, PollerStep(p) PROVE [Next]_vars
<1>0. p \in Worker
  BY QueueAssumption
<1>1. ASSUME NEW c \in batch[p], Dispatch(p, c) PROVE ProcessStep(p)
  <2>1. queue[c] \in QueuedDecision
    BY DEF QueueInv
  <2>2. queue[c].kind \in Kind \ {"collect"} /\ queue[c].id \in Id
    BY <2>1 DEF QueuedDecision
  <2> QED BY <1>1, <2>2 DEF Dispatch, ProcessStep, DecidingStep
<1>2. CASE Run(p) \/ DatabaseBusy(p) \/ CrashPoller(p)
  BY <1>0, <1>2 DEF Run, DatabaseBusy, CrashPoller, Next
<1>3. CASE \/ ListAcked(p) \/ ListQueue(p) \/ AckLost(p) \/ Finish(p) \/ Abandon(p)
           \/ \E c \in batch[p] : Ack(p, c) \/ AckDelayed(p, c)
  BY <1>3 DEF ListAcked, ListQueue, AckLost, AckDelayed, Finish, Abandon, Ack
<1> QED BY <1>0, <1>1, <1>2, <1>3 DEF PollerStep, Next

LEMMA QueueStep == QueueInv /\ [QNext]_allvars => [Next]_vars
<1> SUFFICES ASSUME QueueInv, [QNext]_allvars PROVE [Next]_vars
  OBVIOUS
<1>1. CASE \/ \E id \in Id, kind \in Kind \ {"collect"} : Click(id, kind)
           \/ \E c \in Positions : LateAck(c)
  BY <1>1 DEF Click, LateAck
<1>2. CASE Others
  BY <1>2 DEF Others, Next
<1>3. CASE UNCHANGED allvars
  BY <1>3 DEF allvars
<1> QED BY <1>1, <1>2, <1>3, PollerRuns DEF QNext

\* A step of a poller leaves the other pollers alone ...
LEMMA OthersStay ==
    ASSUME TypeInv, QueueInv, NEW p \in Poller, PollerStep(p), NEW v \in Poller, v # p
    PROVE  /\ phase'[v] = phase[v] /\ batch'[v] = batch[v]
           /\ pc'[v] = pc[v] /\ job'[v] = job[v]
<1>0. p \in Worker /\ v \in Worker
  BY QueueAssumption
<1>1. phase'[v] = phase[v]
  BY DEF QueueInv, PollerStep, ListAcked, ListQueue, Dispatch, Ack, Run,
         AfterCommand, AfterException, DatabaseBusy, AckLost, AckDelayed, Finish, Abandon,
         CrashPoller, Goto
<1>2. batch'[v] = batch[v]
  BY DEF QueueInv, PollerStep, ListAcked, ListQueue, Dispatch, Ack, Run,
         AfterCommand, AfterException, DatabaseBusy, AckLost, AckDelayed, Finish, Abandon,
         CrashPoller, Done, Forget
<1>3. pc'[v] = pc[v] /\ job'[v] = job[v]
  <2>1. CASE ProcessStep(p) \/ Crash(p)
    BY <1>0, <2>1, Own DEF OwnStep
  <2>2. ASSUME NEW c \in batch[p], Dispatch(p, c) PROVE pc'[v] = pc[v] /\ job'[v] = job[v]
    <3>1. Step(p, "idle", "get") /\ \E j : job' = [job EXCEPT ![p] = j]
      BY <2>2 DEF Dispatch, Begin
    <3> QED BY <1>0, <3>1 DEF Step, TypeInv, JobsOK
  <2>3. CASE UNCHANGED vars
    BY <2>3 DEF vars
  <2> QED BY <2>1, <2>2, <2>3
          DEF PollerStep, ListAcked, ListQueue, Ack, Run, DatabaseBusy, AckLost, AckDelayed,
              Finish, Abandon, CrashPoller
<1> QED BY <1>1, <1>2, <1>3

\* ... and a step of nobody's leaves all of them alone.
LEMMA PollersStay ==
    ASSUME TypeInv, [QNext]_allvars, ~\E p \in Poller : PollerStep(p)
    PROVE  /\ UNCHANGED <<phase, batch>>
           /\ \A v \in Poller : pc'[v] = pc[v] /\ job'[v] = job[v]
<1>1. UNCHANGED <<phase, batch>>
  BY DEF QNext, Click, LateAck, Others, qvars, allvars
<1>2. ASSUME NEW v \in Poller PROVE pc'[v] = pc[v] /\ job'[v] = job[v]
  <2>1. ASSUME NEW w \in Worker \ Poller, ProcessStep(w) \/ Crash(w)
        PROVE  pc'[v] = pc[v] /\ job'[v] = job[v]
    BY <1>2, <2>1, Own, QueueAssumption DEF OwnStep
  <2> QED BY <2>1 DEF QNext, Click, LateAck, Others, ClearStaleLock, Tick, allvars, vars
<1> QED BY <1>1, <1>2

\* Whatever is clicked, fetched twice or lost, the processes only take steps
\* that operators and timers could have taken: pollers add nothing to Runner.
THEOREM QueueRefinesRunner == QSpec => RunnerSpec
<1>1. QInit => Init
  BY DEF QInit
<1> QED BY <1>1, QueueInvariant, QueueStep, PTL DEF QSpec, RunnerSpec, Spec

\* However often a click is delivered, its patch is written at most once.
THEOREM DeliveredOnce == QSpec => []AppliedAtMostOnce
BY QueueRefinesRunner, AppliedOnce, PTL DEF RunnerSpec

\* Clicks and commands together lead to one logged decision about a request.
THEOREM ClicksDecideOnce == QSpec => []OneOperatorDecision
BY QueueRefinesRunner, DecisionLoggedOnce, PTL DEF RunnerSpec

-----------------------------------------------------------------------------
(* Clicks are first tried in the order in which they were made.  A batch   *)
(* may have gaps, but what is missing from it below any of its positions   *)
(* has been tried: it was acknowledged when the batch was fetched, or this *)
(* poller is done with it.                                                 *)

\* What p has fetched continues what has been tried.
BatchInv(p) ==
    /\ seen[p] \subseteq acked
    /\ \A c \in batch[p] : \A d \in 1..c : d \in tried \/ d \in batch[p]
    /\ phase[p] \in {"run", "ack"} => \A c : IsHead(p, c) => c \in tried

OrderInv ==
    /\ seen \in [Poller -> SUBSET acked]
    /\ tried \subseteq DOMAIN queue
    /\ late \subseteq tried
    /\ TriedInOrder
    /\ \A p \in Poller : BatchInv(p)

LEMMA OrderInit == QInit => OrderInv
BY DEF QInit, OrderInv, TriedInOrder, BatchInv, IsHead

\* A poller that does nothing while clicks are tried and acknowledged.
LEMMA BatchKept ==
    ASSUME NEW p \in Poller, BatchInv(p), acked \subseteq acked', tried \subseteq tried',
           seen'[p] = seen[p], batch'[p] = batch[p], phase'[p] = phase[p]
    PROVE  BatchInv(p)'
BY DEF BatchInv, IsHead

\* Being done with a click that has been tried leaves a gap below which, and
\* at which, everything has been tried.
LEMMA BatchDone ==
    ASSUME QueueInv, NEW p \in Poller, BatchInv(p), Done(p), phase[p] \in {"run", "ack"},
           phase'[p] = "next", acked \subseteq acked', tried' = tried, seen' = seen
    PROVE  BatchInv(p)'
<1>1. PICK c \in batch[p] : IsHead(p, c) /\ batch' = [batch EXCEPT ![p] = @ \ {c}]
  BY DEF Done
<1>2. batch'[p] = batch[p] \ {c} /\ c \in tried
  BY <1>1 DEF QueueInv, BatchInv
<1> QED BY <1>1, <1>2 DEF BatchInv

LEMMA BatchForgotten ==
    ASSUME QueueInv, OrderInv, NEW p \in Poller, Forget(p), phase'[p] = "off"
    PROVE  BatchInv(p)'
BY DEF QueueInv, OrderInv, Forget, BatchInv

LEMMA Fetched ==
    ASSUME QueueInv, OrderInv, NEW p \in Poller, ListAcked(p) \/ ListQueue(p)
    PROVE  BatchInv(p)'
<1>0. BatchInv(p) /\ \A c \in DOMAIN queue : \A d \in 1..c : d \in DOMAIN queue
  BY DEF QueueInv, OrderInv
<1>1. CASE ListAcked(p)
  <2>1. phase'[p] = "list" /\ seen'[p] = acked
    BY <1>1 DEF ListAcked, Goto, QueueInv, OrderInv
  <2> QED BY <1>0, <1>1, <2>1 DEF ListAcked, BatchInv
<1>2. CASE ListQueue(p)
  <2>1. phase'[p] = "next" /\ batch'[p] = DOMAIN queue \ seen[p]
    BY <1>2 DEF ListQueue, Goto, QueueInv
  <2> QED BY <1>0, <1>2, <2>1 DEF ListQueue, BatchInv, OrderInv, TriedInOrder
<1> QED BY <1>1, <1>2

LEMMA Dispatched ==
    ASSUME QueueInv, OrderInv, NEW p \in Poller, NEW c \in batch[p], Dispatch(p, c)
    PROVE  /\ TriedInOrder' /\ tried' \subseteq DOMAIN queue
           /\ BatchInv(p)'
<1>1. /\ IsHead(p, c) /\ tried' = tried \cup {c}
      /\ acked' = acked /\ seen' = seen /\ batch' = batch
  BY DEF Dispatch
<1>2. c \in DOMAIN queue /\ DOMAIN queue \subseteq Nat /\ batch[p] \subseteq DOMAIN queue
  BY DEF QueueInv
<1>3. BatchInv(p)
  BY DEF OrderInv
<1>4. \A d \in 1..c : d \in tried'
  BY <1>1, <1>2, <1>3 DEF BatchInv, IsHead
<1>5. TriedInOrder'
  BY <1>1, <1>4 DEF OrderInv, TriedInOrder
<1>6. \A d : IsHead(p, d)' => d = c
  BY <1>1, <1>2 DEF IsHead
<1>7. BatchInv(p)'
  BY <1>1, <1>3, <1>6 DEF BatchInv
<1> QED BY <1>1, <1>2, <1>5, <1>7 DEF OrderInv

LEMMA Acknowledged ==
    ASSUME QueueInv, OrderInv, NEW p \in Poller, NEW c \in batch[p],
           Ack(p, c) \/ AckDelayed(p, c)
    PROVE  /\ TriedInOrder' /\ acked \subseteq acked' /\ tried' = tried
           /\ late' \subseteq tried
           /\ BatchInv(p)'
<1>1. /\ IsHead(p, c) /\ phase[p] = "ack" /\ phase'[p] = "next" /\ Done(p)
      /\ tried' = tried /\ seen' = seen
  BY DEF Ack, AckDelayed, Goto, QueueInv
<1>2. /\ acked \subseteq acked' /\ acked' \subseteq acked \cup {c}
      /\ late' \subseteq late \cup {c}
  BY DEF Ack, AckDelayed
<1>3. c \in tried
  BY <1>1 DEF OrderInv, BatchInv
<1>4. TriedInOrder' /\ late' \subseteq tried
  BY <1>1, <1>2, <1>3 DEF OrderInv, TriedInOrder
<1>5. BatchInv(p)'
  BY <1>1, <1>2, BatchDone DEF OrderInv
<1> QED BY <1>1, <1>2, <1>4, <1>5

LEMMA OrderNext == QueueInv /\ OrderInv /\ [QNext]_allvars => OrderInv'
<1> SUFFICES ASSUME QueueInv, OrderInv, [QNext]_allvars PROVE OrderInv'
  OBVIOUS
<1>1. ASSUME NEW p \in Poller, PollerStep(p) PROVE OrderInv'
  <2>1. queue' = queue
    BY <1>1 DEF PollerStep, ListAcked, ListQueue, Dispatch, Ack, Run, DatabaseBusy,
                AckLost, AckDelayed, Finish, Abandon, CrashPoller
  <2>2. CASE \E c \in batch[p] : Dispatch(p, c) \/ Ack(p, c) \/ AckDelayed(p, c)
    <3>1. /\ TriedInOrder' /\ tried' \subseteq DOMAIN queue /\ BatchInv(p)'
          /\ acked \subseteq acked' /\ tried \subseteq tried' /\ late' \subseteq tried'
      BY <2>2, Dispatched, Acknowledged DEF Dispatch, OrderInv, Ack, AckDelayed, QueueInv
    <3>2. seen' = seen /\ \A v \in Poller \ {p} : batch'[v] = batch[v] /\ phase'[v] = phase[v]
      BY <2>2 DEF Dispatch, Ack, AckDelayed, Done, Goto, QueueInv
    <3>3. \A v \in Poller \ {p} : BatchInv(v)'
      BY <3>1, <3>2, BatchKept DEF OrderInv
    <3> QED BY <2>1, <3>1, <3>2, <3>3 DEF OrderInv
  <2>3. CASE ~\E c \in batch[p] : Dispatch(p, c) \/ Ack(p, c) \/ AckDelayed(p, c)
    <3>1. acked' = acked /\ late' = late /\ tried' = tried
      BY <1>1, <2>3 DEF PollerStep, ListAcked, ListQueue, Run, DatabaseBusy, AckLost, AckDelayed,
                        Finish, Abandon, CrashPoller
    <3>2. \A v \in Poller \ {p} : phase'[v] = phase[v]
      BY <1>1, <2>3
         DEF PollerStep, ListAcked, ListQueue, Run, AfterCommand, AfterException,
             DatabaseBusy, AckLost, AckDelayed, Finish, Abandon, CrashPoller, Goto, QueueInv
    <3>3. \A v \in Poller \ {p} : batch'[v] = batch[v] /\ seen'[v] = seen[v]
      BY <1>1, <2>3
         DEF PollerStep, ListAcked, ListQueue, Run, AfterCommand, AfterException,
             DatabaseBusy, AckLost, AckDelayed, Finish, Abandon, CrashPoller, Done, Forget,
             QueueInv, OrderInv
    <3>4. seen' \in [Poller -> SUBSET acked]
      BY <1>1, <2>3
         DEF PollerStep, ListAcked, ListQueue, Run, DatabaseBusy, AckLost, AckDelayed, Finish,
             Abandon, CrashPoller, Forget, OrderInv
    <3>5. BatchInv(p)'
      <4>0. BatchInv(p)
        BY DEF OrderInv
      <4>1. CASE ListAcked(p) \/ ListQueue(p)
        BY <4>1, Fetched
      <4>2. CASE Run(p) /\ pc'[p] # "idle" /\ UNCHANGED <<batch, phase>>
        BY <3>1, <4>0, <4>2, BatchKept DEF Run
      <4>3. CASE Run(p) /\ AfterCommand(p)
        <5>1. phase[p] = "run" /\ phase'[p] = "ack" /\ batch' = batch /\ seen' = seen
          BY <4>3 DEF Run, AfterCommand, Goto, QueueInv
        <5> QED BY <3>1, <4>0, <5>1 DEF BatchInv, IsHead
      <4>4. CASE \/ (Run(p) \/ DatabaseBusy(p)) /\ AfterException(p)
                 \/ AckLost(p)
        <5>1. /\ Done(p) /\ phase[p] \in {"run", "ack"} /\ phase'[p] = "next"
              /\ seen' = seen
          BY <4>4 DEF Run, DatabaseBusy, AfterException, AckLost, Goto, QueueInv
        <5> QED BY <3>1, <4>0, <5>1, BatchDone
      <4>5. CASE Finish(p) \/ Abandon(p) \/ CrashPoller(p)
        <5>1. Forget(p) /\ phase'[p] = "off"
          BY <4>5 DEF Finish, Abandon, CrashPoller, Goto, QueueInv
        <5> QED BY <5>1, BatchForgotten
      <4> QED BY <1>1, <2>3, <4>1, <4>2, <4>3, <4>4, <4>5
              DEF PollerStep, Run, DatabaseBusy
    <3>6. \A v \in Poller \ {p} : BatchInv(v)'
      BY <3>1, <3>2, <3>3, BatchKept DEF OrderInv
    <3> QED BY <2>1, <3>1, <3>4, <3>5, <3>6 DEF OrderInv, TriedInOrder
  <2> QED BY <2>2, <2>3
<1>2. ASSUME NEW c \in Positions, LateAck(c) PROVE OrderInv'
  <2>1. /\ acked' = acked \cup {c} /\ late' \subseteq late /\ c \in tried
        /\ UNCHANGED <<queue, seen, batch, phase, tried>>
    BY <1>2 DEF LateAck, OrderInv
  <2>2. \A v \in Poller : BatchInv(v)'
    BY <2>1, BatchKept DEF OrderInv
  <2> QED BY <2>1, <2>2 DEF OrderInv, TriedInOrder
<1>3. CASE /\ ~\E p \in Poller : PollerStep(p)
           /\ ~\E c \in Positions : LateAck(c)
  <2>1. /\ UNCHANGED <<acked, late, seen, batch, phase, tried>>
        /\ DOMAIN queue \subseteq DOMAIN queue'
    <3>1. ASSUME NEW id \in Id, NEW kind \in Kind \ {"collect"}, Click(id, kind)
          PROVE  DOMAIN queue \subseteq DOMAIN queue'
      <4>1. [id |-> id, kind |-> kind] \in QueuedDecision
        BY DEF QueuedDecision
      <4> QED BY <3>1, <4>1, Appended DEF Click
    <3> QED BY <1>3, <3>1 DEF QNext, Click, Others, qvars, allvars
  <2>2. \A v \in Poller : BatchInv(v)'
    BY <2>1, BatchKept DEF OrderInv
  <2> QED BY <2>1, <2>2 DEF OrderInv, TriedInOrder
<1> QED BY <1>1, <1>2, <1>3

\* No click overtakes an earlier one, with any number of pollers, whichever of
\* them are killed and whatever acknowledgements and answers are lost or late.
THEOREM ClicksInOrder == QSpec => []TriedInOrder
<1>1. OrderInv => TriedInOrder
  BY DEF OrderInv
<1> QED BY <1>1, OrderInit, OrderNext, QueueInvariant, PTL DEF QSpec

-----------------------------------------------------------------------------
(* An approve or reject is acknowledged only when its request is decided.  *)
(* The argument: a request that is decided stays so, a command passes the  *)
(* statement that decides before it returns, and what it raises earlier is *)
(* either a refusal of a decided request or not acknowledged.              *)

(* What an approve or reject command has seen to by the time it is past    *)
(* the statement that decides, or leaves before it.                        *)

Undecided == {"idle", "get", "decide", "cas"}

LEMMA OthersLate ==
    ASSUME NEW w \in Worker, pc[w] # "idle",
           HealingStep(w) \/ PatchingStep(w) \/ CollectingStep(w)
    PROVE  pc[w] \notin Undecided
<1>1. CASE HealingStep(w)
  BY <1>1 DEF HealingStep, HealHistory, HealPending, HealRejected, HealLlm, HealGuard,
              HealSkip, Count, Llm, Insert, AuditCreated, Post, Attach, CardDone, Exit,
              Step, Undecided
<1>2. CASE PatchingStep(w)
  BY <1>2
     DEF PatchingStep, ReadConfig, AuditApplyFailed, BackupConfig, TruncateConfig,
         WriteConfig, AuditApplied, LoadConfigs, Rerun, RunSite, Report, Rollback,
         AuditRolledBack, Exit, Step, Undecided
<1>3. CASE CollectingStep(w)
  BY <1>3 DEF CollectingStep, Collect, Acquire, AcquireRefused, SweepSelect,
              SweepUpdate, SweepAudit, CollectSite, RunSite, Release, Exit, Step,
              Undecided
<1> QED BY <1>1, <1>2, <1>3

LEMMA CommandPasses ==
    ASSUME TypeInv, NEW w \in Worker, ProcessStep(w), pc[w] \in Undecided \ {"idle"},
           job[w].kind \in {"approve", "reject"}
    PROVE  /\ pc'[w] \notin Undecided => Settled(row', job[w].id)
           /\ pc'[w] = "idle" => job[w].id \notin Pending(row)
<1>0. pc \in [Worker -> PC] /\ ShapeAt(pc[w], job[w])
  BY DEF TypeInv, JobsOK
<1>1. DecidingStep(w)
  BY OthersLate DEF ProcessStep
<1>2. CASE GetRefused(w) \/ RecheckRefused(w)
  BY <1>0, <1>2 DEF GetRefused, RecheckRefused, Exit, Step, Undecided
<1>3. CASE Get(w) \/ Recheck(w)
  BY <1>0, <1>3 DEF Get, Recheck, Step, AfterGet, Undecided
<1>4. CASE DecideLost(w)
  BY <1>0, <1>4 DEF DecideLost, Matches, Exit, Step, Undecided
<1>5. CASE Decide(w)
  <2>1. job[w].id \in Id /\ row' = UpdateStatus(row, job[w].id, DecisionOf(job[w].kind), now)
        /\ Matches(row, job[w].id)
    BY <1>0, <1>5 DEF Decide, ShapeAt
  <2>2. Settled(row', job[w].id)
    BY <2>1, OnwardUpdate
  <2>3. pc'[w] = "audit_decided"
    BY <1>0, <1>5 DEF Decide, Step
  <2> QED BY <2>2, <2>3
<1>6. CASE AuditDecided(w) \/ \E kind \in Kind \ {"collect"}, id \in Id : Begin(w, kind, id)
  BY <1>6 DEF AuditDecided, Begin, Exit, Step, Undecided
<1> QED BY <1>1, <1>2, <1>3, <1>4, <1>5, <1>6 DEF DecidingStep

-----------------------------------------------------------------------------
(* The invariant of the queue, its pollers and the requests.               *)

Answered(c) == queue[c].kind \in {"approve", "reject"} => Settled(row, queue[c].id)

\* A poller runs the click at the head of its batch; once that command is past
\* its decision, or over and about to be acknowledged, the request is decided.
PollerInv(p) ==
    /\ phase[p] = "run" =>
         /\ pc[p] # "idle"
         /\ \A c : IsHead(p, c) => job[p].kind = queue[c].kind /\ job[p].id = queue[c].id
         /\ job[p].kind \in {"approve", "reject"} /\ pc[p] \notin Undecided
              => Settled(row, job[p].id)
    /\ phase[p] = "ack" => \A c : IsHead(p, c) => Answered(c)

AckInv ==
    /\ \A c \in DOMAIN queue : Exists(row, queue[c].id)
    /\ \A p \in Poller : PollerInv(p)
    /\ \A c \in acked \cup late : Answered(c)

LEMMA AckInit == QInit => AckInv
BY DEF QInit, AckInv, PollerInv

\* Clicks stay in the queue, and new ones are about requests that exist.
QueueGrows ==
    /\ \A c \in DOMAIN queue : c \in DOMAIN queue' /\ queue'[c] = queue[c]
    /\ \A c \in DOMAIN queue' : c \in DOMAIN queue \/ Exists(row', queue'[c].id)

LEMMA Growing == ASSUME QueueInv, [QNext]_allvars PROVE QueueGrows
<1>1. ASSUME NEW id \in Id, NEW kind \in Kind \ {"collect"}, Click(id, kind)
      PROVE  QueueGrows
  <2> DEFINE d == [id |-> id, kind |-> kind]
  <2>1. d \in QueuedDecision /\ d.id = id
    BY DEF QueuedDecision
  <2>2. queue' = Append(queue, d) /\ Exists(row, id) /\ row' = row
    BY <1>1 DEF Click, HasCard, vars
  <2> HIDE DEF d
  <2> QED BY <2>1, <2>2, Appended DEF QueueGrows, Exists
<1>2. CASE queue' = queue
  BY <1>2 DEF QueueGrows
<1>3. ASSUME NEW p \in Poller, PollerStep(p) PROVE queue' = queue
  BY <1>3 DEF PollerStep, ListAcked, ListQueue, Dispatch, Ack, Run, DatabaseBusy,
              AckLost, AckDelayed, Finish, Abandon, CrashPoller
<1>4. CASE Others \/ UNCHANGED allvars \/ \E c \in Positions : LateAck(c)
  BY <1>2, <1>4 DEF Others, allvars, qvars, LateAck
<1> QED BY <1>1, <1>2, <1>3, <1>4 DEF QNext

LEMMA AnsweredStays ==
    ASSUME QueueInv, QueueGrows, Onward(row, row'), NEW c \in DOMAIN queue, Answered(c)
    PROVE  Answered(c)'
<1>1. queue[c] \in QueuedDecision /\ queue'[c] = queue[c]
  BY DEF QueueInv, QueueGrows
<1> QED BY <1>1 DEF Answered, Onward, QueuedDecision

\* A poller is not disturbed by what others do.
LEMMA Undisturbed ==
    ASSUME TypeInv, QueueInv, QueueGrows, Onward(row, row'), NEW p \in Poller, PollerInv(p),
           pc'[p] = pc[p], job'[p] = job[p], phase'[p] = phase[p], batch'[p] = batch[p]
    PROVE  PollerInv(p)'
<1>1. batch[p] \subseteq DOMAIN queue
  BY DEF QueueInv
<1>2. \A c : IsHead(p, c)' <=> IsHead(p, c)
  BY DEF IsHead
<1>3. \A c : IsHead(p, c) => c \in DOMAIN queue
  BY <1>1 DEF IsHead
<1>4. \A c : IsHead(p, c) => queue'[c] = queue[c]
  BY <1>3 DEF QueueGrows
<1>5. \A c : IsHead(p, c) /\ Answered(c) => Answered(c)'
  BY <1>3, AnsweredStays
<1>6. job[p].kind \in {"approve", "reject"} => job[p].id \in Id
  BY QueueAssumption DEF TypeInv, JobsOK, ShapeAt
<1>7. (phase[p] = "run")' => /\ pc'[p] # "idle"
                            /\ \A c : IsHead(p, c)' => job'[p].kind = queue'[c].kind
                                                      /\ job'[p].id = queue'[c].id
  BY <1>2, <1>4 DEF PollerInv
<1>8. phase'[p] = "run" /\ job'[p].kind \in {"approve", "reject"} /\ pc'[p] \notin Undecided
        => Settled(row', job'[p].id)
  BY <1>6 DEF PollerInv, Onward
<1>9. phase'[p] = "ack" => \A c : IsHead(p, c)' => Answered(c)'
  BY <1>2, <1>5 DEF PollerInv
<1> QED BY <1>7, <1>8, <1>9 DEF PollerInv

LEMMA DispatchAck ==
    ASSUME TypeInv, QueueInv, NEW p \in Poller, NEW c \in batch[p], Dispatch(p, c)
    PROVE  PollerInv(p)'
<1>1. p \in Worker /\ pc \in [Worker -> PC] /\ job \in [Worker -> Job]
      /\ phase \in [Poller -> Phase] /\ batch[p] \subseteq DOMAIN queue /\ DOMAIN queue \subseteq Nat
  BY QueueAssumption DEF TypeInv, JobsOK, QueueInv
<1>2. phase'[p] = "run" /\ pc'[p] = "get"
  BY <1>1 DEF Dispatch, Goto, Begin, Step
<1>3. job'[p] = [NoJob EXCEPT !.kind = queue[c].kind, !.id = queue[c].id]
  BY <1>1 DEF Dispatch, Begin
<1>4. job'[p].kind = queue[c].kind /\ job'[p].id = queue[c].id
  BY <1>3 DEF NoJob
<1>5. batch' = batch /\ queue' = queue /\ IsHead(p, c)
  BY DEF Dispatch
<1>6. \A d : IsHead(p, d)' => d = c
  BY <1>1, <1>5 DEF IsHead
<1> QED BY <1>2, <1>4, <1>5, <1>6 DEF PollerInv, Undecided

LEMMA RunAck ==
    ASSUME TypeInv, QueueInv, AckInv, NEW p \in Poller, Run(p), Onward(row, row')
    PROVE  PollerInv(p)'
<1>0. p \in Worker /\ pc \in [Worker -> PC] /\ phase \in [Poller -> Phase]
      /\ ShapeAt(pc[p], job[p]) /\ row \in [Id -> Row]
  BY QueueAssumption DEF TypeInv, JobsOK, DataOK, QueueInv
<1>1. ProcessStep(p) /\ phase[p] = "run" /\ queue' = queue
  BY DEF Run
<1>2. /\ pc[p] # "idle"
      /\ \A c : IsHead(p, c) => job[p].kind = queue[c].kind /\ job[p].id = queue[c].id
      /\ job[p].kind \in {"approve", "reject"} /\ pc[p] \notin Undecided
           => Settled(row, job[p].id)
  BY <1>1 DEF AckInv, PollerInv
<1>3. job[p].kind \in {"approve", "reject"} => job[p].id \in Id
  BY <1>0 DEF ShapeAt
<1>4. CASE pc'[p] # "idle" /\ UNCHANGED <<batch, phase>>
  <2>1. job'[p].kind = job[p].kind /\ job'[p].id = job[p].id
    BY <1>0, <1>1, <1>2, <1>4, Own DEF OwnStep
  <2>2. \A c : IsHead(p, c)' <=> IsHead(p, c)
    BY <1>4 DEF IsHead
  <2>3. job[p].kind \in {"approve", "reject"} /\ pc'[p] \notin Undecided
          => Settled(row', job[p].id)
    <3>1. CASE pc[p] \in Undecided
      BY <1>0, <1>1, <1>2, <3>1, CommandPasses
    <3>2. CASE pc[p] \notin Undecided
      BY <1>2, <1>3, <3>2 DEF Onward
    <3> QED BY <3>1, <3>2
  <2> QED BY <1>1, <1>2, <1>4, <2>1, <2>2, <2>3 DEF PollerInv
<1>5. CASE pc'[p] = "idle" /\ pc[p] \in Known /\ AfterCommand(p)
  <2>1. phase'[p] = "ack" /\ batch' = batch
    BY <1>0, <1>5 DEF AfterCommand, Goto
  <2>2. ASSUME NEW c, IsHead(p, c)' PROVE Answered(c)'
    <3>1. IsHead(p, c) /\ c \in DOMAIN queue
      BY <2>1, <2>2 DEF IsHead, QueueInv
    <3>2. job[p].kind = queue[c].kind /\ job[p].id = queue[c].id
      BY <1>2, <3>1
    <3>3. ASSUME queue[c].kind \in {"approve", "reject"}
          PROVE  Settled(row, queue[c].id) /\ queue[c].id \in Id
      <4>1. queue[c].id \in Id
        BY <1>3, <3>2, <3>3
      <4>2. CASE pc[p] \in Undecided
        <5>1. queue[c].id \notin Pending(row)
          BY <1>0, <1>1, <1>2, <1>5, <3>2, <3>3, <4>2, CommandPasses
        <5>2. Exists(row, queue[c].id)
          BY <3>1 DEF AckInv
        <5> QED BY <4>1, <5>1, <5>2 DEF Settled, Exists, Pending
      <4>3. CASE pc[p] \notin Undecided
        BY <1>2, <3>2, <3>3, <4>1, <4>3
      <4> QED BY <4>1, <4>2, <4>3
    <3> QED BY <1>1, <3>3 DEF Answered, Onward
  <2> QED BY <2>1, <2>2 DEF PollerInv
<1>6. CASE pc'[p] = "idle" /\ AfterException(p)
  <2>1. phase'[p] = "next"
    BY <1>0, <1>6 DEF AfterException, Goto
  <2> QED BY <2>1 DEF PollerInv
<1> QED BY <1>4, <1>5, <1>6 DEF Run

\* The other steps of a poller lead to a phase the invariant says nothing of.
LEMMA RestAck ==
    ASSUME QueueInv, NEW p \in Poller,
           \/ ListAcked(p) \/ ListQueue(p) \/ DatabaseBusy(p) \/ AckLost(p)
           \/ Finish(p) \/ Abandon(p) \/ CrashPoller(p)
           \/ \E c \in batch[p] : Ack(p, c) \/ AckDelayed(p, c)
    PROVE  PollerInv(p)'
<1>1. phase'[p] \in {"list", "next", "off"}
  BY DEF QueueInv, ListAcked, ListQueue, DatabaseBusy, AfterException, AckLost, AckDelayed, Finish,
         Abandon, CrashPoller, Ack, Goto
<1> QED BY <1>1 DEF PollerInv

LEMMA AckNext == TypeInv /\ QueueInv /\ AckInv /\ [QNext]_allvars => AckInv'
<1> SUFFICES ASSUME TypeInv, QueueInv, AckInv, [QNext]_allvars PROVE AckInv'
  OBVIOUS
<1>1. QueueGrows /\ Onward(row, row')
  BY Growing, QueueStep, OnwardNext
<1>2. ASSUME NEW c \in DOMAIN queue' PROVE Exists(row', queue'[c].id)
  <2>1. CASE c \in DOMAIN queue
    <3>1. queue'[c] = queue[c] /\ queue[c] \in QueuedDecision /\ Exists(row, queue[c].id)
      BY <1>1, <2>1 DEF QueueGrows, QueueInv, AckInv
    <3> QED BY <1>1, <3>1 DEF Onward, QueuedDecision
  <2> QED BY <1>1, <2>1 DEF QueueGrows
<1>3. ASSUME NEW p \in Poller, PollerStep(p) PROVE \A v \in Poller : PollerInv(v)'
  <2>0. p \in Worker /\ Poller \subseteq Worker
    BY QueueAssumption
  <2>1. PollerInv(p)'
    BY <1>1, <1>3, DispatchAck, RunAck, RestAck DEF PollerStep
  <2>2. ASSUME NEW v \in Poller, v # p PROVE PollerInv(v)'
    <3>1. /\ phase'[v] = phase[v] /\ batch'[v] = batch[v]
          /\ pc'[v] = pc[v] /\ job'[v] = job[v]
      BY <1>3, <2>2, OthersStay
    <3> QED BY <1>1, <3>1, Undisturbed DEF AckInv
  <2> QED BY <2>1, <2>2
<1>4. ASSUME ~\E p \in Poller : PollerStep(p)
      PROVE  \A v \in Poller : PollerInv(v)'
  <2>1. /\ UNCHANGED <<phase, batch>>
        /\ \A v \in Poller : pc'[v] = pc[v] /\ job'[v] = job[v]
    BY <1>4, PollersStay
  <2> QED BY <1>1, <2>1, Undisturbed DEF AckInv
<1>5. ASSUME NEW c \in acked' \cup late' PROVE Answered(c)'
  <2>1. c \in DOMAIN queue /\ Answered(c)
    <3>1. CASE c \in acked \cup late
      BY <3>1 DEF QueueInv, AckInv
    <3>2. CASE c \notin acked \cup late
      <4>0. PICK p \in Poller : \E d \in batch[p] : Ack(p, d) \/ AckDelayed(p, d)
        BY <1>5, <3>2 DEF QNext, Click, LateAck, Others, qvars, allvars, PollerStep, ListAcked,
            ListQueue, Dispatch, Run, DatabaseBusy, AckLost, Finish, Abandon, CrashPoller
      <4>1. PICK d \in batch[p] : Ack(p, d) \/ AckDelayed(p, d)
        BY <4>0
      <4>2. c = d /\ IsHead(p, d) /\ phase[p] = "ack"
        BY <3>2, <4>1, <1>5 DEF Ack, AckDelayed, Goto
      <4> QED BY <4>1, <4>2 DEF QueueInv, AckInv, PollerInv
    <3> QED BY <3>1, <3>2
  <2> QED BY <1>1, <2>1, AnsweredStays
<1> QED BY <1>2, <1>3, <1>4, <1>5 DEF AckInv

LEMMA AckInvDecided == AckInv => AckedIsDecided
BY DEF AckInv, AckedIsDecided, Answered, Settled, Pending

\* No click is dropped: an approve or reject leaves the queue only when its
\* request is decided, with any number of pollers and operators, whichever of
\* them are killed and whatever acknowledgements are lost or late.
THEOREM NoClickDropped == QSpec => []AckedIsDecided
<1>1. QSpec => []TypeInv
  BY QueueRefinesRunner, TypeInvariant, PTL DEF RunnerSpec
<1> QED
  BY <1>1, AckInit, AckNext, AckInvDecided, QueueInvariant, PTL DEF QSpec
-----------------------------------------------------------------------------
(* The phase a poller is in goes with what its process is at.              *)

PhaseInv ==
    /\ Len(queue) <= MaxClick
    /\ \A p \in Poller :
         /\ phase[p] = "run" <=> pc[p] # "idle"
         /\ phase[p] \in {"off", "list"} => batch[p] = {}
         /\ phase[p] \in {"run", "ack"} => batch[p] # {}

LEMMA PhaseInit == QInit => PhaseInv
BY QueueAssumption DEF QInit, Init, PhaseInv

LEMMA PhaseNext == TypeInv /\ QueueInv /\ PhaseInv /\ [QNext]_allvars => PhaseInv'
<1> SUFFICES ASSUME TypeInv, QueueInv, PhaseInv, [QNext]_allvars PROVE PhaseInv'
  OBVIOUS
<1>1. Len(queue') <= MaxClick
  <2>1. ASSUME NEW id \in Id, NEW kind \in Kind \ {"collect"}, Click(id, kind)
        PROVE  Len(queue') <= MaxClick
    <3>1. [id |-> id, kind |-> kind] \in QueuedDecision
      BY DEF QueuedDecision
    <3> QED BY <2>1, <3>1, QueueAssumption DEF Click, QueueInv
  <2>2. ASSUME NEW p \in Poller, PollerStep(p) PROVE queue' = queue
    BY <2>2 DEF PollerStep, ListAcked, ListQueue, Dispatch, Ack, Run, DatabaseBusy,
                AckLost, AckDelayed, Finish, Abandon, CrashPoller
  <2>3. CASE Others \/ UNCHANGED allvars \/ \E c \in Positions : LateAck(c)
    BY <2>3 DEF Others, allvars, qvars, LateAck, PhaseInv
  <2> QED BY <2>1, <2>2, <2>3 DEF QNext, PhaseInv
<1>2. ASSUME NEW p \in Poller, PollerStep(p)
      PROVE  /\ phase'[p] = "run" <=> pc'[p] # "idle"
             /\ phase'[p] \in {"off", "list"} => batch'[p] = {}
             /\ phase'[p] \in {"run", "ack"} => batch'[p] # {}
  <2>0. /\ p \in Worker /\ pc \in [Worker -> PC] /\ job \in [Worker -> Job]
        /\ phase \in [Poller -> Phase] /\ batch \in [Poller -> SUBSET DOMAIN queue]
        /\ phase[p] = "run" <=> pc[p] # "idle"
        /\ phase[p] \in {"off", "list"} => batch[p] = {}
        /\ phase[p] \in {"run", "ack"} => batch[p] # {}
    BY QueueAssumption DEF TypeInv, JobsOK, QueueInv, PhaseInv
  <2>1. CASE ListAcked(p) \/ ListQueue(p)
    BY <2>0, <2>1 DEF ListAcked, ListQueue, Goto, vars
  <2>2. ASSUME NEW c \in batch[p], Dispatch(p, c)
        PROVE  phase'[p] = "run" /\ pc'[p] # "idle" /\ batch'[p] # {}
    BY <2>0, <2>2 DEF Dispatch, Goto, Begin, Step
  <2>3. CASE AckLost(p) \/ \E c \in batch[p] : Ack(p, c) \/ AckDelayed(p, c)
    BY <2>0, <2>3 DEF Ack, AckLost, AckDelayed, Goto, vars
  <2>4. CASE Finish(p) \/ Abandon(p)
    BY <2>0, <2>4 DEF Finish, Abandon, Goto, Forget, vars
  <2>5. CASE Run(p)
    BY <2>0, <2>5 DEF Run, AfterCommand, AfterException, Goto
  <2>6. CASE DatabaseBusy(p) \/ CrashPoller(p)
    <3>1. pc'[p] = "idle"
      BY <2>0, <2>6 DEF DatabaseBusy, CrashPoller, Crash, Exit, Step
    <3> QED BY <2>0, <2>6, <3>1 DEF DatabaseBusy, CrashPoller, AfterException, Goto, Forget
  <2> QED BY <1>2, <2>1, <2>2, <2>3, <2>4, <2>5, <2>6 DEF PollerStep
<1>3. ASSUME NEW v \in Poller
      PROVE  /\ phase'[v] = "run" <=> pc'[v] # "idle"
             /\ phase'[v] \in {"off", "list"} => batch'[v] = {}
             /\ phase'[v] \in {"run", "ack"} => batch'[v] # {}
  <2>1. CASE PollerStep(v)
    BY <1>2, <2>1
  <2>2. CASE ~PollerStep(v)
    <3>1. phase'[v] = phase[v] /\ batch'[v] = batch[v] /\ pc'[v] = pc[v]
      BY <2>2, OthersStay, PollersStay
    <3> QED BY <3>1 DEF PhaseInv
  <2> QED BY <2>1, <2>2
<1> QED BY <1>1, <1>3 DEF PhaseInv

\* A poller is inside a command exactly while its process is, about the head
\* of what it has fetched, and everything it remembers is in the queue.
THEOREM QueueTyping == QSpec => []QTypeOK
<1>1. QSpec => []TypeInv
  BY QueueRefinesRunner, TypeInvariant, PTL DEF RunnerSpec
<1>2. QueueInv /\ OrderInv /\ PhaseInv /\ AckInv => QTypeOK
  <2> SUFFICES ASSUME QueueInv, OrderInv, PhaseInv, AckInv PROVE QTypeOK
    OBVIOUS
  <2>1. DOMAIN queue \subseteq Positions
    BY QueueAssumption DEF QueueInv, PhaseInv, Positions
  <2>2. seen \in [Poller -> SUBSET Positions]
    BY <2>1 DEF QueueInv, OrderInv
  <2>3. ASSUME NEW p \in Poller, phase[p] = "run", NEW c \in batch[p],
               \A d \in batch[p] : c <= d
        PROVE  job[p].kind = queue[c].kind /\ job[p].id = queue[c].id
    BY <2>3 DEF AckInv, PollerInv, IsHead
  <2> QED BY <2>2, <2>3 DEF QueueInv, OrderInv, PhaseInv, QTypeOK
<1>3. QSpec => []OrderInv
  BY OrderInit, OrderNext, QueueInvariant, PTL DEF QSpec
<1>4. QSpec => []AckInv
  BY <1>1, AckInit, AckNext, QueueInvariant, PTL DEF QSpec
<1>5. QSpec => []PhaseInv
  BY <1>1, PhaseInit, PhaseNext, QueueInvariant, PTL DEF QSpec
<1> QED BY <1>2, <1>3, <1>4, <1>5, QueueInvariant, PTL
=============================================================================
