------------------------------ MODULE Evidence ------------------------------
(***************************************************************************)
(* The samples failed site runs leave on disk (app/evidence.py), over      *)
(* Runner: healing and regenerate work on the sample of their run, and a   *)
(* collect run begins with removing what is too old or too much.           *)
(***************************************************************************)
EXTENDS Runner

CONSTANTS
    SnapshotDays,  \* cleanup(snapshot_days), in ticks
    SuccessDays    \* cleanup(success_snapshot_days), which nothing reads

\* The sample of a run outlives the requests that can follow from it: 30 days
\* against three of 24 hours each.  Requests and processes have different names.
ASSUME EvidenceAssumption ==
    /\ SnapshotDays \in Nat /\ SuccessDays \in Nat
    /\ RegenLimit * Expiry <= SnapshotDays + 1
    /\ Worker \cap Id = {}

\* The sample of a run, by the first request created for it, or by the process
\* of a run that has none yet: when it was written.  Samples nobody will ask
\* for are left out; they only add to the size.
VARIABLE snapshot

evars == <<vars, snapshot>>

Owner == Id \cup Worker

\* There is none, or the size limit has removed it.
Gone == -1
Squeezed == -2

Stored == {o \in Owner : snapshot[o] \in Time}

\* A process has a sample of its own only while it heals.
ETypeOK ==
    /\ snapshot \in [Owner -> Time \cup {Gone, Squeezed}]
    /\ \A id \in Id : snapshot[id] # Gone => row[id].run = id
    /\ \A w \in Worker : snapshot[w] # Gone => pc[w] \in HealPC

EInit == Init /\ snapshot = [o \in Owner |-> Gone]

\* Variant to be refuted: the limit of the samples of successful runs, for all.
TooOldSoon(o) == now - snapshot[o] > SuccessDays

\* _cleanup_age
TooOld(o) == now - snapshot[o] > SnapshotDays

\* cleanup: the samples that are too old, and of the rest the oldest ones, as
\* many as the size limit takes.  It follows the sweep; what other processes do
\* between the two concerns neither the rows nor the samples of the two.
Cleanup ==
    LET old == {o \in Stored : TooOld(o)} IN
    \E big \in SUBSET (Stored \ old) :
        /\ \A o \in big, p \in Stored \ old : snapshot[p] < snapshot[o] => p \in big
        /\ snapshot' = [o \in Owner |-> CASE o \in old -> Gone
                                          [] o \in big -> Squeezed
                                          [] OTHER -> snapshot[o]]

\* A failed run has written its sample, unless the site refused the first page.
Sample(w) ==
    \/ snapshot' = [snapshot EXCEPT ![w] = now]
    \/ snapshot' = [snapshot EXCEPT ![w] = Gone]

\* Its request is created, which it is known by from now on ...
Claim(w) == snapshot' = [snapshot EXCEPT ![job'[w].new] = snapshot[w], ![w] = Gone]

\* Variant to be refuted: the sample is taken for that of the next run.
LeaveKept(w) == UNCHANGED snapshot

\* ... or the healing ends without one.
Leave(w) == snapshot' = [snapshot EXCEPT ![w] = Gone]

\* Healing is given the sample of its run; regenerate_approval ends when the
\* sample of the request's run is not there.
SampleGiven(w) ==
    /\ pc[w] = "heal_llm" /\ pc'[w] = "insert" => w \in Stored
    /\ pc[w] = "llm" /\ pc'[w] # "idle" => row[job[w].id].run \in Stored

\* What a step of a process does to the samples.
SampleStep(w) ==
    LET heals == job[w].kind # "regenerate"
        begins == pc[w] \in {"sweep", "sweep_audit"} /\ pc'[w] = "next_site"
        fails == pc'[w] = "heal_history"
        claims == pc[w] = "insert" /\ heals
        leaves == pc[w] \in HealPC /\ pc'[w] \notin HealPC /\ heals IN
    /\ SampleGiven(w)
    /\ \/ begins /\ Cleanup
       \/ fails /\ Sample(w)
       \/ claims /\ Claim(w)
       \/ leaves /\ Leave(w)
       \/ ~(begins \/ fails \/ claims \/ leaves) /\ UNCHANGED snapshot

\* A tick is a day here and a process takes minutes: time passes between
\* processes.
Between ==
    \/ \E w \in Worker : Crash(w) /\ Leave(w)
    \/ ClearStaleLock /\ UNCHANGED snapshot
    \/ Quiet /\ Tick /\ UNCHANGED snapshot

ENext == Between \/ \E w \in Worker : ProcessStep(w) /\ SampleStep(w)

ESpec == EInit /\ [][ENext]_evars

\* The operator can ask for another candidate for as long as a request is
\* open: the sample it is worked out on stays until the last request that can
\* follow from its run is due (product plan: the samples of failed runs are kept
\* for 30 days, to be analysed again).  Only the size limit may remove it, and
\* a request that was regenerated after it was due may outlive it.
SampleOutlives ==
    \A id \in Pending(row) :
        LET first == row[id].run IN
        /\ now < row[id].expires
        /\ row[id].expires <= row[first].expires + (RegenLimit - 1) * Expiry
        => first \in Stored \/ snapshot[first] = Squeezed
=============================================================================
