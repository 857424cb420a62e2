--------------------------- MODULE DecisionQueue ---------------------------
(***************************************************************************)
(* Decisions that come from Slack: the approval server queues each click   *)
(* of a card's button (app/approval_server/), and poll_decisions processes *)
(* fetch the clicks that are not acknowledged, carry them out and          *)
(* acknowledge them (app/runner/decision_poller.py).  A poller runs the    *)
(* same commands an operator starts by hand, so it is a slot of Runner     *)
(* whose next command is the next click it fetched.                        *)
(***************************************************************************)
EXTENDS Runner, Sequences

CONSTANTS
    Poller,     \* the slots whose process is a poll_decisions
    MaxClick,   \* bound: how many clicks ever reach the server
    MaxLate     \* bound: how many acknowledgements are late at a time

ASSUME QueueAssumption ==
    /\ Poller \subseteq Worker
    /\ \A p \in Poller : "collect" \notin Commands[p]
    /\ MaxClick \in Nat /\ MaxLate \in Nat

VARIABLES
    queue,   \* the lines of data/approval_queue.jsonl
    acked,   \* data/approval_queue.ack: the positions acknowledged
    late,    \* the acknowledgements a poller has given up on, under way still
    seen,    \* seen[p]: the acknowledgements the server read for p's request
    batch,   \* batch[p]: the positions p has fetched and not done with yet
    phase,   \* phase[p]: where p is in poll_and_dispatch
    tried    \* history: the positions dispatched at least once

QueuedDecision == [id : Id, kind : Kind \ {"collect"}]
Phase == {"off", "list", "next", "run", "ack"}
Positions == 1..MaxClick

qvars == <<queue, acked, late, seen, batch, phase, tried>>
allvars == <<vars, qvars>>

QTypeOK ==
    /\ queue \in Seq(QueuedDecision) /\ Len(queue) <= MaxClick
    /\ acked \subseteq DOMAIN queue
    /\ late \subseteq DOMAIN queue
    /\ seen \in [Poller -> SUBSET Positions]
    /\ batch \in [Poller -> SUBSET DOMAIN queue]
    /\ phase \in [Poller -> Phase]
    /\ tried \subseteq DOMAIN queue
    \* A poller is inside a command exactly in phase run, about its batch's head.
    /\ \A p \in Poller :
          /\ phase[p] = "run" <=> pc[p] # "idle"
          /\ phase[p] \in {"off", "list"} => batch[p] = {}
          /\ phase[p] \in {"run", "ack"} => batch[p] # {}
          /\ phase[p] = "run" => \A c \in batch[p] :
                (\A d \in batch[p] : c <= d) =>
                    job[p].kind = queue[c].kind /\ job[p].id = queue[c].id

QInit ==
    /\ Init
    /\ queue = <<>>
    /\ acked = {}
    /\ late = {}
    /\ seen = [p \in Poller |-> {}]
    /\ batch = [p \in Poller |-> {}]
    /\ phase = [p \in Poller |-> "off"]
    /\ tried = {}

Goto(p, from, to) ==
    /\ phase[p] = from
    /\ phase' = [phase EXCEPT ![p] = to]

\* Variant to be refuted: newest first.
IsNewest(p, c) == c \in batch[p] /\ \A d \in batch[p] : d <= c

\* The click the poller is at: the batch is in the order of the file.
IsHead(p, c) == c \in batch[p] /\ \A d \in batch[p] : c <= d

-----------------------------------------------------------------------------
(* The server. *)

\* A request may have a card once its process is past posting it, attached
\* or not: the card may be there when Slack's answer is lost.  Requests whose
\* process ended before it posted one are not told apart; the handler takes
\* any number a button carries.
HasCard(id) ==
    /\ Exists(row, id)
    /\ ~\E w \in Worker : /\ job[w].new = id
                          /\ pc[w] \in {"audit_created", "decide", "cas",
                                        "audit_decided", "post"}

\* POST /slack/actions; buttons stay on a card whatever becomes of its request.
Click(id, kind) ==
    /\ Len(queue) < MaxClick
    /\ HasCard(id)
    /\ queue' = Append(queue, [id |-> id, kind |-> kind])
    /\ UNCHANGED <<vars, acked, late, seen, batch, phase, tried>>

\* GET /decisions/pending: list_pending reads the acknowledgements first ...
ListAcked(p) ==
    /\ Goto(p, "off", "list")
    /\ seen' = [seen EXCEPT ![p] = acked]
    /\ UNCHANGED <<vars, queue, acked, late, batch, tried>>

\* ... and then the queue, and the poller gets the answer.
ListQueue(p) ==
    /\ Goto(p, "list", "next")
    /\ batch' = [batch EXCEPT ![p] = DOMAIN queue \ seen[p]]
    /\ UNCHANGED <<vars, queue, acked, late, seen, tried>>

-----------------------------------------------------------------------------
(* The poller. *)

\* Leaving a command at these points is an exception the poller does not know
\* (ApprovalAlreadyDecided, what load_all_sites raises); what the LLM's part
\* of regenerate raises may be either.
Unknown == {"decide", "cas", "load", "llm"}
Known == PC \ {"decide", "cas", "load"}

\* Variant to be refuted: the check of the request's status is left out.
DispatchUnchecked(p, c) ==
    /\ IsHead(p, c)
    /\ Goto(p, "next", "run")
    /\ Step(p, "idle", AfterGet(queue[c].kind))
    /\ job' = [job EXCEPT ![p] = [NoJob EXCEPT
                    !.kind = queue[c].kind, !.id = queue[c].id,
                    !.site = row[queue[c].id].site]]
    /\ tried' = tried \cup {c}
    /\ UNCHANGED <<row, audit, files, world, ghost, queue, acked, late, seen, batch>>

Dispatch(p, c) ==
    /\ IsHead(p, c)
    /\ Goto(p, "next", "run")
    /\ Begin(p, queue[c].kind, queue[c].id)
    /\ tried' = tried \cup {c}
    /\ UNCHANGED <<queue, acked, late, seen, batch>>

Done(p) == \E c \in batch[p] : IsHead(p, c) /\ batch' = [batch EXCEPT ![p] = @ \ {c}]

\* Variant to be refuted: a refused click is left in the queue.
AfterRefusalUnacked(p) ==
    \/ pc[p] # "get" /\ Goto(p, "run", "ack") /\ UNCHANGED batch
    \/ pc[p] = "get" /\ Goto(p, "run", "next") /\ Done(p)

\* Variant to be refuted: any exception acknowledges.
AfterExceptionAcked(p) == Goto(p, "run", "ack") /\ UNCHANGED batch

\* A command that returned, or raised an exception that tells the decision is
\* out of place, is acknowledged; any other is left for the next poll.
AfterCommand(p) == Goto(p, "run", "ack") /\ UNCHANGED batch
AfterException(p) == Goto(p, "run", "next") /\ Done(p)

Run(p) ==
    /\ phase[p] = "run"
    /\ ProcessStep(p)
    /\ \/ pc'[p] # "idle" /\ UNCHANGED <<batch, phase>>
       \/ pc'[p] = "idle" /\ pc[p] \in Known /\ AfterCommand(p)
       \/ pc'[p] = "idle" /\ pc[p] \in Unknown /\ AfterException(p)
    /\ UNCHANGED <<queue, acked, late, seen, tried>>

\* The database stays locked for longer than its busy timeout.
DatabaseBusy(p) ==
    /\ pc[p] \in {"get", "decide", "cas"}
    /\ Crash(p)
    /\ AfterException(p)
    /\ UNCHANGED <<queue, acked, late, seen, tried>>

\* POST /decisions/{qid}/ack: the server appends it, or it gets lost, or
\* takes longer than the poller waits, which is only logged.  To be acknowledged
\* again changes nothing.
Ack(p, c) ==
    /\ IsHead(p, c)
    /\ Goto(p, "ack", "next")
    /\ Done(p)
    /\ acked' = acked \cup {c}
    /\ late' = late \ {c}
    /\ UNCHANGED <<vars, queue, seen, tried>>

AckLost(p) ==
    /\ Goto(p, "ack", "next")
    /\ Done(p)
    /\ UNCHANGED <<vars, queue, acked, late, seen, tried>>

AckDelayed(p, c) ==
    /\ IsHead(p, c)
    /\ Goto(p, "ack", "next")
    /\ Done(p)
    /\ Cardinality(late) < MaxLate
    /\ late' = late \cup ({c} \ acked)
    /\ UNCHANGED <<vars, queue, acked, seen, tried>>

\* The server writes it all the same, whatever the pollers are at by then.
LateAck(c) ==
    /\ c \in late
    /\ acked' = acked \cup {c}
    /\ late' = late \ {c}
    /\ UNCHANGED <<vars, queue, seen, batch, phase, tried>>

\* The process ends, and with it what it has fetched.
Forget(p) ==
    /\ batch' = [batch EXCEPT ![p] = {}]
    /\ seen' = [seen EXCEPT ![p] = {}]

\* It is done with its batch ...
Finish(p) ==
    /\ batch[p] = {}
    /\ Goto(p, "next", "off")
    /\ Forget(p)
    /\ UNCHANGED <<vars, queue, acked, late, tried>>

\* Variant to be refuted: the next poll starts with the old batch.
AbandonKeepsBatch(p) ==
    /\ \E from \in {"list", "next", "ack"} : Goto(p, from, "off")
    /\ UNCHANGED <<vars, queue, acked, late, tried, batch, seen>>

\* ... or the fetch failed, _ack raised what it does not catch (a connection
\* that is reset), or it was killed between commands ...
Abandon(p) ==
    /\ \E from \in {"list", "next", "ack"} : Goto(p, from, "off")
    /\ Forget(p)
    /\ UNCHANGED <<vars, queue, acked, late, tried>>

\* ... or inside a command.
CrashPoller(p) ==
    /\ Goto(p, "run", "off")
    /\ Crash(p)
    /\ Forget(p)
    /\ UNCHANGED <<queue, acked, late, tried>>

PollerStep(p) ==
    \/ ListAcked(p) \/ ListQueue(p)
    \/ \E c \in batch[p] : Dispatch(p, c) \/ Ack(p, c) \/ AckDelayed(p, c)
    \/ Run(p) \/ DatabaseBusy(p) \/ AckLost(p)
    \/ Finish(p) \/ Abandon(p) \/ CrashPoller(p)

\* The other processes, the operator and the clock.
Others ==
    /\ \/ \E w \in Worker \ Poller : ProcessStep(w) \/ Crash(w)
       \/ ClearStaleLock
       \/ Tick
    /\ UNCHANGED qvars

QNext ==
    \/ \E id \in Id, kind \in Kind \ {"collect"} : Click(id, kind)
    \/ \E p \in Poller : PollerStep(p)
    \/ \E c \in Positions : LateAck(c)
    \/ Others

QSpec == QInit /\ [][QNext]_allvars

\* Polls are started again and again, the server can be reached again and
\* again, and a command that has started goes on.  Nobody has to click.
QFairness ==
    /\ \A p \in Poller : /\ WF_allvars(ListAcked(p))
                         /\ SF_allvars(ListQueue(p))
                         /\ WF_allvars(Run(p))
                         /\ WF_allvars(Finish(p))
                         /\ \A c \in Positions :
                               /\ SF_allvars(c \in batch[p] /\ Dispatch(p, c))
                               /\ SF_allvars(c \in batch[p] /\ Ack(p, c))
    /\ \A w \in Worker \ Poller :
          /\ WF_allvars(pc[w] # "idle" /\ ProcessStep(w) /\ UNCHANGED qvars)
          /\ WF_allvars(Collect(w) /\ UNCHANGED qvars)
    /\ WF_allvars(Tick /\ UNCHANGED qvars)
    /\ WF_allvars(ClearStaleLock /\ UNCHANGED qvars)

FairQSpec == QSpec /\ QFairness

-----------------------------------------------------------------------------
(* Properties. *)

\* However clicks are queued, delivered twice and interleaved, the processes
\* only take steps Runner has: all that is shown of operator commands holds
\* of the commands pollers run.
RunnerSpec == Spec

\* No click is dropped: an approve or reject leaves the queue only when its
\* request is decided, by it or by something else (decision_poller.py: the
\* ack follows the dispatch, and an unknown exception does not ack).
AckedIsDecided ==
    \A c \in acked : queue[c].kind \in {"approve", "reject"}
                       => queue[c].id \notin Pending(row)

\* Clicks are first tried in the order in which they were made, whatever
\* acknowledgements are lost and whichever pollers overlap.
TriedInOrder ==
    /\ acked \subseteq tried
    /\ \A c \in tried : 1..c \subseteq tried

\* Every click leaves the queue, except one to regenerate a request that is
\* not due yet: the LLM may fail for it poll after poll.
ClicksLeave ==
    \A c \in Positions :
        (/\ c \in DOMAIN queue
         /\ \/ queue[c].kind # "regenerate"
            \/ queue[c].id \notin Pending(row)
            \/ row[queue[c].id].expires <= now)
            ~> c \in acked

\* An approval that came from the queue has an outcome by the time its click
\* is acknowledged and nobody works on it any more (decision_poller.py: what
\* crashed is not acked and is tried again at the next polling).
AckedIsSettled ==
    \A c \in acked :
        /\ queue[c].kind = "approve"
        /\ <<"approved", queue[c].id>> \in audit
        /\ \A w \in Worker : job[w].id # queue[c].id
        => outcome[queue[c].id] # "none"
=============================================================================
