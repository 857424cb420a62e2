---------------------------- MODULE RunnerState ----------------------------
(***************************************************************************)
(* What the processes of the runner share, and what each of them holds in  *)
(* memory.  A process is one `python -m app.runner --mode ...`; systemd    *)
(* starts the collect runs, operators and the decision poller start the    *)
(* others, and nothing but the run lock of collect orders them.            *)
(***************************************************************************)
EXTENDS ApprovalTable

CONSTANTS
    Worker,       \* slots for processes that may run at the same time
    Commands,     \* Commands[w]: the modes started in slot w
    RejectGuard,  \* REJECT_GUARD_HOURS, in ticks
    RegenLimit,   \* REGENERATE_LIMIT_PER_RUN
    CrashAt,      \* the program points at which a process may be killed
    MaxCrash      \* bound: how many processes are ever killed

VARIABLES
    row,      \* table approval_request
    audit,    \* the records of data/audit.log, as <<event, id>>
    yaml,     \* yaml[s]: the patches configs/sites/{s}.yaml contains
    backup,   \* backup[s][t]: data/yaml-backups/{s}/{t}.yaml
    hist,     \* hist[s]: has_successful_history(s)
    lock,     \* whether the run lock file exists
    now,      \* the clock
    crashes,  \* how many processes have been killed
    pc,       \* pc[w]: the next statement of the process in slot w
    job,      \* job[w]: its local variables
    applied,  \* history: how often each request's patch was written
    outcome   \* history: how each approve command ended

Kind == {"approve", "reject", "regenerate", "collect"}

\* The program points of one approve/reject/regenerate command, of the
\* healing it may run inside, and of a collect run.
DecidePC == {"get", "decide", "cas", "audit_decided"}
ApplyPC == {"read", "backup", "truncate", "write", "audit_applied",
            "audit_failed", "load", "rerun", "report", "rb_truncate",
            "rb_write", "audit_rolled_back"}
HealPC == {"heal_history", "heal_pending", "heal_rejected", "heal_llm",
           "count", "llm", "insert", "audit_created", "post", "attach"}
CollectPC == {"acquire", "sweep", "sweep_update", "sweep_audit", "next_site"}
PC == {"idle"} \cup DecidePC \cup ApplyPC \cup HealPC \cup CollectPC

ASSUME RunnerAssumption ==
    /\ Commands \in [Worker -> SUBSET Kind]
    /\ RejectGuard \in Nat
    /\ RegenLimit \in Nat \ {0}
    /\ CrashAt \subseteq PC \ {"idle"}
    /\ MaxCrash \in Nat

\* A config file is the set of patches it contains, over the config it began
\* with; between open("w") and the write it is empty, which no config is.
Torn == {0}
Content == (SUBSET Id) \cup {Torn}

Event == {"created", "approved", "rejected", "superseded", "expired",
          "applied", "apply_failed", "rolled_back"}

Job == [kind : Kind \cup {"none"},
        id : 0..MaxId,                \* the request named on the command line
        new : 0..MaxId,               \* the request it has created
        site : Site \cup {NoSite},    \* the site it is working on
        todo : SUBSET Site,           \* collect: the sites of its plan left
        due : SUBSET Id,              \* collect: the ids the sweep selected
        stamp : Time,                 \* the time it read last
        text : SUBSET Id,             \* approve: the yaml text it read
        ok : BOOLEAN]                 \* approve: the rerun collected records

NoJob == [kind |-> "none", id |-> 0, new |-> 0, site |-> NoSite,
          todo |-> {}, due |-> {}, stamp |-> 0, text |-> {}, ok |-> FALSE]

vars == <<row, audit, yaml, backup, hist, lock, now, crashes, pc, job,
          applied, outcome>>
files == <<yaml, backup>>
world == <<hist, lock, now, crashes>>
ghost == <<applied, outcome>>

TypeOK ==
    /\ row \in [Id -> Row]
    /\ audit \subseteq Event \X Id
    /\ yaml \in [Site -> Content]
    /\ backup \in [Site -> [Time -> Content]]
    /\ hist \in [Site -> BOOLEAN]
    /\ lock \in BOOLEAN
    /\ now \in Time
    /\ crashes \in 0..MaxCrash
    /\ pc \in [Worker -> PC]
    /\ job \in [Worker -> Job]
    /\ applied \in [Id -> Nat]
    /\ outcome \in [Id -> {"none", "kept", "rolled_back", "apply_failed"}]

Init ==
    /\ row = [id \in Id |-> NoRow]
    /\ audit = {}
    /\ yaml = [s \in Site |-> {}]
    /\ backup = [s \in Site |-> [t \in Time |-> {}]]
    /\ hist \in [Site -> BOOLEAN]
    /\ lock = FALSE
    /\ now = 0
    /\ crashes = 0
    /\ pc = [w \in Worker |-> "idle"]
    /\ job = [w \in Worker |-> NoJob]
    /\ applied = [id \in Id |-> 0]
    /\ outcome = [id \in Id |-> "none"]

\* The process in slot w moves from one program point to another ...
Step(w, from, to) ==
    /\ pc[w] = from
    /\ pc' = [pc EXCEPT ![w] = to]

\* ... or from there to its exit, by returning or by an exception nothing
\* catches: its local variables are gone.
Exit(w, from) ==
    /\ Step(w, from, "idle")
    /\ job' = [job EXCEPT ![w] = NoJob]

Log(event, id) == audit' = audit \cup {<<event, id>>}
=============================================================================
