--------------------------- MODULE ApprovalTable ---------------------------
(***************************************************************************)
(* The approval_request table, one operator per SQL statement of           *)
(* app/storage/approval.py.  A table is a function from ids to rows; the   *)
(* id is AUTOINCREMENT, so rows fill it from 1 upwards and are never       *)
(* deleted.  The connection is in autocommit mode, so each operator is one *)
(* atomic step of the process that executes it.                            *)
(***************************************************************************)
EXTENDS Integers, FiniteSets

CONSTANTS
    MaxId,      \* bound: how many approval requests are ever created
    MaxTime,    \* bound: the last tick of the clock
    Expiry,     \* ticks from created_at to expires_at (DEFAULT_EXPIRY_HOURS)
    Site,       \* the sites that have a yaml config
    NoSite      \* the site of a row that does not exist

ASSUME TableAssumption ==
    /\ MaxId \in Nat
    /\ MaxTime \in Nat
    /\ Expiry \in Nat
    /\ NoSite \notin Site

Id == 1..MaxId
Time == 0..MaxTime

\* The statuses an operator's command writes, and all of them; "none" is a
\* row that has not been inserted yet.
Decision == {"approved", "rejected", "superseded"}
Status == Decision \cup {"none", "pending", "expired"}

\* run is the id of the first request created for the collect run: each run
\* creates at most one itself, and regenerated candidates share its run_id.
Row == [status : Status,
        site : Site \cup {NoSite},
        run : 0..MaxId,
        expires : Nat,
        decided : Time,
        thread : BOOLEAN]

NoRow == [status |-> "none", site |-> NoSite, run |-> 0, expires |-> 0,
          decided |-> 0, thread |-> FALSE]

Exists(t, id) == t[id].status # "none"

\* WHERE status='pending' [AND site=?]
Pending(t) == {id \in Id : t[id].status = "pending"}
PendingAt(t, s) == {id \in Pending(t) : t[id].site = s}

\* The id the next INSERT returns.
IsNextId(t, id) ==
    /\ ~Exists(t, id)
    /\ \A j \in Id : j < id => Exists(t, j)

\* Variant to be refuted: the expiry of a new request lies in the past.
InsertedExpired(t, id, s, run, now) ==
    [t EXCEPT ![id] = [NoRow EXCEPT !.status = "pending", !.site = s,
                                    !.run = run, !.expires = now - Expiry]]

Inserted(t, id, s, run, now) ==
    [t EXCEPT ![id] = [NoRow EXCEPT !.status = "pending", !.site = s,
                                    !.run = run, !.expires = now + Expiry]]

\* Variant to be refuted: the UPDATE has no AND status condition.
MatchesDecided(t, id) == id \in {j \in DOMAIN t : Exists(t, j)}

\* UPDATE ... WHERE id=? AND status='pending': whether a row matches, which
\* is what the caller reads off the row count, and the table afterwards.
Matches(t, id) == id \in Pending(t)

UpdateStatus(t, id, st, now) ==
    IF Matches(t, id)
    THEN [t EXCEPT ![id].status = st, ![id].decided = now]
    ELSE t

\* Variant to be refuted: < for <= in the SELECT.
DueStrict(t, now) == {id \in Pending(t) : t[id].expires < now}

\* The SELECT of expire_pending_until ...
Due(t, now) == {id \in Pending(t) : t[id].expires <= now}

\* Variant to be refuted: the UPDATE of the sweep tests the status.
ExpirePending(t, ids, now) ==
    [id \in Id |-> IF id \in ids \cap Pending(t)
                   THEN [t[id] EXCEPT !.status = "expired", !.decided = now]
                   ELSE t[id]]

\* ... and its UPDATE, which names the ids and nothing else.
Expire(t, ids, now) ==
    [id \in Id |-> IF id \in ids
                   THEN [t[id] EXCEPT !.status = "expired", !.decided = now]
                   ELSE t[id]]

AttachSlack(t, id) == [t EXCEPT ![id].thread = TRUE]

CountForRun(t, run) == Cardinality({id \in Id : Exists(t, id) /\ t[id].run = run})

RecentRejected(t, s, since) ==
    {id \in Id : /\ t[id].status = "rejected"
                 /\ t[id].site = s
                 /\ t[id].decided >= since}
=============================================================================
