--------------------------- MODULE PostingHistory ---------------------------
(***************************************************************************)
(* What the store promises the runs of one site, whatever else uses the    *)
(* database: the records of a collector are merged into the table at once  *)
(* or not at all, into the table as it is then; a run in which something   *)
(* failed is closed as failed; and a closed run reports as inserted what   *)
(* the table says it was the first to store.                               *)
(***************************************************************************)
EXTENDS Naturals, FiniteSets

CONSTANTS Run, NoRun, Posting, Hash, NoHash

VARIABLES
    status,   \* status[r]: of run r
    table,    \* table[p]: the content, first and last run of posting p
    pending,  \* pending[r]: the records run r has collected and not stored
    failed,   \* the runs in which something failed
    inserted  \* inserted[r]: what run r reports to have inserted

hvars == <<status, table, pending, failed, inserted>>

Records == [id : Posting, hash : Hash]
Ids(S) == {record.id : record \in S}

HInit ==
    /\ status = [r \in Run |-> "none"]
    /\ table = [p \in Posting |-> [hash |-> NoHash, first |-> NoRun, last |-> NoRun]]
    /\ pending = [r \in Run |-> {}]
    /\ failed = {}
    /\ inserted = [r \in Run |-> 0]

Open(r) ==
    /\ status[r] = "none"
    /\ status' = [status EXCEPT ![r] = "running"]
    /\ UNCHANGED <<table, pending, failed, inserted>>

Take(r, S) ==
    /\ status[r] = "running" /\ pending[r] = {}
    /\ pending' = [pending EXCEPT ![r] = S]
    /\ UNCHANGED <<status, table, failed, inserted>>

\* What becomes of a posting that run r has seen with this content.
Seen(r, p, hash) ==
    [hash |-> hash, last |-> r,
     first |-> IF table[p].hash = NoHash THEN r ELSE table[p].first]

\* All of them at once.  Of two records of one posting either may be the last.
Store(r) ==
    /\ pending[r] # {}
    /\ \E hash \in [Ids(pending[r]) -> Hash] :
          /\ \A p \in Ids(pending[r]) : [id |-> p, hash |-> hash[p]] \in pending[r]
          /\ table' = [p \in Posting |-> IF p \in Ids(pending[r]) THEN Seen(r, p, hash[p])
                                                                 ELSE table[p]]
    /\ pending' = [pending EXCEPT ![r] = {}]
    /\ UNCHANGED <<status, failed, inserted>>

\* A collector fails, or the records at hand are lost as a whole.
Fail(r) ==
    /\ status[r] = "running"
    /\ pending' = [pending EXCEPT ![r] = {}]
    /\ failed' = failed \cup {r}
    /\ UNCHANGED <<status, table, inserted>>

FirstStored(r) == {p \in Posting : table[p].first = r}

Close(r) ==
    /\ status[r] = "running" /\ pending[r] = {}
    /\ status' = [status EXCEPT ![r] = IF r \in failed THEN "failed" ELSE "success"]
    /\ inserted' = [inserted EXCEPT ![r] = Cardinality(FirstStored(r))]
    /\ UNCHANGED <<table, pending, failed>>

HNext ==
    \E r \in Run :
        \/ Open(r) \/ Store(r) \/ Fail(r) \/ Close(r)
        \/ \E S \in SUBSET Records : S # {} /\ Take(r, S)

HSpec == HInit /\ [][HNext]_hvars
=============================================================================
