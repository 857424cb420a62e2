---------------------------- MODULE SiteRunProofs ----------------------------
(***************************************************************************)
(* The postings and the record of the runs stay true for any number of     *)
(* runs, postings, contents, collectors and records, and any faults.       *)
(***************************************************************************)
EXTENDS SiteRun, Induction, FiniteSetTheorems, SequenceTheorems

-----------------------------------------------------------------------------
(* Types. *)

LEMMA BatchIsSeq ==
    ASSUME NEW b
    PROVE  b \in Batch \cup {<<>>} <=> b \in Seq(Record) /\ Len(b) <= MaxRecords
<1>1. ASSUME b \in Batch PROVE b \in Seq(Record) /\ Len(b) <= MaxRecords
  <2>1. PICK n \in 1..MaxRecords : b \in [1..n -> Record]
    BY <1>1 DEF Batch
  <2>2. b \in Seq(Record)
    BY <2>1, SeqDef, SiteRunAssumption
  <2>3. Len(b) = n
    BY <2>1, <2>2, LenProperties, SiteRunAssumption
  <2> QED BY <2>1, <2>2, <2>3, SiteRunAssumption
<1>2. <<>> \in Seq(Record) /\ Len(<<>>) <= MaxRecords
  BY EmptySeq, SiteRunAssumption
<1>3. ASSUME b \in Seq(Record), Len(b) <= MaxRecords, b # <<>> PROVE b \in Batch
  <2>1. Len(b) \in 1..MaxRecords
    BY <1>3, EmptySeq, SiteRunAssumption
  <2>2. b \in [1..Len(b) -> Record]
    BY <1>3, LenProperties
  <2> QED BY <2>1, <2>2 DEF Batch
<1> QED BY <1>1, <1>2, <1>3

LEMMA NoStatsOK == NoStats \in Stats
BY DEF NoStats, Stats

LEMMA NoPostsOK == NoPosts \in [Posting -> PostRow]
BY DEF NoPosts, Absent, PostRow

LEMMA AddUpOK ==
    ASSUME NEW s \in Stats, NEW t \in Stats
    PROVE  AddUp(s, t) \in Stats /\ AddUp(s, t).inserted = s.inserted + t.inserted
BY DEF AddUp, Stats

LEMMA TypingInit == Init => TypeOK
<1> SUFFICES ASSUME Init PROVE TypeOK
  OBVIOUS
<1>1. Collectors \in 0..Collectors /\ <<>> \in Batch \cup {<<>>} /\ 0 \in 0..MaxFault
  BY SiteRunAssumption
<1>2. ASSUME NEW r \in Run PROVE mem[r] \in Mem
  BY <1>1, NoStatsOK, NoPostsOK DEF Init, Mem
<1>3. mem \in [Run -> Mem]
  BY <1>2 DEF Init
<1>4. runs \in [Run -> RunRow]
  BY NoStatsOK DEF Init, RunRow
<1> QED BY <1>1, <1>3, <1>4, NoPostsOK DEF Init, TypeOK, PC

\* What becomes of the local variables of one run.
LEMMA MemTyped ==
    ASSUME TypeOK, NEW r \in Run, NEW m \in Mem, mem' = [mem EXCEPT ![r] = m]
    PROVE  mem' \in [Run -> Mem]
BY DEF TypeOK

LEMMA PcTyped ==
    ASSUME TypeOK, NEW r \in Run, NEW from, NEW to \in PC, Step(r, from, to)
    PROVE  pc' \in [Run -> PC]
BY DEF TypeOK, Step

\* The posting at hand, and its row as the transaction sees it.
LEMMA HeadOK ==
    ASSUME TypeOK, NEW r \in Run, mem[r].batch # <<>>
    PROVE  /\ Head(mem[r].batch) \in Record
           /\ Tail(mem[r].batch) \in Batch \cup {<<>>}
           /\ Stored(r) \in PostRow
<1>1. mem[r].batch \in Seq(Record) /\ Len(mem[r].batch) <= MaxRecords
      /\ mem[r].snap \in [Posting -> PostRow]
  BY BatchIsSeq DEF TypeOK, Mem
<1>2. Head(mem[r].batch) \in Record /\ Tail(mem[r].batch) \in Seq(Record)
      /\ Len(Tail(mem[r].batch)) = Len(mem[r].batch) - 1
  BY <1>1, HeadTailProperties
<1>3. Len(Tail(mem[r].batch)) <= MaxRecords
  BY <1>1, <1>2, LenProperties, SiteRunAssumption
<1> QED BY <1>1, <1>2, <1>3, BatchIsSeq DEF Stored, Record

\* What one posting does to the transaction: its row, and the count it goes to.
Upserts(r, p, new, stats) ==
    /\ p = Head(mem[r].batch)
    /\ \/ /\ Stored(r).hash = NoHash
          /\ new = [hash |-> p.hash, first |-> r, last |-> r]
          /\ stats = [mem[r].stats EXCEPT !.inserted = @ + 1]
       \/ /\ Stored(r).hash # NoHash
          /\ \/ new = [Stored(r) EXCEPT !.hash = p.hash, !.last = r]
             \/ Stored(r).hash = p.hash /\ new = [Stored(r) EXCEPT !.last = r]
          /\ \/ stats = [mem[r].stats EXCEPT !.updated = @ + 1]
             \/ stats = [mem[r].stats EXCEPT !.unchanged = @ + 1]

LEMMA UpsertStores ==
    ASSUME TypeOK, NEW r \in Run, Upsert(r)
    PROVE  \E p \in Record, new \in PostRow, stats \in Stats :
              Upserts(r, p, new, stats) /\ Stores(r, new, stats)
<1> DEFINE p == Head(mem[r].batch)
<1>1. p \in Record /\ Stored(r) \in PostRow /\ mem[r].stats \in Stats
      /\ p.hash \in Hash /\ p.hash # NoHash
  BY HeadOK, SiteRunAssumption DEF Upsert, TypeOK, Mem, Record
<1> DEFINE ins == [mem[r].stats EXCEPT !.inserted = @ + 1]
           upd == [mem[r].stats EXCEPT !.updated = @ + 1]
           unc == [mem[r].stats EXCEPT !.unchanged = @ + 1]
           put == [hash |-> p.hash, first |-> r, last |-> r]
           chg == [Stored(r) EXCEPT !.hash = p.hash, !.last = r]
           saw == [Stored(r) EXCEPT !.last = r]
<1>2. ins \in Stats /\ upd \in Stats /\ unc \in Stats
  BY <1>1 DEF Stats
<1>3. put \in PostRow /\ chg \in PostRow /\ saw \in PostRow
  BY <1>1 DEF PostRow
<1>4. \/ Stored(r).hash = NoHash /\ Stores(r, put, ins)
      \/ Stored(r).hash \notin {NoHash, p.hash} /\ Stores(r, chg, upd)
      \/ Stored(r).hash = p.hash /\ Stores(r, saw, unc)
  BY DEF Upsert
<1>5. /\ Stored(r).hash = NoHash => Upserts(r, p, put, ins)
      /\ Stored(r).hash \notin {NoHash, p.hash} => Upserts(r, p, chg, upd)
      /\ Stored(r).hash = p.hash => Upserts(r, p, saw, unc)
  BY <1>1 DEF Upserts
<1> HIDE DEF p, ins, upd, unc, put, chg, saw
<1> QED BY <1>1, <1>2, <1>3, <1>4, <1>5

LEMMA TypingNext == TypeOK /\ [Next]_vars => TypeOK'
<1> SUFFICES ASSUME TypeOK, [Next]_vars PROVE TypeOK'
  OBVIOUS
<1>0. /\ runs \in [Run -> RunRow] /\ posts \in [Posting -> PostRow]
      /\ writer \in Run \cup {NoRun} /\ stale \subseteq Run /\ pc \in [Run -> PC]
      /\ mem \in [Run -> Mem] /\ faults \in 0..MaxFault
      /\ fetched \in [Run -> SUBSET Record] /\ got \in [Run -> SUBSET Record]
  BY DEF TypeOK
<1>1. ASSUME NEW r \in Run, Start(r) PROVE TypeOK'
  <2>1. runs' \in [Run -> RunRow] /\ writer' \in Run \cup {NoRun} /\ stale' \subseteq Run
    BY <1>0, <1>1 DEF Start, Commits, RunRow
  <2>2. pc' \in [Run -> PC]
    BY <1>1, PcTyped DEF Start, PC
  <2> QED BY <1>0, <1>1, <2>1, <2>2 DEF Start, TypeOK
<1>2. ASSUME NEW r \in Run, Collect(r) PROVE TypeOK'
  <2>1. UNCHANGED <<runs, posts, writer, stale, faults>>
    BY <1>2 DEF Collect
  <2>2. pc' \in [Run -> PC]
    BY <1>2, PcTyped DEF Collect, PC
  <2>3. mem[r] \in Mem /\ mem[r].left - 1 \in 0..Collectors /\ 0 \in 0..Collectors
    BY <1>0, <1>2, SiteRunAssumption DEF Collect, Mem
  <2>4. ASSUME NEW b \in Batch, mem' = [mem EXCEPT ![r].batch = b, ![r].left = @ - 1],
               fetched' = [fetched EXCEPT ![r] = @ \cup {b[i] : i \in DOMAIN b}],
               got' = [got EXCEPT ![r] = {b[i] : i \in DOMAIN b}]
        PROVE  TypeOK'
    <3> DEFINE m == [mem[r] EXCEPT !.batch = b, !.left = @ - 1]
    <3>1. m \in Mem
      BY <2>3, <2>4 DEF Mem
    <3>2. mem' = [mem EXCEPT ![r] = m]
      BY <1>0, <2>4
    <3>3. mem' \in [Run -> Mem]
      BY <3>1, <3>2, MemTyped
    <3>4. b \in Seq(Record)
      BY BatchIsSeq
    <3>5. {b[i] : i \in DOMAIN b} \subseteq Record
      BY <3>4, LenProperties
    <3>6. fetched' \in [Run -> SUBSET Record] /\ got' \in [Run -> SUBSET Record]
      BY <1>0, <2>4, <3>5
    <3> QED BY <1>0, <2>1, <2>2, <3>3, <3>6 DEF TypeOK
  <2>5. ASSUME NEW n \in {0, mem[r].left - 1},
               mem' = [mem EXCEPT ![r].status = "failed", ![r].left = n],
               UNCHANGED <<fetched, got>>
        PROVE  TypeOK'
    <3> DEFINE m == [mem[r] EXCEPT !.status = "failed", !.left = n]
    <3>1. m \in Mem
      BY <2>3, <2>5 DEF Mem
    <3>2. mem' = [mem EXCEPT ![r] = m]
      BY <1>0, <2>5
    <3>3. mem' \in [Run -> Mem]
      BY <3>1, <3>2, MemTyped
    <3> QED BY <1>0, <2>1, <2>2, <2>5, <3>3 DEF TypeOK
  <2> QED BY <1>2, <2>4, <2>5 DEF Collect
<1>3. ASSUME NEW r \in Run, Select(r) PROVE TypeOK'
  <2>1. pc' \in [Run -> PC]
    BY <1>3, PcTyped DEF Select, PC
  <2> DEFINE m == [mem[r] EXCEPT !.snap = posts]
  <2>2. m \in Mem /\ mem' = [mem EXCEPT ![r] = m]
    BY <1>0, <1>3 DEF Select, Mem
  <2>3. mem' \in [Run -> Mem]
    BY <2>2, MemTyped
  <2> QED BY <1>0, <1>3, <2>1, <2>3 DEF Select, TypeOK
<1>4. ASSUME NEW r \in Run, Write(r) PROVE TypeOK'
  <2>1. pc' \in [Run -> PC]
    BY <1>4, PcTyped DEF Write, PC
  <2> QED BY <1>0, <1>4, <2>1 DEF Write, TypeOK
<1>5. ASSUME NEW r \in Run, Locked(r) PROVE TypeOK'
  <2>1. pc' \in [Run -> PC] /\ stale' \subseteq Run
    BY <1>0, <1>5, PcTyped DEF Locked, PC
  <2> DEFINE m == [mem[r] EXCEPT !.status = "failed", !.left = 0, !.batch = <<>>,
                                 !.snap = NoPosts]
  <2>2. mem[r] \in Mem /\ 0 \in 0..Collectors
    BY <1>0, SiteRunAssumption
  <2>2a. m \in Mem
    BY <2>2, NoPostsOK DEF Mem
  <2>2b. mem' = [mem EXCEPT ![r] = m]
    BY <1>0, <1>5, <2>2 DEF Locked, Mem
  <2>3. mem' \in [Run -> Mem]
    BY <2>2a, <2>2b, MemTyped
  <2> QED BY <1>0, <1>5, <2>1, <2>3 DEF Locked, TypeOK
<1>6. ASSUME NEW r \in Run, Upsert(r) PROVE TypeOK'
  <2>1. PICK p \in Record, new \in PostRow, stats \in Stats :
          Upserts(r, p, new, stats) /\ Stores(r, new, stats)
    BY <1>6, UpsertStores
  <2> DEFINE m == [mem[r] EXCEPT !.snap = [@ EXCEPT ![p.id] = new], !.stats = stats,
                                 !.batch = Tail(@)]
  <2>2. Tail(mem[r].batch) \in Batch \cup {<<>>}
    BY <1>6, HeadOK DEF Upsert
  <2>3. mem[r] \in Mem /\ p.id \in Posting
    BY <1>0 DEF Record
  <2>3a. [mem[r].snap EXCEPT ![p.id] = new] \in [Posting -> PostRow]
    BY <2>3 DEF Mem
  <2>3b. m \in Mem
    BY <2>2, <2>3, <2>3a DEF Mem
  <2>3c. mem' = [mem EXCEPT ![r] = m]
    BY <1>0, <2>1, <2>3 DEF Stores, Upserts, Mem
  <2>4. mem' \in [Run -> Mem] /\ pc' \in [Run -> PC]
    BY <2>1, <2>3b, <2>3c, MemTyped, PcTyped DEF Stores, PC
  <2> QED BY <1>0, <2>1, <2>4 DEF Stores, TypeOK
<1>7. ASSUME NEW r \in Run, Commit(r) PROVE TypeOK'
  <2> DEFINE total == AddUp(mem[r].total, mem[r].stats)
             m == [mem[r] EXCEPT !.total = total, !.stats = NoStats, !.snap = NoPosts]
  <2>1. mem[r] \in Mem
    BY <1>0
  <2>2. total \in Stats
    BY <2>1, AddUpOK DEF Mem
  <2>3. mem' = [mem EXCEPT ![r] = m]
    BY <1>0, <1>7 DEF Commit
  <2> HIDE DEF total
  <2>4. m \in Mem
    BY <2>1, <2>2, NoStatsOK, NoPostsOK DEF Mem
  <2>5. mem' \in [Run -> Mem] /\ pc' \in [Run -> PC]
    BY <1>7, <2>3, <2>4, MemTyped, PcTyped DEF Commit, PC
  <2>6. posts' \in [Posting -> PostRow] /\ writer' \in Run \cup {NoRun} /\ stale' \subseteq Run
    BY <1>0, <1>7, <2>1 DEF Commit, Commits, Mem
  <2> QED BY <1>0, <1>7, <2>5, <2>6 DEF Commit, TypeOK
<1>8. ASSUME NEW r \in Run, Finish(r) PROVE TypeOK'
  <2>1. mem[r] \in Mem
    BY <1>0
  <2>2. runs' \in [Run -> RunRow] /\ writer' \in Run \cup {NoRun} /\ stale' \subseteq Run
    BY <1>0, <1>8, <2>1 DEF Finish, Commits, RunRow, Mem
  <2>3. pc' \in [Run -> PC]
    BY <1>8, PcTyped DEF Finish, PC
  <2> QED BY <1>0, <1>8, <2>2, <2>3 DEF Finish, TypeOK
<1>9. ASSUME NEW r \in Run, FinishBusy(r) \/ Kill(r) PROVE TypeOK'
  <2>1. Ends(r) /\ writer' \in Run \cup {NoRun}
    BY <1>0, <1>9 DEF FinishBusy, Kill
  <2>2. pc' \in [Run -> PC] /\ stale' \subseteq Run /\ faults' \in 0..MaxFault
    BY <1>0, <2>1, SiteRunAssumption DEF Ends, PC
  <2> QED BY <1>0, <2>1, <2>2 DEF Ends, TypeOK
<1>10. CASE OtherWrite
  BY <1>0, <1>10 DEF OtherWrite, TypeOK
<1>11. CASE UNCHANGED vars
  BY <1>0, <1>11 DEF vars, TypeOK
<1> QED
  BY <1>1, <1>2, <1>3, <1>4, <1>5, <1>6, <1>7, <1>8, <1>9, <1>10, <1>11
     DEF Next, RunStep

\* Every table and every local variable of a run keeps its type, with any
\* number of runs and postings, under kills, lost locks and busy databases.
THEOREM StoreTyping == Spec => []TypeOK
BY TypingInit, TypingNext, PTL DEF Spec

-----------------------------------------------------------------------------
(* What the transactions keep true.  SQLite's snapshots do the work: a run *)
(* that comes to write has read the table as it still is, and from then on *)
(* nobody else writes to it.                                               *)

\* The rows of a table are there or not, and show what their last run has seen.
Sound(t, seen) ==
    \A p \in Posting :
        /\ t[p].hash = NoHash <=> t[p].first = NoRun
        /\ t[p].hash # NoHash =>
             t[p].last \in Run /\ [id |-> p, hash |-> t[p].hash] \in seen[t[p].last]

\* u is t with postings that run r has stored or seen again.
Extends(r, t, u) ==
    \A p \in Posting :
        \/ t[p].hash # NoHash /\ u[p].hash # NoHash /\ u[p].first = t[p].first
        \/ t[p].hash = NoHash /\ u[p].first \in {NoRun, r}

FirstSeen(t, r) == {p \in Posting : t[p].first = r}

RunOK(r) ==
    /\ pc[r] = "upsert" <=> writer = r
    /\ pc[r] = "write" /\ r \notin stale => mem[r].snap = posts
    /\ pc[r] \in {"select", "write", "upsert"} =>
         \A i \in DOMAIN mem[r].batch : mem[r].batch[i] \in fetched[r]
    /\ pc[r] = "upsert" =>
         /\ Sound(mem[r].snap, fetched) /\ Extends(r, posts, mem[r].snap)
         /\ mem[r].total.inserted + mem[r].stats.inserted
              = Cardinality(FirstSeen(mem[r].snap, r))
    /\ pc[r] \in {"start", "collect", "select", "write"} =>
         /\ mem[r].stats = NoStats
         /\ mem[r].total.inserted = Cardinality(FirstSeen(posts, r))
    /\ pc[r] = "start" => mem[r].total = NoStats
    /\ pc[r] # "start" => runs[r].status # "none"
    /\ pc[r] = "over" => r \in Finished \/ faults > 0
    /\ r \in Finished =>
         /\ pc[r] = "over"
         /\ runs[r].stats.inserted = Cardinality(FirstSeen(posts, r))

StoreInv == TypeOK /\ Sound(posts, fetched) /\ \A r \in Run : RunOK(r)

FetchedGrows == \A r \in Run : fetched[r] \subseteq fetched'[r]

LEMMA FaultsCount == ASSUME TypeOK, [Next]_vars, faults > 0 PROVE faults' > 0
<1>1. faults \in Int
  BY DEF TypeOK
<1>2. ASSUME NEW r \in Run, RunStep(r) PROVE faults' = faults
  BY <1>2 DEF RunStep, Start, Collect, Select, Write, Locked, Upsert, Stores, Commit, Finish
<1>3. ASSUME NEW r \in Run, FinishBusy(r) \/ Kill(r) PROVE faults' = faults + 1
  BY <1>3 DEF FinishBusy, Kill, Ends
<1>4. ASSUME OtherWrite \/ UNCHANGED vars PROVE faults' = faults
  BY <1>4 DEF OtherWrite, vars
<1>5. faults' = faults \/ faults' = faults + 1
  BY <1>2, <1>3, <1>4 DEF Next
<1> QED BY <1>1, <1>5

LEMMA SoundStill ==
    ASSUME NEW t, NEW f, NEW g, Sound(t, f), \A r \in Run : f[r] \subseteq g[r]
    PROVE  Sound(t, g)
BY DEF Sound

LEMMA StoreInit == Init => StoreInv
<1> SUFFICES ASSUME Init PROVE StoreInv
  OBVIOUS
<1>1. Sound(posts, fetched)
  BY DEF Init, NoPosts, Absent, Sound
<1>2. ASSUME NEW r \in Run PROVE RunOK(r)
  <2>1. FirstSeen(posts, r) = {}
    BY SiteRunAssumption DEF Init, NoPosts, Absent, FirstSeen
  <2>2. mem[r].total.inserted = 0 /\ mem[r].stats = NoStats
    BY DEF Init, NoStats
  <2>3. pc[r] = "start" /\ writer # r /\ r \notin Finished /\ mem[r].total = NoStats
    BY SiteRunAssumption DEF Init, Finished
  <2> QED BY <2>1, <2>2, <2>3, FS_EmptySet DEF RunOK
<1> QED BY <1>1, <1>2, TypingInit DEF StoreInv

\* A step that leaves the table alone, seen by a run it is not a step of.
LEMMA RunUntouched ==
    ASSUME StoreInv, [Next]_vars, NEW q \in Run, pc'[q] = pc[q], mem'[q] = mem[q],
           runs'[q] = runs[q], posts' = posts, FetchedGrows, q \in stale => q \in stale',
           writer' = q <=> writer = q
    PROVE  RunOK(q)'
<1>1. RunOK(q)
  BY DEF StoreInv
<1>2. q \in Finished' <=> q \in Finished
  BY DEF Finished
<1>3. Sound(mem[q].snap, fetched) => Sound(mem'[q].snap, fetched')
  BY SoundStill DEF FetchedGrows
<1>4. \A rec : rec \in fetched[q] => rec \in fetched'[q]
  BY DEF FetchedGrows
<1>5. faults > 0 => faults' > 0
  BY FaultsCount DEF StoreInv
<1> QED BY <1>1, <1>2, <1>3, <1>4, <1>5 DEF RunOK

LEMMA PostsUntouched ==
    ASSUME StoreInv, posts' = posts, FetchedGrows PROVE Sound(posts, fetched)'
BY SoundStill DEF StoreInv, FetchedGrows

\* A step of one run that leaves the table alone.
LEMMA RunMoves ==
    ASSUME StoreInv, [Next]_vars, NEW r \in Run, NEW to, pc' = [pc EXCEPT ![r] = to],
           \A q \in Run \ {r} : mem'[q] = mem[q] /\ runs'[q] = runs[q], posts' = posts,
           FetchedGrows, \A q \in Run \ {r} : q \in stale => q \in stale',
           \A q \in Run \ {r} : writer' = q <=> writer = q, RunOK(r)'
    PROVE  StoreInv'
<1>1. ASSUME NEW q \in Run, q # r PROVE RunOK(q)'
  <2>1. pc'[q] = pc[q]
    BY <1>1 DEF StoreInv, TypeOK
  <2> QED BY <1>1, <2>1, RunUntouched
<1> QED BY <1>1, PostsUntouched, TypingNext DEF StoreInv

\* What a statement in autocommit mode does to the locks.
LEMMA CommitLocks ==
    ASSUME StoreInv, NEW r \in Run, Commits(r), pc[r] # "upsert"
    PROVE  /\ writer = NoRun /\ writer' = NoRun
           /\ \A q \in Run \ {r} : q \in stale => q \in stale'
<1>1. writer # r
  BY DEF StoreInv, RunOK
<1> QED BY <1>1 DEF Commits

LEMMA StartKeeps == ASSUME StoreInv, [Next]_vars, NEW r \in Run, Start(r) PROVE StoreInv'
<1>1. /\ pc[r] = "start" /\ pc' = [pc EXCEPT ![r] = "collect"] /\ pc \in [Run -> PC]
      /\ runs' = [runs EXCEPT ![r].status = "running"] /\ runs \in [Run -> RunRow]
      /\ UNCHANGED <<posts, mem, fetched>> /\ Commits(r)
  BY DEF Start, Step, StoreInv, TypeOK
<1>2. writer' # r /\ \A q \in Run \ {r} : (q \in stale => q \in stale') /\ (writer' = q <=> writer = q)
  BY <1>1, CommitLocks, SiteRunAssumption
<1>3. /\ r \notin Finished' /\ runs'[r].status = "running" /\ pc'[r] = "collect"
      /\ \A q \in Run \ {r} : runs'[q] = runs[q]
  BY <1>1 DEF Finished, RunRow
<1>4. RunOK(r)
  BY DEF StoreInv
<1>5. RunOK(r)'
  BY <1>1, <1>2, <1>3, <1>4 DEF RunOK
<1> QED BY <1>1, <1>2, <1>3, <1>5, RunMoves DEF FetchedGrows

LEMMA CollectKeeps == ASSUME StoreInv, [Next]_vars, NEW r \in Run, Collect(r) PROVE StoreInv'
<1>1. /\ pc[r] = "collect" /\ pc \in [Run -> PC] /\ mem \in [Run -> Mem]
      /\ fetched \in [Run -> SUBSET Record] /\ UNCHANGED <<runs, posts, writer, stale>>
  BY DEF Collect, Step, StoreInv, TypeOK
<1>2. RunOK(r) /\ r \notin Finished'
  BY <1>1 DEF StoreInv, RunOK, Finished
<1>3. ASSUME NEW b \in Batch, pc' = [pc EXCEPT ![r] = "select"],
             mem' = [mem EXCEPT ![r].batch = b, ![r].left = @ - 1],
             fetched' = [fetched EXCEPT ![r] = @ \cup {b[i] : i \in DOMAIN b}]
      PROVE  StoreInv'
  <2>1. FetchedGrows /\ \A i \in DOMAIN b : b[i] \in fetched'[r]
    BY <1>1, <1>3 DEF FetchedGrows
  <2>2. mem'[r].batch = b /\ mem'[r].stats = mem[r].stats /\ mem'[r].total = mem[r].total
        /\ pc'[r] = "select" /\ \A q \in Run \ {r} : mem'[q] = mem[q]
    BY <1>1, <1>3 DEF Mem
  <2>3. RunOK(r)'
    BY <1>1, <1>2, <2>1, <2>2 DEF RunOK
  <2> QED BY <1>1, <1>3, <2>1, <2>2, <2>3, RunMoves
<1>4. ASSUME NEW n, pc' = [pc EXCEPT ![r] = "collect"], fetched' = fetched,
             mem' = [mem EXCEPT ![r].status = "failed", ![r].left = n]
      PROVE  StoreInv'
  <2>1. mem'[r].stats = mem[r].stats /\ mem'[r].total = mem[r].total
        /\ pc'[r] = "collect" /\ \A q \in Run \ {r} : mem'[q] = mem[q]
    BY <1>1, <1>4 DEF Mem
  <2>2. RunOK(r)'
    BY <1>1, <1>2, <2>1 DEF RunOK
  <2> QED BY <1>1, <1>4, <2>1, <2>2, RunMoves DEF FetchedGrows
<1>5. \/ \E b \in Batch :
           /\ pc' = [pc EXCEPT ![r] = "select"]
           /\ mem' = [mem EXCEPT ![r].batch = b, ![r].left = @ - 1]
           /\ fetched' = [fetched EXCEPT ![r] = @ \cup {b[i] : i \in DOMAIN b}]
      \/ /\ pc' = [pc EXCEPT ![r] = "collect"] /\ fetched' = fetched
         /\ mem' = [mem EXCEPT ![r].status = "failed", ![r].left = @ - 1]
      \/ /\ pc' = [pc EXCEPT ![r] = "collect"] /\ fetched' = fetched
         /\ mem' = [mem EXCEPT ![r].status = "failed", ![r].left = 0]
  BY DEF Collect, Step
<1>6. mem' = [mem EXCEPT ![r].status = "failed", ![r].left = @ - 1]
        => mem' = [mem EXCEPT ![r].status = "failed", ![r].left = mem[r].left - 1]
  BY <1>1 DEF Mem
<1> QED BY <1>3, <1>4, <1>5, <1>6

LEMMA SelectKeeps == ASSUME StoreInv, [Next]_vars, NEW r \in Run, Select(r) PROVE StoreInv'
<1>1. /\ pc[r] = "select" /\ pc \in [Run -> PC] /\ mem \in [Run -> Mem]
      /\ pc' = [pc EXCEPT ![r] = "write"] /\ mem' = [mem EXCEPT ![r].snap = posts]
      /\ UNCHANGED <<runs, posts, writer, stale, fetched>>
  BY DEF Select, Step, StoreInv, TypeOK
<1>2. RunOK(r) /\ r \notin Finished'
  BY <1>1 DEF StoreInv, RunOK, Finished
<1>3. /\ mem'[r].stats = mem[r].stats /\ mem'[r].total = mem[r].total
      /\ mem'[r].batch = mem[r].batch /\ mem'[r].snap = posts
      /\ pc'[r] = "write" /\ \A q \in Run \ {r} : mem'[q] = mem[q]
  BY <1>1 DEF Mem
<1>4. RunOK(r)'
  BY <1>1, <1>2, <1>3 DEF RunOK
<1> QED BY <1>1, <1>3, <1>4, RunMoves DEF FetchedGrows

\* The lock is free and the snapshot is the table: what the run goes on to
\* change is the table itself.
LEMMA WriteKeeps == ASSUME StoreInv, [Next]_vars, NEW r \in Run, Write(r) PROVE StoreInv'
<1>1. /\ pc[r] = "write" /\ pc \in [Run -> PC] /\ writer = NoRun /\ r \notin stale
      /\ pc' = [pc EXCEPT ![r] = "upsert"] /\ writer' = r
      /\ UNCHANGED <<runs, posts, stale, mem, fetched>>
  BY DEF Write, Step, StoreInv, TypeOK
<1>2. RunOK(r) /\ r \notin Finished' /\ pc'[r] = "upsert" /\ mem[r] \in Mem
  BY <1>1 DEF StoreInv, RunOK, Finished, TypeOK
<1>3. mem[r].snap = posts /\ Sound(posts, fetched)
  BY <1>1, <1>2 DEF RunOK, StoreInv
<1>4. Extends(r, posts, posts)
  BY <1>3 DEF Sound, Extends
<1>5. mem[r].total.inserted + mem[r].stats.inserted = mem[r].total.inserted
  BY <1>1, <1>2 DEF RunOK, NoStats, Mem, Stats
<1>6. RunOK(r)'
  BY <1>1, <1>2, <1>3, <1>4, <1>5 DEF RunOK
<1>7. \A q \in Run \ {r} : writer' = q <=> writer = q
  BY <1>1, SiteRunAssumption
<1> QED BY <1>1, <1>6, <1>7, RunMoves DEF FetchedGrows

LEMMA LockedKeeps == ASSUME StoreInv, [Next]_vars, NEW r \in Run, Locked(r) PROVE StoreInv'
<1>1. /\ pc[r] = "write" /\ pc \in [Run -> PC] /\ mem \in [Run -> Mem]
      /\ pc' = [pc EXCEPT ![r] = "collect"] /\ stale' = stale \ {r}
      /\ mem' = [mem EXCEPT ![r].status = "failed", ![r].left = 0, ![r].batch = <<>>,
                            ![r].snap = NoPosts]
      /\ UNCHANGED <<runs, posts, writer, fetched>>
  BY DEF Locked, Step, StoreInv, TypeOK
<1>2. RunOK(r) /\ r \notin Finished'
  BY <1>1 DEF StoreInv, RunOK, Finished
<1>3. /\ mem'[r].stats = mem[r].stats /\ mem'[r].total = mem[r].total
      /\ pc'[r] = "collect" /\ \A q \in Run \ {r} : mem'[q] = mem[q]
  BY <1>1 DEF Mem
<1>4. RunOK(r)'
  BY <1>1, <1>2, <1>3 DEF RunOK
<1> QED BY <1>1, <1>3, <1>4, RunMoves DEF FetchedGrows

\* The posting at hand and those after it come from the batch.
LEMMA BatchSeen ==
    ASSUME StoreInv, NEW r \in Run, pc[r] = "upsert", mem[r].batch # <<>>
    PROVE  /\ Head(mem[r].batch) \in fetched[r]
           /\ \A i \in DOMAIN Tail(mem[r].batch) : Tail(mem[r].batch)[i] \in fetched[r]
<1> DEFINE b == mem[r].batch
<1>1. b \in Seq(Record) /\ \A i \in DOMAIN b : b[i] \in fetched[r]
  BY BatchIsSeq DEF StoreInv, TypeOK, Mem, RunOK
<1>2. DOMAIN b = 1..Len(b) /\ Len(b) \in Nat \ {0} /\ Tail(b) \in Seq(Record)
      /\ Len(Tail(b)) = Len(b) - 1 /\ \A i \in 1..Len(Tail(b)) : Tail(b)[i] = b[i + 1]
  BY <1>1, EmptySeq, LenProperties, HeadTailProperties
<1>3. Head(b) = b[1] /\ DOMAIN Tail(b) = 1..Len(Tail(b))
  BY <1>1, <1>2, LenProperties
<1> QED BY <1>1, <1>2, <1>3

\* Storing one posting keeps the rows the run found, and counts it as inserted
\* exactly if it was not there.
LEMMA StoredOne ==
    ASSUME StoreInv, NEW r \in Run, pc[r] = "upsert", mem[r].batch # <<>>,
           NEW p \in Record, NEW new \in PostRow, NEW stats \in Stats,
           Upserts(r, p, new, stats), NEW snap, snap = [mem[r].snap EXCEPT ![p.id] = new]
    PROVE  /\ Sound(snap, fetched) /\ Extends(r, posts, snap)
           /\ mem[r].total.inserted + stats.inserted = Cardinality(FirstSeen(snap, r))
<1> DEFINE old == mem[r].snap
<1>1. /\ old \in [Posting -> PostRow] /\ p.id \in Posting /\ p.hash \in Hash
      /\ mem[r].stats \in Stats /\ mem[r].total.inserted \in Nat /\ Stored(r) = old[p.id]
  BY DEF StoreInv, TypeOK, Mem, Stats, Record, Upserts, Stored
<1>2. /\ Sound(old, fetched) /\ Extends(r, posts, old)
      /\ mem[r].total.inserted + mem[r].stats.inserted = Cardinality(FirstSeen(old, r))
  BY DEF StoreInv, RunOK
<1>3. p = [id |-> p.id, hash |-> p.hash] /\ p \in fetched[r]
  BY BatchSeen DEF Record, Upserts
<1>4. old[p.id] \in PostRow /\ r # NoRun /\ p.hash # NoHash
  BY <1>1, SiteRunAssumption
<1>5. /\ new.hash = p.hash /\ new.last = r
      /\ new.first = IF old[p.id].hash = NoHash THEN r ELSE old[p.id].first
  <2> DEFINE row == old[p.id]
  <2>1. row \in PostRow /\ Stored(r) = row
    BY <1>1, <1>4
  <2> HIDE DEF row
  <2>2. CASE row.hash = NoHash
    BY <2>1, <2>2 DEF Upserts, row
  <2>3. CASE row.hash # NoHash
    <3>1. \/ new = [row EXCEPT !.hash = p.hash, !.last = r]
          \/ row.hash = p.hash /\ new = [row EXCEPT !.last = r]
      BY <2>1, <2>3 DEF Upserts
    <3>2. new.hash = p.hash /\ new.last = r /\ new.first = row.first
      BY <2>1, <3>1 DEF PostRow
    <3> QED BY <2>3, <3>2 DEF row
  <2> QED BY <2>2, <2>3
<1>6. snap[p.id] = new /\ \A q \in Posting : q # p.id => snap[q] = old[q]
  BY <1>1
<1>7. Sound(snap, fetched)
  <2>1. ASSUME NEW q \in Posting
        PROVE  /\ snap[q].hash = NoHash <=> snap[q].first = NoRun
               /\ snap[q].hash # NoHash =>
                    /\ snap[q].last \in Run
                    /\ [id |-> q, hash |-> snap[q].hash] \in fetched[snap[q].last]
    <3>1. CASE q = p.id
      <4>1. snap[q].hash = p.hash /\ snap[q].last = r
        BY <1>5, <1>6, <3>1
      <4>2. [id |-> q, hash |-> snap[q].hash] = p
        BY <1>3, <3>1, <4>1
      <4>3. snap[q].first # NoRun
        BY <1>1, <1>2, <1>4, <1>5, <1>6, <3>1 DEF Sound
      <4> QED BY <1>3, <1>4, <4>1, <4>2, <4>3
    <3>2. CASE q # p.id
      BY <1>2, <1>6, <3>2 DEF Sound
    <3> QED BY <3>1, <3>2
  <2> QED BY <2>1 DEF Sound
<1>8. Extends(r, posts, snap)
  BY <1>2, <1>4, <1>5, <1>6 DEF Extends, Sound
<1>9. IsFiniteSet(FirstSeen(old, r))
  BY FS_Subset, SiteRunAssumption DEF FirstSeen
<1>10. CASE old[p.id].hash = NoHash
  <2>1. p.id \notin FirstSeen(old, r)
    BY <1>1, <1>2, <1>4, <1>10 DEF FirstSeen, Sound
  <2>2. FirstSeen(snap, r) = FirstSeen(old, r) \cup {p.id}
    BY <1>1, <1>5, <1>6, <1>10 DEF FirstSeen
  <2>3. Cardinality(FirstSeen(snap, r)) = Cardinality(FirstSeen(old, r)) + 1
    BY <1>9, <2>1, <2>2, FS_AddElement
  <2>4. stats.inserted = mem[r].stats.inserted + 1
    BY <1>1, <1>10 DEF Upserts, Stats
  <2>5. mem[r].stats.inserted \in Nat
    BY <1>1 DEF Stats
  <2> QED BY <1>1, <1>2, <1>7, <1>8, <2>3, <2>4, <2>5
<1>11. CASE old[p.id].hash # NoHash
  <2>1. FirstSeen(snap, r) = FirstSeen(old, r)
    BY <1>5, <1>6, <1>11 DEF FirstSeen
  <2>2. stats.inserted = mem[r].stats.inserted
    BY <1>1, <1>11 DEF Upserts, Stats
  <2> QED BY <1>2, <1>7, <1>8, <2>1, <2>2
<1> QED BY <1>10, <1>11

LEMMA UpsertKeeps == ASSUME StoreInv, [Next]_vars, NEW r \in Run, Upsert(r) PROVE StoreInv'
<1>1. PICK p \in Record, new \in PostRow, stats \in Stats :
        Upserts(r, p, new, stats) /\ Stores(r, new, stats)
  BY UpsertStores DEF StoreInv
<1> DEFINE snap == [mem[r].snap EXCEPT ![p.id] = new]
<1>2. /\ pc[r] = "upsert" /\ pc \in [Run -> PC] /\ mem \in [Run -> Mem]
      /\ pc' = [pc EXCEPT ![r] = "upsert"] /\ mem[r].batch # <<>>
      /\ mem' = [mem EXCEPT ![r].snap = snap, ![r].stats = stats, ![r].batch = Tail(@)]
      /\ UNCHANGED <<runs, posts, writer, stale, fetched>>
  BY <1>1 DEF Upsert, Upserts, Stores, Step, StoreInv, TypeOK
<1>3. RunOK(r) /\ r \notin Finished'
  BY <1>2 DEF StoreInv, RunOK, Finished
<1>4. /\ Sound(snap, fetched) /\ Extends(r, posts, snap)
      /\ mem[r].total.inserted + stats.inserted = Cardinality(FirstSeen(snap, r))
  BY <1>1, <1>2, StoredOne
<1> HIDE DEF snap
<1>5. /\ mem'[r].stats = stats /\ mem'[r].total = mem[r].total /\ mem'[r].snap = snap
      /\ mem'[r].batch = Tail(mem[r].batch)
      /\ pc'[r] = "upsert" /\ \A q \in Run \ {r} : mem'[q] = mem[q]
  BY <1>2 DEF Mem
<1>6. \A i \in DOMAIN mem'[r].batch : mem'[r].batch[i] \in fetched'[r]
  BY <1>2, <1>5, BatchSeen
<1>7. RunOK(r)'
  BY <1>2, <1>3, <1>4, <1>5, <1>6 DEF RunOK
<1> QED BY <1>2, <1>5, <1>7, RunMoves DEF FetchedGrows

\* What a COMMIT changes in the table, for the runs it is not a COMMIT of.
LEMMA CommitKeepsPosts ==
    ASSUME StoreInv, NEW r \in Run, pc[r] = "upsert", posts' = mem[r].snap
    PROVE  /\ \A p \in Posting : posts[p].hash # NoHash =>
                posts'[p].hash # NoHash /\ posts'[p].first = posts[p].first
           /\ \A q \in Run \ {r} : FirstSeen(posts', q) = FirstSeen(posts, q)
<1>1. Sound(posts, fetched) /\ Extends(r, posts, mem[r].snap)
  BY DEF StoreInv, RunOK
<1> QED BY <1>1, SiteRunAssumption DEF Extends, Sound, FirstSeen

LEMMA CommitKeeps == ASSUME StoreInv, [Next]_vars, NEW r \in Run, Commit(r) PROVE StoreInv'
<1>1. /\ pc[r] = "upsert" /\ pc \in [Run -> PC] /\ mem \in [Run -> Mem]
      /\ pc' = [pc EXCEPT ![r] = "collect"] /\ writer' = NoRun
      /\ stale' = (stale \cup {q \in Run : pc[q] = "write"}) \ {r}
      /\ posts' = mem[r].snap
      /\ mem' = [mem EXCEPT ![r].total = AddUp(@, mem[r].stats), ![r].stats = NoStats,
                            ![r].snap = NoPosts]
      /\ UNCHANGED <<runs, fetched>>
  BY DEF Commit, Commits, Step, StoreInv, TypeOK
<1>2. RunOK(r) /\ r \notin Finished' /\ writer = r
  BY <1>1 DEF StoreInv, RunOK, Finished
<1>3. mem[r].total \in Stats /\ mem[r].stats \in Stats
  BY <1>1 DEF Mem
<1>4. /\ mem'[r].stats = NoStats /\ mem'[r].total = AddUp(mem[r].total, mem[r].stats)
      /\ pc'[r] = "collect" /\ \A q \in Run \ {r} : mem'[q] = mem[q] /\ pc'[q] = pc[q]
  BY <1>1 DEF Mem
<1>5. mem'[r].total.inserted = Cardinality(FirstSeen(posts', r))
  BY <1>1, <1>2, <1>3, <1>4, AddUpOK DEF RunOK
<1>6. RunOK(r)'
  BY <1>1, <1>2, <1>4, <1>5, SiteRunAssumption DEF RunOK
<1>7. ASSUME NEW q \in Run \ {r} PROVE RunOK(q)'
  <2>1. RunOK(q) /\ pc[q] # "upsert"
    BY <1>2, <1>7 DEF StoreInv, RunOK
  <2>2. FirstSeen(posts', q) = FirstSeen(posts, q)
    BY <1>1, CommitKeepsPosts
  <2>3. q \in Finished' <=> q \in Finished
    BY <1>1 DEF Finished
  <2>4. pc[q] = "write" => q \in stale'
    BY <1>1, <1>7
  <2>5. writer' # q
    BY <1>1, SiteRunAssumption
  <2>6. faults > 0 => faults' > 0
    BY FaultsCount DEF StoreInv
  <2> QED BY <1>1, <1>4, <1>7, <2>1, <2>2, <2>3, <2>4, <2>5, <2>6 DEF RunOK
<1>8. Sound(posts, fetched)'
  BY <1>1, <1>2 DEF RunOK
<1> QED BY <1>6, <1>7, <1>8, TypingNext DEF StoreInv

LEMMA FinishKeeps == ASSUME StoreInv, [Next]_vars, NEW r \in Run, Finish(r) PROVE StoreInv'
<1>1. /\ pc[r] = "collect" /\ pc \in [Run -> PC] /\ mem \in [Run -> Mem]
      /\ runs \in [Run -> RunRow] /\ pc' = [pc EXCEPT ![r] = "over"] /\ Commits(r)
      /\ runs' = [runs EXCEPT ![r] = [status |-> mem[r].status, stats |-> mem[r].total]]
      /\ UNCHANGED <<posts, mem, fetched>>
  BY DEF Finish, Step, StoreInv, TypeOK
<1>2. writer' # r /\ \A q \in Run \ {r} : (q \in stale => q \in stale') /\ (writer' = q <=> writer = q)
  BY <1>1, CommitLocks, SiteRunAssumption
<1>3. /\ pc'[r] = "over" /\ runs'[r].stats = mem[r].total
      /\ runs'[r].status \in {"success", "failed"} /\ r \in Finished'
      /\ \A q \in Run \ {r} : runs'[q] = runs[q]
  BY <1>1 DEF Mem, Finished
<1>4. RunOK(r)
  BY DEF StoreInv
<1>5. RunOK(r)'
  BY <1>1, <1>2, <1>3, <1>4 DEF RunOK
<1> QED BY <1>1, <1>2, <1>3, <1>5, RunMoves DEF FetchedGrows

\* A run that ends without closing its row leaves nothing but what it committed.
LEMMA EndKeeps ==
    ASSUME StoreInv, [Next]_vars, NEW r \in Run, FinishBusy(r) \/ Kill(r)
    PROVE  StoreInv'
<1>1. /\ pc \in [Run -> PC] /\ pc' = [pc EXCEPT ![r] = "over"] /\ stale' = stale \ {r}
      /\ UNCHANGED <<runs, posts, mem, fetched>>
  BY DEF FinishBusy, Kill, Ends, StoreInv, TypeOK
<1>2. RunOK(r) /\ (writer = r => pc[r] = "upsert")
  BY DEF StoreInv, RunOK
<1>3. writer' # r /\ \A q \in Run \ {r} : writer' = q <=> writer = q
  BY <1>2, SiteRunAssumption DEF FinishBusy, Kill
<1>4. (r \in Finished' <=> r \in Finished) /\ pc[r] # "start" /\ pc'[r] = "over"
  BY <1>1 DEF Finished, FinishBusy, Kill
<1>5. faults' > 0
  BY DEF FinishBusy, Kill, Ends, StoreInv, TypeOK
<1>6. RunOK(r)'
  BY <1>1, <1>2, <1>3, <1>4, <1>5 DEF RunOK
<1> QED BY <1>1, <1>3, <1>6, RunMoves DEF FetchedGrows

LEMMA StoreNext == StoreInv /\ [Next]_vars => StoreInv'
<1> SUFFICES ASSUME StoreInv, [Next]_vars PROVE StoreInv'
  OBVIOUS
<1>1. ASSUME NEW r \in Run, RunStep(r) \/ FinishBusy(r) \/ Kill(r) PROVE StoreInv'
  BY <1>1, StartKeeps, CollectKeeps, SelectKeeps, WriteKeeps, LockedKeeps, UpsertKeeps,
     CommitKeeps, FinishKeeps, EndKeeps DEF RunStep
<1>2. CASE OtherWrite \/ UNCHANGED vars
  <2>1. UNCHANGED <<runs, posts, writer, pc, mem, fetched>> /\ stale \subseteq stale'
    BY <1>2 DEF OtherWrite, vars
  <2>2. FetchedGrows
    BY <2>1 DEF FetchedGrows
  <2>3. ASSUME NEW q \in Run PROVE RunOK(q)'
    BY <2>1, <2>2, RunUntouched
  <2> QED BY <2>1, <2>2, <2>3, PostsUntouched, TypingNext DEF StoreInv
<1> QED BY <1>1, <1>2 DEF Next

\* A run that comes to write has read the table as it still is, one run at a
\* time writes, and the counts of every run keep pace with what it has stored.
THEOREM StoreInvariant == Spec => []StoreInv
BY StoreInit, StoreNext, PTL DEF Spec

\* A posting shows what its last_seen_run has seen, whatever runs overlap.
THEOREM ShownIsSeen == Spec => []SeenByLastRun
<1>1. StoreInv => SeenByLastRun
  BY DEF StoreInv, Sound, SeenByLastRun
<1> QED BY <1>1, StoreInvariant, PTL

\* Each finished run reports as inserted exactly the postings it was the first
\* to store; summed over the runs, that is what summarize_window shows.
THEOREM InsertedCounted == Spec => []InsertedIsFirstSeen
<1>1. StoreInv => InsertedIsFirstSeen
  BY DEF StoreInv, RunOK, FirstSeen, InsertedIsFirstSeen, Finished
<1> QED BY <1>1, StoreInvariant, PTL

\* No step loses a posting, changes the run that first stored one, or rewrites
\* the record of a finished run.
THEOREM HistoryNeverRewritten == Spec => HistoryKept
<1> DEFINE Kept ==
      /\ \A p \in Posting : posts[p].hash # NoHash =>
           posts'[p].hash # NoHash /\ posts'[p].first = posts[p].first
      /\ \A r \in Finished : runs'[r] = runs[r]
<1>1. ASSUME StoreInv, [Next]_vars PROVE [Kept]_vars
  <2>1. runs \in [Run -> RunRow] /\ \A r \in Finished : pc[r] = "over"
    BY <1>1 DEF StoreInv, TypeOK, RunOK, Finished
  <2>2. ASSUME NEW r \in Run, Commit(r) PROVE Kept
    <3>1. pc[r] = "upsert" /\ posts' = mem[r].snap /\ runs' = runs
      BY <2>2 DEF Commit, Step
    <3> QED BY <1>1, <3>1, CommitKeepsPosts
  <2>3. ASSUME NEW r \in Run, Start(r) \/ Finish(r) PROVE Kept
    <3>1. r \notin Finished /\ posts' = posts /\ \A q \in Run \ {r} : runs'[q] = runs[q]
      BY <2>1, <2>3 DEF Start, Finish, Step
    <3> QED BY <3>1 DEF Finished
  <2>4. CASE UNCHANGED <<runs, posts>>
    BY <2>4
  <2>5. ASSUME NEW r \in Run, RunStep(r) \/ FinishBusy(r) \/ Kill(r),
               ~Commit(r), ~Start(r), ~Finish(r)
        PROVE  UNCHANGED <<runs, posts>>
    BY <2>5 DEF RunStep, Collect, Select, Write, Locked, Upsert, Stores, FinishBusy,
                Kill, Ends
  <2> QED BY <1>1, <2>2, <2>3, <2>4, <2>5 DEF Next, OtherWrite, vars
<1>2. Spec => [][Kept]_vars
  BY <1>1, StoreInvariant, PTL DEF Spec
<1> QED BY <1>2 DEF HistoryKept

LEMMA SiteKnown == StoreInv => KnownSite
<1> SUFFICES ASSUME StoreInv, previous_count > 0,
                    summarize_window.runs = summarize_window.success
             PROVE  has_successful_history
  BY DEF KnownSite
<1>1. PICK p \in Posting : posts[p].hash # NoHash
  BY FS_EmptySet DEF previous_count
<1> DEFINE r == posts[p].first
<1>2. r \in Run /\ p \in FirstSeen(posts, r)
  BY <1>1 DEF StoreInv, TypeOK, PostRow, Sound, FirstSeen
<1>3. Cardinality(FirstSeen(posts, r)) \in Nat \ {0}
  <2>1. IsFiniteSet(FirstSeen(posts, r))
    BY FS_Subset, SiteRunAssumption DEF FirstSeen
  <2> QED BY <1>2, <2>1, FS_EmptySet, FS_CardinalityType
<1> HIDE DEF r
<1>4. runs[r] \in RunRow /\ RunOK(r)
  BY <1>2 DEF StoreInv, TypeOK
<1>5. runs[r].status # "none"
  BY <1>3, <1>4 DEF RunOK, NoStats
<1>6. runs[r].status = "success"
  <2> DEFINE started == {q \in Run : runs[q].status # "none"}
             successful == {q \in Run : runs[q].status = "success"}
  <2>1. Cardinality(started) = Cardinality(successful)
    BY DEF summarize_window
  <2>2. IsFiniteSet(started) /\ successful \subseteq started
    BY FS_Subset, SiteRunAssumption
  <2>3. started = successful
    <3> HIDE DEF started, successful
    <3> QED BY <2>1, <2>2, FS_Subset
  <2> QED BY <1>2, <1>5, <2>3
<1>7. runs[r].stats.inserted + runs[r].stats.updated > 0
  BY <1>2, <1>3, <1>4, <1>6 DEF RunOK, Finished, RunRow, Stats
<1> QED BY <1>2, <1>6, <1>7 DEF has_successful_history

\* As long as every run has succeeded a site with postings is known to the
\* guard of healing: the run that first stored one of them has counted it.
THEOREM KnownSiteStays == Spec => []KnownSite
BY SiteKnown, StoreInvariant, PTL

-----------------------------------------------------------------------------
(* The summary, summed up run by run.                                      *)

Order == SetToSeq(Run)

LEMMA OrderListsRuns ==
    /\ Order \in [1..Cardinality(Run) -> Run] /\ Cardinality(Run) \in Nat
    /\ Len(Order) = Cardinality(Run)
    /\ \A i, j \in 1..Cardinality(Run) : Order[i] = Order[j] => i = j
    /\ \A r \in Run : \E i \in 1..Cardinality(Run) : Order[i] = r
<1> DEFINE N == Cardinality(Run)
<1>1. IsFiniteSet(Run) /\ N \in Nat
  BY SiteRunAssumption, FS_CardinalityType
<1>2. \E f \in [1..N -> Run] : IsInjective(f)
  <2>1. ExistsBijection(1..N, Run)
    BY <1>1, FS_CardinalityType
  <2> HIDE DEF N
  <2> QED BY <2>1 DEF ExistsBijection, Bijection, Injection
<1>3. Order \in [1..N -> Run] /\ IsInjective(Order)
  <2> HIDE DEF N
  <2> DEFINE P(f) == f \in [1..N -> Run] /\ IsInjective(f)
  <2>1. \E f : P(f)
    BY <1>2
  <2>2. P(CHOOSE f : P(f))
    BY <2>1, Zenon
  <2>3. Order = CHOOSE f \in [1..N -> Run] : IsInjective(f)
    BY DEF Order, SetToSeq, N
  <2> QED BY <1>2, <2>3
<1>4. Len(Order) = N
  BY <1>1, <1>3
<1>5. \A i, j \in 1..N : Order[i] = Order[j] => i = j
  BY <1>3 DEF IsInjective
<1>6. \A r \in Run : \E i \in 1..N : Order[i] = r
  <2>1. Cardinality(1..N) = N
    BY <1>1, FS_Interval
  <2>2. Order \in Injection(1..N, Run)
    BY <1>3 DEF Injection
  <2>3. Order \in Surjection(1..N, Run)
    BY <1>1, <2>1, <2>2, FS_Injection
  <2> QED BY <2>3 DEF Surjection
<1> QED BY <1>1, <1>3, <1>4, <1>5, <1>6

SumsUpTo(f, field, N) ==
    /\ f[0] = 0
    /\ \A n \in 1..N : f[n] = f[n - 1] + runs[Order[n]].stats[field]

\* The recursion Sum is defined by has a solution.
LEMMA SumSteps ==
    ASSUME NEW field, NEW N \in Nat, N = Len(Order)
    PROVE  \E f : SumsUpTo(f, field, N) /\ Sum(field) = f[N]
<1> DEFINE Next1(was, n) == was + runs[Order[n]].stats[field]
           S == {m \in 0..N : \E g : SumsUpTo(g, field, m)}
<1>1. 0 \in S
  <2>1. SumsUpTo([n \in 0..0 |-> 0], field, 0)
    BY DEF SumsUpTo
  <2> QED BY <2>1
<1> HIDE DEF Next1
<1>2. ASSUME NEW m \in 0..(N - 1), m \in S PROVE m + 1 \in S
  <2>1. PICK g : SumsUpTo(g, field, m)
    BY <1>2
  <2> DEFINE h == [n \in 0..(m + 1) |-> IF n = m + 1 THEN Next1(g[m], n) ELSE g[n]]
  <2>2. h[m + 1] = Next1(g[m], m + 1) /\ \A n \in 0..m : h[n] = g[n]
    OBVIOUS
  <2> HIDE DEF h
  <2>3. ASSUME NEW n \in 1..(m + 1) PROVE h[n] = Next1(h[n - 1], n)
    <3>1. CASE n = m + 1
      BY <2>2, <3>1
    <3>2. CASE n \in 1..m
      BY <2>1, <2>2, <3>2 DEF SumsUpTo, Next1
    <3> QED BY <3>1, <3>2
  <2>4. SumsUpTo(h, field, m + 1)
    BY <2>1, <2>2, <2>3 DEF SumsUpTo, Next1
  <2> QED BY <2>4
<1>3. N \in S
  <2> HIDE DEF S
  <2> QED BY <1>1, <1>2, BoundedInduction
<1>4. PICK g : SumsUpTo(g, field, N)
  BY <1>3
<1> DEFINE Solves(f) == f = [n \in 0..N |-> IF n = 0 THEN 0 ELSE Next1(f[n - 1], n)]
           s == [n \in 0..N |-> g[n]]
<1>5. Solves(s)
  <2>1. ASSUME NEW n \in 0..N
        PROVE  g[n] = IF n = 0 THEN 0 ELSE Next1(s[n - 1], n)
    BY <1>4 DEF SumsUpTo, Next1
  <2> QED BY <2>1
<1>6. \E f : Solves(f) /\ Sum(field) = f[N]
  BY <1>5 DEF Sum, Next1, Order
<1>7. PICK f : Solves(f) /\ Sum(field) = f[N]
  BY <1>6
<1>8. f[0] = 0 /\ \A n \in 1..N : f[n] = Next1(f[n - 1], n)
  BY <1>7
<1> QED BY <1>7, <1>8 DEF SumsUpTo, Next1

\* A run that is not finished reports nothing.
Unreported == \A r \in Run \ Finished : runs[r].stats = NoStats

LEMMA UnreportedInit == Init => Unreported
BY DEF Init, Unreported

LEMMA UnreportedNext == StoreInv /\ Unreported /\ [Next]_vars => Unreported'
<1> SUFFICES ASSUME StoreInv, Unreported, [Next]_vars PROVE Unreported'
  OBVIOUS
<1>1. runs \in [Run -> RunRow] /\ mem \in [Run -> Mem]
  BY DEF StoreInv, TypeOK
<1>2. ASSUME NEW r \in Run, Start(r) PROVE Unreported'
  <2>1. runs' = [runs EXCEPT ![r].status = "running"]
    BY <1>2 DEF Start
  <2>2. pc[r] = "start" /\ r \notin Finished
    BY <1>2 DEF Start, Step, StoreInv, RunOK
  <2>3. \A q \in Run : runs'[q].stats = runs[q].stats
        /\ (q # r => runs'[q] = runs[q])
    BY <1>1, <2>1 DEF RunRow
  <2> QED BY <2>2, <2>3 DEF Unreported, Finished
<1>3. ASSUME NEW r \in Run, Finish(r) PROVE Unreported'
  <2>1. /\ \A q \in Run : q # r => runs'[q] = runs[q]
        /\ runs'[r].status = mem[r].status
    BY <1>1, <1>3 DEF Finish
  <2>2. mem[r].status \in {"success", "failed"}
    BY <1>1 DEF Mem
  <2> QED BY <2>1, <2>2 DEF Unreported, Finished
<1>4. CASE runs' = runs
  BY <1>4 DEF Unreported, Finished
<1>5. ASSUME NEW r \in Run, RunStep(r) PROVE runs' = runs \/ Start(r) \/ Finish(r)
  BY <1>5 DEF RunStep, Collect, Select, Write, Locked, Upsert, Stores, Commit
<1>6. ASSUME NEW r \in Run, FinishBusy(r) \/ Kill(r) PROVE runs' = runs
  BY <1>6 DEF FinishBusy, Kill, Ends
<1>7. ASSUME OtherWrite \/ UNCHANGED vars PROVE runs' = runs
  BY <1>7 DEF OtherWrite, vars
<1> QED BY <1>2, <1>3, <1>4, <1>5, <1>6, <1>7 DEF Next

\* The postings that the first n runs have stored and, being finished, report.
Reported(n) ==
    {p \in Posting : \E k \in 1..n : posts[p].first = Order[k] /\ Order[k] \in Finished}

LEMMA ReportedSum ==
    ASSUME StoreInv, Unreported
    PROVE  Sum("inserted") = Cardinality({p \in Posting : posts[p].first \in Finished})
<1> DEFINE N == Cardinality(Run)
<1>1. /\ N \in Nat /\ N = Len(Order) /\ (\A n \in 1..N : Order[n] \in Run)
      /\ \A i, j \in 1..N : Order[i] = Order[j] => i = j
      /\ \A r \in Run : \E i \in 1..N : Order[i] = r
  BY OrderListsRuns
<1> HIDE DEF N
<1>2. PICK f : SumsUpTo(f, "inserted", N) /\ Sum("inserted") = f[N]
  BY <1>1, SumSteps
<1>3. ASSUME NEW n PROVE IsFiniteSet(Reported(n)) /\ Cardinality(Reported(n)) \in Nat
  <2>1. Reported(n) \in SUBSET Posting
    BY DEF Reported
  <2> QED BY <2>1, SiteRunAssumption, FS_Subset, FS_CardinalityType
<1> DEFINE S == {n \in 0..N : f[n] = Cardinality(Reported(n))}
<1>4. 0 \in S
  <2>1. Reported(0) = {} /\ f[0] = 0
    BY <1>2 DEF Reported, SumsUpTo
  <2>2. Cardinality(Reported(0)) = 0
    BY <2>1, FS_EmptySet
  <2>3. 0 \in 0..N
    BY <1>1
  <2> QED BY <2>1, <2>2, <2>3
<1>5. ASSUME NEW n \in 0..(N - 1), n \in S PROVE n + 1 \in S
  <2> DEFINE m == n + 1
             r == Order[m]
             T == FirstSeen(posts, r)
  <2>1. m \in 1..N /\ m - 1 = n /\ n \in Nat /\ r \in Run
    BY <1>1
  <2>2. f[m] = f[n] + runs[r].stats.inserted /\ f[n] = Cardinality(Reported(n))
    BY <1>2, <1>5, <2>1 DEF SumsUpTo
  <2>3. \A k \in 1..n : Order[k] # r
    BY <1>1, <2>1
  <2>4. \A k \in 1..m : k \in 1..n \/ k = m
    BY <2>1
  <2>5. f[m] = Cardinality(Reported(m))
    <3>1. CASE r \in Finished
      <4>1. Reported(m) = Reported(n) \cup T /\ Reported(n) \cap T = {}
        BY <2>1, <2>3, <2>4, <3>1 DEF Reported, FirstSeen
      <4>2. IsFiniteSet(T) /\ Cardinality(T) \in Nat
        BY FS_Subset, FS_CardinalityType, SiteRunAssumption DEF FirstSeen
      <4>3. runs[r].stats.inserted = Cardinality(T)
        BY <2>1, <3>1 DEF StoreInv, RunOK
      <4> HIDE DEF T, r
      <4>4. Cardinality(Reported(m)) = Cardinality(Reported(n)) + Cardinality(T)
                                         - Cardinality(Reported(n) \cap T)
        BY <1>3, <4>1, <4>2, FS_Union
      <4>5. Cardinality(Reported(n) \cap T) = 0
        BY <4>1, FS_EmptySet
      <4> QED BY <1>3, <2>2, <4>2, <4>3, <4>4, <4>5
    <3>2. CASE r \notin Finished
      <4>1. Reported(m) = Reported(n)
        BY <2>1, <2>4, <3>2 DEF Reported
      <4>2. runs[r].stats.inserted = 0
        BY <2>1, <3>2 DEF Unreported, NoStats
      <4> HIDE DEF r
      <4> QED BY <1>3, <2>2, <4>1, <4>2
    <3> QED BY <3>1, <3>2
  <2> QED BY <2>1, <2>5
<1>6. N \in S
  <2>1. N \in Nat
    BY <1>1
  <2> HIDE DEF S
  <2>2. 0..N \subseteq S
    BY <1>4, <1>5, <2>1, BoundedInduction
  <2> QED BY <2>1, <2>2
<1>7. Reported(N) = {p \in Posting : posts[p].first \in Finished}
  BY <1>1 DEF Reported, Finished
<1> QED BY <1>2, <1>6, <1>7

LEMMA SummaryTrue == StoreInv /\ Unreported => SummaryAddsUp
<1> SUFFICES ASSUME StoreInv, Unreported PROVE SummaryAddsUp
  OBVIOUS
<1> DEFINE unfinished == {p \in Posting : posts[p].first \in Run \ Finished}
           reported == {p \in Posting : posts[p].first \in Finished}
           stored == {p \in Posting : posts[p].hash # NoHash}
           succeeded == {r \in Run : runs[r].status = "success"}
           failed == {r \in Run : runs[r].status = "failed"}
<1>1. stored = reported \cup unfinished /\ reported \cap unfinished = {}
  <2>1. ASSUME NEW p \in Posting
        PROVE  posts[p].hash # NoHash <=> posts[p].first \in Run
    BY SiteRunAssumption DEF StoreInv, TypeOK, PostRow, Sound
  <2> QED BY <2>1 DEF Finished
<1>2. succeeded \cup failed = Finished /\ succeeded \cap failed = {}
  BY DEF Finished
<1>3. /\ IsFiniteSet(reported) /\ IsFiniteSet(unfinished)
      /\ IsFiniteSet(succeeded) /\ IsFiniteSet(failed)
  BY SiteRunAssumption, FS_Subset
<1>4. ASSUME NEW S, NEW T, IsFiniteSet(S), IsFiniteSet(T), S \cap T = {}
      PROVE  /\ Cardinality(S \cup T) = Cardinality(S) + Cardinality(T)
             /\ Cardinality(S) \in Nat /\ Cardinality(T) \in Nat
  <2>1. Cardinality(S \cup T) = Cardinality(S) + Cardinality(T) - Cardinality(S \cap T)
    BY <1>4, FS_Union
  <2>2. Cardinality(S) \in Nat /\ Cardinality(T) \in Nat /\ Cardinality(S \cap T) = 0
    BY <1>4, FS_CardinalityType, FS_EmptySet
  <2> QED BY <2>1, <2>2
<1>5. Sum("inserted") = Cardinality(reported)
  BY ReportedSum
<1>6. previous_count = Cardinality(stored)
  BY DEF previous_count
<1> HIDE DEF unfinished, reported, stored, succeeded, failed
<1>7. Sum("inserted") = previous_count - Cardinality(unfinished)
  <2>1. Cardinality(stored) = Cardinality(reported) + Cardinality(unfinished)
        /\ Cardinality(reported) \in Nat /\ Cardinality(unfinished) \in Nat
    BY <1>1, <1>3, <1>4
  <2> QED BY <1>5, <1>6, <2>1
<1>8. Cardinality(succeeded) + Cardinality(failed) = Cardinality(Finished)
  BY <1>2, <1>3, <1>4
<1>9. ASSUME faults = 0, \A r \in Run : pc[r] = "over" PROVE unfinished = {}
  <2>1. \A r \in Run : r \in Finished
    BY <1>9 DEF StoreInv, RunOK
  <2> QED BY <2>1 DEF unfinished
<1>10. summarize_window.inserted = Sum("inserted")
       /\ summarize_window.success = Cardinality(succeeded)
       /\ summarize_window.failed = Cardinality(failed)
  BY DEF summarize_window, succeeded, failed
<1> QED BY <1>7, <1>8, <1>9, <1>10 DEF SummaryAddsUp, unfinished

\* The summary counts a posting as inserted once, in the finished run that
\* first stored it, however many runs and postings there are and whatever runs
\* overlap, fail halfway or are killed (storage/repository.py).
THEOREM SummaryTrustworthy == Spec => []SummaryAddsUp
BY UnreportedInit, UnreportedNext, SummaryTrue, StoreInvariant, PTL DEF Spec

-----------------------------------------------------------------------------
(* The runs implement PostingHistory: a transaction that commits has merged *)
(* the records of its collector, all of them, into the table as it is.      *)

BatchOf(r) == {mem[r].batch[i] : i \in DOMAIN mem[r].batch}

\* The transaction of run r has merged what the run has got of posting p.
Merged(r, p) ==
    /\ [id |-> p, hash |-> mem[r].snap[p].hash] \in got[r]
    /\ mem[r].snap[p].last = r
    /\ mem[r].snap[p].first = IF posts[p].hash = NoHash THEN r ELSE posts[p].first

MergeOK(r) ==
    /\ pc[r] = "start" => runs[r].status = "none"
    /\ pc[r] \in {"select", "write", "upsert"} => got[r] # {} /\ BatchOf(r) \subseteq got[r]
    /\ pc[r] \in {"select", "write"} => got[r] \subseteq BatchOf(r)
    /\ pc[r] = "upsert" =>
         /\ \A p \in Posting : mem[r].snap[p] = posts[p] \/ Merged(r, p)
         /\ \A rec \in got[r] : rec \in BatchOf(r) \/ Merged(r, rec.id)

MergeInv == StoreInv /\ Unreported /\ \A r \in Run : MergeOK(r)

\* A step changes nothing of the runs it is not a step of.
OthersStay(r) ==
    \A q \in Run \ {r} : /\ pc'[q] = pc[q] /\ mem'[q] = mem[q] /\ runs'[q] = runs[q]
                         /\ got'[q] = got[q]

LEMMA MergeInit == Init => MergeInv
BY StoreInit, UnreportedInit DEF Init, MergeInv, MergeOK

LEMMA RunStays ==
    ASSUME NEW q \in Run, MergeOK(q), pc'[q] = pc[q], mem'[q] = mem[q], runs'[q] = runs[q],
           got'[q] = got[q], posts' = posts \/ pc[q] # "upsert"
    PROVE  MergeOK(q)'
<1>1. BatchOf(q)' = BatchOf(q)
  BY DEF BatchOf
<1>2. ASSUME NEW p, posts' = posts PROVE Merged(q, p)' <=> Merged(q, p)
  BY <1>2 DEF Merged
<1> QED BY <1>1, <1>2 DEF MergeOK

LEMMA MergeMoves ==
    ASSUME MergeInv, [Next]_vars, NEW r \in Run, OthersStay(r),
           posts' = posts \/ \A q \in Run \ {r} : pc[q] # "upsert", MergeOK(r)'
    PROVE  MergeInv'
<1>1. ASSUME NEW q \in Run, q # r PROVE MergeOK(q)'
  BY <1>1, RunStays DEF MergeInv, OthersStay
<1> QED BY <1>1, StoreNext, UnreportedNext DEF MergeInv

\* One posting merged: those merged before stay so, and its row is.
LEMMA UpsertMerges ==
    ASSUME MergeInv, NEW r \in Run, Upsert(r)
    PROVE  OthersStay(r) /\ MergeOK(r)'
<1>1. PICK p \in Record, new \in PostRow, stats \in Stats :
        Upserts(r, p, new, stats) /\ Stores(r, new, stats)
  BY UpsertStores DEF MergeInv, StoreInv
<1>2. /\ pc \in [Run -> PC] /\ mem \in [Run -> Mem] /\ pc[r] = "upsert"
      /\ mem[r] \in Mem /\ mem[r].snap \in [Posting -> PostRow] /\ p.id \in Posting
      /\ mem[r].batch # <<>> /\ p = Head(mem[r].batch)
  BY <1>1 DEF MergeInv, StoreInv, TypeOK, Mem, Record, Stores, Step, Upsert, Upserts
<1>3. /\ pc' = [pc EXCEPT ![r] = "upsert"]
      /\ mem' = [mem EXCEPT ![r].snap = [@ EXCEPT ![p.id] = new], ![r].stats = stats,
                            ![r].batch = Tail(@)]
      /\ UNCHANGED <<runs, posts, got>>
  BY <1>1, <1>2 DEF Stores, Step
<1>4. /\ mem'[r].snap = [mem[r].snap EXCEPT ![p.id] = new] /\ pc'[r] = "upsert"
      /\ mem'[r].batch = Tail(mem[r].batch)
      /\ OthersStay(r)
  BY <1>2, <1>3 DEF Mem, OthersStay
<1>5. /\ p \in BatchOf(r) /\ BatchOf(r)' \subseteq BatchOf(r)
      /\ BatchOf(r) \subseteq BatchOf(r)' \cup {p}
  <2> DEFINE b == mem[r].batch
  <2>1. b \in Seq(Record)
    BY <1>2, BatchIsSeq DEF Mem
  <2>2. /\ DOMAIN b = 1..Len(b) /\ Len(b) \in Nat \ {0} /\ Tail(b) \in Seq(Record)
        /\ Len(Tail(b)) = Len(b) - 1 /\ \A i \in 1..Len(Tail(b)) : Tail(b)[i] = b[i + 1]
        /\ Head(b) = b[1] /\ DOMAIN Tail(b) = 1..Len(Tail(b))
    BY <1>2, <2>1, EmptySeq, LenProperties, HeadTailProperties
  <2> DEFINE c == Tail(b)
  <2>3. BatchOf(r) = {b[i] : i \in DOMAIN b} /\ BatchOf(r)' = {c[i] : i \in DOMAIN c}
    BY <1>4 DEF BatchOf
  <2>4. DOMAIN b = 1..Len(b) /\ DOMAIN c = 1..(Len(b) - 1)
    BY <2>2
  <2> HIDE DEF b, c
  <2>5. p = b[1] /\ \A i \in 1..(Len(b) - 1) : c[i] = b[i + 1]
    BY <1>2, <2>2 DEF b, c
  <2>6. \A i \in 1..Len(b) : i = 1 \/ (i - 1 \in 1..(Len(b) - 1) /\ b[i] = c[i - 1])
    BY <2>2, <2>5
  <2>7. \A i \in 1..(Len(b) - 1) : i + 1 \in 1..Len(b)
    BY <2>2
  <2>8. 1 \in 1..Len(b)
    BY <2>2
  <2>9. p \in BatchOf(r)
    BY <2>3, <2>4, <2>5, <2>8
  <2>10. ASSUME NEW rec \in BatchOf(r)' PROVE rec \in BatchOf(r)
    <3>1. PICK i \in 1..(Len(b) - 1) : rec = c[i]
      BY <2>3, <2>4, <2>10
    <3>2. i + 1 \in 1..Len(b) /\ rec = b[i + 1]
      BY <2>5, <2>7, <3>1
    <3> QED BY <2>3, <2>4, <3>2
  <2>11. ASSUME NEW rec \in BatchOf(r) PROVE rec = p \/ rec \in BatchOf(r)'
    <3>1. PICK i \in 1..Len(b) : rec = b[i]
      BY <2>3, <2>4, <2>11
    <3>2. rec = p \/ (i - 1 \in 1..(Len(b) - 1) /\ rec = c[i - 1])
      BY <2>5, <2>6, <3>1
    <3> QED BY <2>3, <2>4, <3>2
  <2> QED BY <2>9, <2>10, <2>11
<1>6. /\ MergeOK(r) /\ BatchOf(r) \subseteq got[r] /\ got[r] # {} /\ p \in got[r]
      /\ \A q \in Posting : mem[r].snap[q] = posts[q] \/ Merged(r, q)
      /\ \A rec \in got[r] : rec \in BatchOf(r) \/ Merged(r, rec.id)
  BY <1>2, <1>5 DEF MergeInv, MergeOK
<1>7. \A q \in Posting : q # p.id => mem'[r].snap[q] = mem[r].snap[q]
                                     /\ (Merged(r, q)' <=> Merged(r, q))
  BY <1>2, <1>3, <1>4 DEF Merged
<1>8. Merged(r, p.id)'
  <2> DEFINE row == mem[r].snap[p.id]
  <2>1. row \in PostRow /\ Stored(r) = row /\ p = [id |-> p.id, hash |-> p.hash]
        /\ mem'[r].snap[p.id] = new
    BY <1>2, <1>4 DEF Stored, Record
  <2>2. row = posts[p.id] \/ Merged(r, p.id)
    BY <1>2, <1>6
  <2>3. row.hash = NoHash <=> row.first = NoRun
    BY <1>2 DEF MergeInv, StoreInv, RunOK, Sound
  <2>4. IF row.hash = NoHash THEN row = posts[p.id]
        ELSE row.first = IF posts[p.id].hash = NoHash THEN r ELSE posts[p.id].first
    <3>1. CASE row = posts[p.id]
      BY <3>1
    <3>2. CASE Merged(r, p.id)
      <4>1. row.first = IF posts[p.id].hash = NoHash THEN r ELSE posts[p.id].first
        BY <3>2 DEF Merged
      <4>2. posts[p.id].hash = NoHash <=> posts[p.id].first = NoRun
        BY <1>2 DEF MergeInv, StoreInv, Sound
      <4> HIDE DEF row
      <4>3. row.first # NoRun
        BY <4>1, <4>2, SiteRunAssumption
      <4> QED BY <2>3, <4>1, <4>3
    <3> HIDE DEF row
    <3> QED BY <2>2, <3>1, <3>2
  <2> HIDE DEF row
  <2>5. new.hash = p.hash /\ new.last = r
        /\ new.first = IF row.hash = NoHash THEN r ELSE row.first
    <3>1. CASE row.hash = NoHash
      BY <1>1, <2>1, <3>1 DEF Upserts
    <3>2. CASE row.hash # NoHash
      <4>1. \/ new = [row EXCEPT !.hash = p.hash, !.last = r]
            \/ row.hash = p.hash /\ new = [row EXCEPT !.last = r]
        BY <1>1, <2>1, <3>2 DEF Upserts
      <4> QED BY <2>1, <3>2, <4>1 DEF PostRow
    <3> QED BY <3>1, <3>2
  <2>6. new.first = IF posts[p.id].hash = NoHash THEN r ELSE posts[p.id].first
    BY <2>4, <2>5
  <2> QED BY <1>3, <1>6, <2>1, <2>5, <2>6 DEF Merged
<1>9. \A rec \in got[r] : rec \in BatchOf(r)' \/ Merged(r, rec.id)'
  <2>1. got[r] \subseteq Record
    BY DEF MergeInv, StoreInv, TypeOK
  <2>2. ASSUME NEW rec \in got[r] PROVE rec \in BatchOf(r)' \/ Merged(r, rec.id)'
    <3>1. rec.id \in Posting
      BY <2>1 DEF Record
    <3>2. CASE rec.id = p.id
      BY <1>8, <3>2
    <3>3. CASE rec.id # p.id
      BY <1>5, <1>6, <1>7, <3>1, <3>3
    <3> QED BY <3>2, <3>3
  <2> QED BY <2>2
<1>10. \A q \in Posting : mem'[r].snap[q] = posts'[q] \/ Merged(r, q)'
  <2>1. ASSUME NEW q \in Posting PROVE mem'[r].snap[q] = posts'[q] \/ Merged(r, q)'
    <3>1. CASE q = p.id
      BY <1>8, <3>1
    <3>2. CASE q # p.id
      BY <1>3, <1>6, <1>7, <3>2
    <3> QED BY <3>1, <3>2
  <2> QED BY <2>1
<1>11. MergeOK(r)'
  BY <1>3, <1>4, <1>5, <1>6, <1>9, <1>10 DEF MergeOK
<1> QED BY <1>4, <1>11

LEMMA CommitMerges ==
    ASSUME MergeInv, [Next]_vars, NEW r \in Run, Commit(r) PROVE MergeInv'
<1>1. /\ pc \in [Run -> PC] /\ mem \in [Run -> Mem] /\ pc[r] = "upsert" /\ writer = r
      /\ pc' = [pc EXCEPT ![r] = "collect"]
      /\ mem' = [mem EXCEPT ![r].total = AddUp(@, mem[r].stats), ![r].stats = NoStats,
                            ![r].snap = NoPosts]
      /\ UNCHANGED <<runs, got>>
  BY DEF Commit, Step, MergeInv, StoreInv, TypeOK, RunOK
<1>2. OthersStay(r) /\ pc'[r] = "collect" /\ MergeOK(r)
  BY <1>1 DEF OthersStay, MergeInv
<1>3. \A q \in Run \ {r} : pc[q] # "upsert"
  BY <1>1 DEF MergeInv, StoreInv, RunOK
<1>4. MergeOK(r)'
  BY <1>1, <1>2 DEF MergeOK
<1> QED BY <1>2, <1>3, <1>4, MergeMoves

\* The other steps of a run.
LEMMA StepMerges ==
    ASSUME MergeInv, [Next]_vars, NEW r \in Run,
           RunStep(r) \/ FinishBusy(r) \/ Kill(r), ~Upsert(r), ~Commit(r)
    PROVE  OthersStay(r) /\ posts' = posts /\ MergeOK(r)'
<1>0. /\ pc \in [Run -> PC] /\ mem \in [Run -> Mem] /\ runs \in [Run -> RunRow]
      /\ got \in [Run -> SUBSET Record] /\ MergeOK(r)
  BY DEF MergeInv, StoreInv, TypeOK
<1>1. ASSUME NEW b \in Batch, pc' = [pc EXCEPT ![r] = "select"],
             mem' = [mem EXCEPT ![r].batch = b, ![r].left = @ - 1],
             got' = [got EXCEPT ![r] = {b[i] : i \in DOMAIN b}], UNCHANGED <<runs, posts>>
      PROVE  OthersStay(r) /\ MergeOK(r)'
  <2>1. PICK n \in 1..MaxRecords : b \in [1..n -> Record]
    BY DEF Batch
  <2>2. got'[r] # {}
    <3>1. 1 \in DOMAIN b
      BY <2>1, SiteRunAssumption
    <3> QED BY <1>0, <1>1, <3>1
  <2>3. mem'[r].batch = b /\ pc'[r] = "select" /\ got'[r] = {b[i] : i \in DOMAIN b}
        /\ OthersStay(r)
    BY <1>0, <1>1 DEF Mem, OthersStay
  <2>4. BatchOf(r)' = got'[r]
    BY <2>3 DEF BatchOf
  <2> QED BY <2>2, <2>3, <2>4 DEF MergeOK
<1>2. ASSUME Collect(r) PROVE OthersStay(r) /\ posts' = posts /\ MergeOK(r)'
  <2>1. CASE \E b \in Batch :
               /\ Step(r, "collect", "select")
               /\ mem' = [mem EXCEPT ![r].batch = b, ![r].left = @ - 1]
               /\ got' = [got EXCEPT ![r] = {b[i] : i \in DOMAIN b}]
    BY <1>1, <1>2, <2>1 DEF Collect, Step
  <2>2. CASE Step(r, "collect", "collect") /\ got' = got
             /\ \E n : mem' = [mem EXCEPT ![r].status = "failed", ![r].left = n]
    BY <1>0, <1>2, <2>2 DEF Collect, Step, MergeOK, OthersStay
  <2>3. mem' = [mem EXCEPT ![r].status = "failed", ![r].left = @ - 1]
          => \E n : mem' = [mem EXCEPT ![r].status = "failed", ![r].left = n]
    BY <1>0 DEF Mem
  <2> QED BY <1>2, <2>1, <2>2, <2>3 DEF Collect
<1>3. ASSUME Start(r) \/ Finish(r) PROVE OthersStay(r) /\ posts' = posts /\ MergeOK(r)'
  <2>1. /\ \E to \in {"collect", "over"} : pc' = [pc EXCEPT ![r] = to]
        /\ \E new : runs' = [runs EXCEPT ![r] = new]
        /\ UNCHANGED <<posts, mem, got>>
    BY <1>0, <1>3 DEF Start, Finish, Step, RunRow
  <2> QED BY <1>0, <2>1 DEF OthersStay, MergeOK
<1>4. ASSUME Select(r) PROVE OthersStay(r) /\ posts' = posts /\ MergeOK(r)'
  <2>1. pc[r] = "select" /\ pc'[r] = "write" /\ mem'[r].batch = mem[r].batch
        /\ OthersStay(r) /\ UNCHANGED <<runs, posts, got>>
    BY <1>0, <1>4 DEF Select, Step, Mem, OthersStay
  <2>2. BatchOf(r)' = BatchOf(r)
    BY <2>1 DEF BatchOf
  <2> QED BY <1>0, <2>1, <2>2 DEF MergeOK
<1>5. ASSUME Write(r) PROVE OthersStay(r) /\ posts' = posts /\ MergeOK(r)'
  <2>1. /\ pc[r] = "write" /\ pc'[r] = "upsert" /\ r \notin stale
        /\ OthersStay(r) /\ UNCHANGED <<runs, posts, mem, got>>
    BY <1>0, <1>5 DEF Write, Step, OthersStay
  <2>2. mem[r].snap = posts
    BY <2>1 DEF MergeInv, StoreInv, RunOK
  <2>3. BatchOf(r)' = BatchOf(r) /\ got[r] = BatchOf(r) /\ got[r] # {}
    BY <1>0, <2>1 DEF BatchOf, MergeOK
  <2> QED BY <2>1, <2>2, <2>3 DEF MergeOK
<1>6. ASSUME Locked(r) PROVE OthersStay(r) /\ posts' = posts /\ MergeOK(r)'
  BY <1>0, <1>6 DEF Locked, Step, OthersStay, MergeOK
<1>7. ASSUME FinishBusy(r) \/ Kill(r) PROVE OthersStay(r) /\ posts' = posts /\ MergeOK(r)'
  BY <1>0, <1>7 DEF FinishBusy, Kill, Ends, OthersStay, MergeOK
<1> QED BY <1>2, <1>3, <1>4, <1>5, <1>6, <1>7 DEF RunStep

LEMMA MergeNext == MergeInv /\ [Next]_vars => MergeInv'
<1> SUFFICES ASSUME MergeInv, [Next]_vars PROVE MergeInv'
  OBVIOUS
<1>1. ASSUME NEW r \in Run, Upsert(r) PROVE MergeInv'
  <2>1. posts' = posts
    BY <1>1 DEF Upsert, Stores
  <2> QED BY <1>1, <2>1, UpsertMerges, MergeMoves
<1>2. ASSUME NEW r \in Run, Commit(r) PROVE MergeInv'
  BY <1>2, CommitMerges
<1>3. ASSUME NEW r \in Run, RunStep(r) \/ FinishBusy(r) \/ Kill(r), ~Upsert(r), ~Commit(r)
      PROVE  MergeInv'
  BY <1>3, StepMerges, MergeMoves
<1>4. CASE OtherWrite \/ UNCHANGED vars
  <2>1. UNCHANGED <<runs, posts, pc, mem, got>>
    BY <1>4 DEF OtherWrite, vars
  <2>2. \A r \in Run : MergeOK(r)'
    BY <2>1, RunStays DEF MergeInv
  <2> QED BY <2>2, StoreNext, UnreportedNext DEF MergeInv
<1>5. \A r \in Run : Upsert(r) \/ Commit(r) => RunStep(r)
  BY DEF RunStep
<1> QED BY <1>1, <1>2, <1>3, <1>4 DEF Next

LEMMA HistoryInit == Init => History!HInit
<1> SUFFICES ASSUME Init PROVE History!HInit
  OBVIOUS
<1>1. Status = [r \in Run |-> "none"] /\ Inserted = [r \in Run |-> 0]
  BY DEF Init, Status, Inserted, NoStats
<1>2. Pending = [r \in Run |-> {}] /\ GivenUp = {}
  BY DEF Init, Pending, GivenUp
<1>3. posts = [p \in Posting |-> [hash |-> NoHash, first |-> NoRun, last |-> NoRun]]
  BY DEF Init, NoPosts, Absent
<1> QED BY <1>1, <1>2, <1>3 DEF History!HInit

\* What a step of run r changes of the abstract state is the run's own.
LEMMA OwnChange ==
    ASSUME NEW r \in Run, OthersStay(r)
    PROVE  /\ Status' = [Status EXCEPT ![r] = runs'[r].status]
           /\ Inserted' = [Inserted EXCEPT ![r] = runs'[r].stats.inserted]
           /\ Pending' = [Pending EXCEPT ![r] = Pending'[r]]
           /\ \A q \in Run \ {r} : q \in GivenUp' <=> q \in GivenUp
<1>1. \A q \in Run \ {r} : q \in Finished' <=> q \in Finished
  BY DEF OthersStay, Finished
<1>2. \A q \in Run \ {r} : q \in GivenUp' <=> q \in GivenUp
  BY <1>1 DEF OthersStay, GivenUp
<1>3. Status' = [Status EXCEPT ![r] = runs'[r].status]
  BY DEF OthersStay, Status
<1>4. Inserted' = [Inserted EXCEPT ![r] = runs'[r].stats.inserted]
  BY DEF OthersStay, Inserted
<1>5. Pending' = [Pending EXCEPT ![r] = Pending'[r]]
  BY DEF OthersStay, Pending
<1> QED BY <1>2, <1>3, <1>4, <1>5

LEMMA Unchanged ==
    ASSUME NEW r \in Run, OthersStay(r), runs'[r] = runs[r]
    PROVE  Status' = Status /\ Inserted' = Inserted
<1>1. \A q \in Run : runs'[q].status = runs[q].status
  BY DEF OthersStay
<1>2. \A q \in Run : runs'[q].stats.inserted = runs[q].stats.inserted
  BY DEF OthersStay
<1>3. Status' = Status
  BY <1>1 DEF Status
<1>4. Inserted' = Inserted
  BY <1>2 DEF Inserted
<1> QED BY <1>3, <1>4

LEMMA OpenIsRunning ==
    ASSUME MergeInv, NEW r \in Run, pc[r] \notin {"start", "over"}
    PROVE  r \notin Finished /\ Status[r] = "running"
<1>1. runs[r] \in RunRow /\ RunOK(r)
  BY DEF MergeInv, StoreInv, TypeOK
<1> QED BY <1>1 DEF RunOK, RunRow, Finished, Status

LEMMA StepFails ==
    ASSUME MergeInv, NEW r \in Run, OthersStay(r), pc[r] \notin {"start", "over"},
           runs'[r] = runs[r], posts' = posts, Pending'[r] = {}, r \in GivenUp'
    PROVE  History!Fail(r)
<1>1. GivenUp' = GivenUp \cup {r}
  BY OwnChange DEF GivenUp
<1> QED BY <1>1, OwnChange, Unchanged, OpenIsRunning DEF History!Fail

LEMMA StepStutters ==
    ASSUME NEW r \in Run, OthersStay(r), runs'[r] = runs[r], posts' = posts,
           Pending'[r] = Pending[r], r \in GivenUp' <=> r \in GivenUp
    PROVE  UNCHANGED History!hvars
<1>1. GivenUp' = GivenUp
  BY OwnChange DEF GivenUp
<1>2. Pending' = Pending
  <2>1. \A q \in Run : Pending'[q] = Pending[q]
    BY DEF Pending, OthersStay
  <2> QED BY <2>1 DEF Pending
<1> QED BY <1>1, <1>2, Unchanged DEF History!hvars

LEMMA CommitStores ==
    ASSUME MergeInv, NEW r \in Run, Commit(r) PROVE History!Store(r)
<1>1. /\ pc \in [Run -> PC] /\ mem \in [Run -> Mem] /\ pc[r] = "upsert" /\ mem[r].batch = <<>>
      /\ pc' = [pc EXCEPT ![r] = "collect"] /\ posts' = mem[r].snap
      /\ mem' = [mem EXCEPT ![r].total = AddUp(@, mem[r].stats), ![r].stats = NoStats,
                            ![r].snap = NoPosts]
      /\ UNCHANGED <<runs, got>>
  BY DEF Commit, Step, MergeInv, StoreInv, TypeOK
<1>2. /\ OthersStay(r) /\ pc'[r] = "collect" /\ mem'[r].status = mem[r].status
      /\ posts' \in [Posting -> PostRow] /\ posts \in [Posting -> PostRow]
      /\ got[r] \subseteq Record
  BY <1>1 DEF OthersStay, Mem, MergeInv, StoreInv, TypeOK
<1>3. Pending[r] = got[r] /\ Pending'[r] = {} /\ (r \in GivenUp' <=> r \in GivenUp)
  BY <1>1, <1>2 DEF Pending, GivenUp
<1>4. GivenUp' = GivenUp
  BY <1>2, <1>3, OwnChange DEF GivenUp
<1> DEFINE ids == History!Ids(got[r])
           hash == [p \in ids |-> posts'[p].hash]
<1>5. ids \subseteq Posting /\ \A rec \in got[r] : rec.id \in ids
  BY <1>2 DEF History!Ids, Record
<1>6. BatchOf(r) = {}
  BY <1>1 DEF BatchOf
<1>7. /\ got[r] # {} /\ \A rec \in got[r] : Merged(r, rec.id)
      /\ \A p \in Posting : posts'[p] = posts[p] \/ Merged(r, p)
  BY <1>1, <1>6 DEF MergeInv, MergeOK
<1>8. \A p \in Posting : Merged(r, p) => p \in ids
  BY <1>5 DEF Merged
<1>9. \A p \in ids : Merged(r, p)
  BY <1>7 DEF History!Ids
<1> HIDE DEF ids
<1>10. \A p \in ids :
         /\ [id |-> p, hash |-> hash[p]] \in got[r]
         /\ posts'[p] = History!Seen(r, p, hash[p])
  <2>1. ASSUME NEW p \in ids
        PROVE  /\ [id |-> p, hash |-> hash[p]] \in got[r]
               /\ posts'[p] = History!Seen(r, p, hash[p])
    <3>1. hash[p] = posts'[p].hash /\ posts'[p] \in PostRow
      BY <1>2, <1>5
    <3>2. /\ [id |-> p, hash |-> posts'[p].hash] \in got[r] /\ posts'[p].last = r
          /\ posts'[p].first = IF posts[p].hash = NoHash THEN r ELSE posts[p].first
      BY <1>1, <1>9 DEF Merged
    <3> HIDE DEF hash
    <3> QED BY <3>1, <3>2 DEF History!Seen, PostRow
  <2> QED BY <2>1
<1>11. hash \in [ids -> Hash]
  <2>1. \A p \in ids : [id |-> p, hash |-> hash[p]] \in Record
    BY <1>2, <1>10
  <2> QED BY <2>1 DEF Record
<1> HIDE DEF hash
<1>12. posts' = [p \in Posting |-> IF p \in ids THEN History!Seen(r, p, hash[p]) ELSE posts[p]]
  BY <1>2, <1>7, <1>8, <1>10
<1>13. \E h \in [ids -> Hash] :
         /\ \A p \in ids : [id |-> p, hash |-> h[p]] \in got[r]
         /\ posts' = [p \in Posting |-> IF p \in ids THEN History!Seen(r, p, h[p]) ELSE posts[p]]
  BY <1>10, <1>11, <1>12
<1>14. Status' = Status /\ Inserted' = Inserted /\ Pending' = [Pending EXCEPT ![r] = {}]
  BY <1>1, <1>2, <1>3, OwnChange, Unchanged
<1> QED BY <1>3, <1>4, <1>7, <1>13, <1>14 DEF History!Store, ids

LEMMA HistoryStep ==
    ASSUME MergeInv, [Next]_vars, NEW r \in Run,
           RunStep(r) \/ FinishBusy(r) \/ Kill(r), ~Upsert(r), ~Commit(r)
    PROVE  [History!HNext]_(History!hvars)
<1>0. /\ pc \in [Run -> PC] /\ mem \in [Run -> Mem] /\ runs \in [Run -> RunRow]
      /\ got \in [Run -> SUBSET Record]
      /\ OthersStay(r) /\ posts' = posts /\ MergeOK(r) /\ MergeOK(r)'
  BY StepMerges DEF MergeInv, StoreInv, TypeOK
<1>1. ASSUME Start(r) PROVE History!Open(r)
  <2>1. /\ pc[r] = "start" /\ pc'[r] = "collect" /\ mem' = mem /\ Status[r] = "none"
        /\ runs'[r].status = "running" /\ runs'[r].stats = runs[r].stats
    BY <1>0, <1>1 DEF Start, Step, MergeOK, Status, RunRow
  <2>2. GivenUp' = GivenUp
    BY <1>0, <2>1, OwnChange DEF GivenUp
  <2>3. Pending' = Pending /\ Inserted' = Inserted
    BY <1>0, <2>1, OwnChange DEF Pending, Inserted
  <2> QED BY <1>0, <2>1, <2>2, <2>3, OwnChange DEF History!Open
<1>2. ASSUME NEW b \in Batch, Step(r, "collect", "select"), runs' = runs,
             mem' = [mem EXCEPT ![r].batch = b, ![r].left = @ - 1],
             got' = [got EXCEPT ![r] = {b[i] : i \in DOMAIN b}]
      PROVE  \E S \in SUBSET History!Records : S # {} /\ History!Take(r, S)
  <2> DEFINE S == got'[r]
  <2>1. /\ pc[r] = "collect" /\ pc'[r] = "select" /\ mem'[r].status = mem[r].status
        /\ r \notin Finished /\ r \notin Finished'
    BY <1>0, <1>2, OpenIsRunning DEF Step, Mem, Finished
  <2>2. Pending[r] = {} /\ Pending'[r] = S /\ S # {}
    BY <1>0, <2>1 DEF Pending, MergeOK
  <2>3. S \in SUBSET History!Records
    <3>1. got' \in [Run -> SUBSET Record]
      BY TypingNext DEF MergeInv, StoreInv, TypeOK
    <3> QED BY <3>1 DEF History!Records, Record
  <2>4. GivenUp' = GivenUp
    BY <1>0, <2>1, OwnChange DEF GivenUp
  <2>5. Status[r] = "running" /\ Status' = Status /\ Inserted' = Inserted
    BY <1>0, <1>2, <2>1, OpenIsRunning, Unchanged
  <2> HIDE DEF S
  <2>6. Pending' = [Pending EXCEPT ![r] = S]
    BY <1>0, <2>2, OwnChange
  <2>7. History!Take(r, S)
    BY <1>0, <2>2, <2>4, <2>5, <2>6 DEF History!Take
  <2> QED BY <2>2, <2>3, <2>7
<1>3. ASSUME Step(r, "collect", "collect"), runs' = runs, NEW n,
             mem' = [mem EXCEPT ![r].status = "failed", ![r].left = n]
      PROVE  History!Fail(r)
  <2>1. pc[r] = "collect" /\ pc'[r] = "collect" /\ mem'[r].status = "failed"
    BY <1>0, <1>3 DEF Step, Mem
  <2> QED BY <1>0, <1>3, <2>1, StepFails DEF Pending, GivenUp
<1>4. ASSUME Collect(r)
      PROVE  History!Fail(r) \/ \E S \in SUBSET History!Records : S # {} /\ History!Take(r, S)
  <2>1. \/ \E b \in Batch :
             /\ Step(r, "collect", "select")
             /\ mem' = [mem EXCEPT ![r].batch = b, ![r].left = @ - 1]
             /\ got' = [got EXCEPT ![r] = {b[i] : i \in DOMAIN b}]
        \/ /\ Step(r, "collect", "collect")
           /\ \/ mem' = [mem EXCEPT ![r].status = "failed", ![r].left = @ - 1]
              \/ mem' = [mem EXCEPT ![r].status = "failed", ![r].left = 0]
    BY <1>4 DEF Collect
  <2>2. mem' = [mem EXCEPT ![r].status = "failed", ![r].left = @ - 1]
          => mem' = [mem EXCEPT ![r].status = "failed", ![r].left = mem[r].left - 1]
    BY <1>0 DEF Mem
  <2>3. runs' = runs
    BY <1>4 DEF Collect
  <2> QED BY <1>2, <1>3, <2>1, <2>2, <2>3
<1>5. ASSUME Select(r) \/ Write(r) PROVE UNCHANGED History!hvars
  <2>1. /\ pc[r] \in {"select", "write"} /\ pc'[r] \in {"write", "upsert"} /\ got' = got
        /\ mem'[r].status = mem[r].status /\ runs' = runs
    BY <1>0, <1>5 DEF Select, Write, Step, Mem
  <2>2. Pending'[r] = Pending[r] /\ (r \in GivenUp' <=> r \in GivenUp)
    BY <2>1 DEF Pending, GivenUp
  <2> QED BY <1>0, <2>1, <2>2, StepStutters
<1>6. ASSUME Locked(r) PROVE History!Fail(r)
  <2>1. pc[r] = "write" /\ pc'[r] = "collect" /\ mem'[r].status = "failed" /\ runs' = runs
    BY <1>0, <1>6 DEF Locked, Step, Mem
  <2> QED BY <1>0, <2>1, StepFails DEF Pending, GivenUp
<1>7. ASSUME FinishBusy(r) \/ Kill(r) PROVE History!Fail(r)
  <2>1. pc[r] \notin {"start", "over"} /\ pc'[r] = "over" /\ mem' = mem /\ runs' = runs
    BY <1>0, <1>7 DEF FinishBusy, Kill, Ends
  <2>2. r \notin Finished'
    BY <2>1, OpenIsRunning DEF Finished
  <2> QED BY <1>0, <2>1, <2>2, StepFails DEF Pending, GivenUp
<1>8. ASSUME Finish(r) PROVE History!Close(r)
  <2>1. /\ pc[r] = "collect" /\ pc'[r] = "over" /\ mem' = mem
        /\ runs'[r] = [status |-> mem[r].status, stats |-> mem[r].total]
        /\ mem[r].status \in {"success", "failed"}
    BY <1>0, <1>8 DEF Finish, Step, Mem
  <2>2. r \in Finished' /\ (r \in GivenUp <=> mem[r].status = "failed")
        /\ (r \in GivenUp' <=> mem[r].status = "failed")
    BY <2>1 DEF Finished, GivenUp
  <2>3. GivenUp' = GivenUp
    BY <1>0, <2>2, OwnChange DEF GivenUp
  <2>4. Pending' = Pending /\ Pending[r] = {} /\ Status[r] = "running"
    BY <1>0, <2>1, OwnChange, OpenIsRunning DEF Pending
  <2>5. mem[r].total.inserted = Cardinality(History!FirstStored(r))
    BY <2>1 DEF MergeInv, StoreInv, RunOK, FirstSeen, History!FirstStored
  <2>6. Status' = [Status EXCEPT ![r] = IF r \in GivenUp THEN "failed" ELSE "success"]
    BY <1>0, <2>1, <2>2, OwnChange
  <2>7. Inserted' = [Inserted EXCEPT ![r] = Cardinality(History!FirstStored(r))]
    BY <1>0, <2>1, <2>5, OwnChange
  <2>8. posts' = posts
    BY <1>0
  <2>9. History!Cardinality(History!FirstStored(r)) = Cardinality(History!FirstStored(r))
    BY DEF History!Cardinality, Cardinality
  <2> QED BY <2>3, <2>4, <2>6, <2>7, <2>8, <2>9 DEF History!Close
<1> QED
  BY <1>1, <1>4, <1>5, <1>6, <1>7, <1>8 DEF RunStep, History!HNext

LEMMA HistoryNext == MergeInv /\ [Next]_vars => [History!HNext]_(History!hvars)
<1> SUFFICES ASSUME MergeInv, [Next]_vars PROVE [History!HNext]_(History!hvars)
  OBVIOUS
<1>1. ASSUME NEW r \in Run, Upsert(r) PROVE UNCHANGED History!hvars
  <2>1. /\ OthersStay(r) /\ pc[r] = "upsert" /\ pc'[r] = pc[r]
        /\ mem'[r].status = mem[r].status /\ UNCHANGED <<runs, posts, got>>
    <3>1. pc \in [Run -> PC] /\ mem \in [Run -> Mem]
      BY DEF MergeInv, StoreInv, TypeOK
    <3>2. PICK new, stats : Stores(r, new, stats)
      BY <1>1 DEF Upsert
    <3> QED BY <1>1, <3>1, <3>2, UpsertMerges DEF Stores, Step, Mem
  <2>2. Pending'[r] = Pending[r] /\ (r \in GivenUp' <=> r \in GivenUp)
    BY <2>1 DEF Pending, GivenUp, Finished
  <2> QED BY <2>1, <2>2, StepStutters
<1>2. ASSUME NEW r \in Run, Commit(r) PROVE History!HNext
  BY <1>2, CommitStores DEF History!HNext
<1>3. ASSUME NEW r \in Run, RunStep(r) \/ FinishBusy(r) \/ Kill(r), ~Upsert(r), ~Commit(r)
      PROVE  [History!HNext]_(History!hvars)
  BY <1>3, HistoryStep
<1>4. CASE OtherWrite \/ UNCHANGED vars
  <2>1. UNCHANGED <<runs, posts, pc, mem, got>>
    BY <1>4 DEF OtherWrite, vars
  <2>2. UNCHANGED <<Status, Inserted, Pending, GivenUp>>
    BY <2>1 DEF Status, Inserted, Pending, GivenUp, Finished
  <2> QED BY <2>1, <2>2 DEF History!hvars
<1> QED BY <1>1, <1>2, <1>3, <1>4 DEF Next

\* Runs that overlap, lose transactions, find the database busy or are killed
\* do to the table and report what they would one after the other: the upserts
\* of a collector's postings take effect at once, at the COMMIT, on the table as
\* it is then, or never (storage/repository.py, upsert_postings).
THEOREM RunsSerialized == Spec => HistorySpec
BY MergeInit, MergeNext, HistoryInit, HistoryNext, PTL DEF Spec, HistorySpec, History!HSpec
=============================================================================
