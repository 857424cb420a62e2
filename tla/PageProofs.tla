----------------------------- MODULE PageProofs -----------------------------
(***************************************************************************)
(* What a run gets out of the pages of its site, for any listings, configs *)
(* and candidates: the dry run foretells what the rerun will get, and a    *)
(* run that covers its site lists all of it.                               *)
(***************************************************************************)
EXTENDS HealingProofs

\* What a config gets out of one page.
Got(cfg, body) ==
    IF /\ cfg["items_path"] = body.at /\ cfg["items_path"] \notin BadPath \cup body.others
       /\ ~Unreadable(cfg)
    THEN Records([i \in DOMAIN body.items |-> Posting(cfg, body, body.items[i])])
    ELSE <<>>

LEMMA GotType ==
    ASSUME NEW cfg, NEW body, body.items \in Seq(Items)
    PROVE  Got(cfg, body) \in Seq(Postings) /\ (body.items = <<>> => Got(cfg, body) = <<>>)
<1> DEFINE found == [i \in DOMAIN body.items |-> Posting(cfg, body, body.items[i])]
<1>1. found \in Seq(Postings)
  BY FoundType
<1>2. Records(found) \in Seq(Postings)
  BY <1>1, RecordsType
<1>3. ASSUME body.items = <<>> PROVE Records(found) = <<>>
  <2>1. DOMAIN found = {}
    BY <1>3
  <2> HIDE DEF found
  <2> QED BY <1>1, <2>1, RecordsOfNone
<1>4. <<>> \in Seq(Postings)
  OBVIOUS
<1>5. Got(cfg, body) \in {Records(found), <<>>}
  BY DEF Got
<1> HIDE DEF found
<1> QED BY <1>2, <1>3, <1>4, <1>5

\* What one turn of the loop does with a page.
Turned(cfg, r, body, s) ==
    /\ s.records = r.records \o Got(cfg, body)
    /\ s.sample = IF r.pages = 0 THEN body ELSE r.sample

LEMMA TurnRecords ==
    ASSUME NEW cfg, NEW r, RunOK(r), r.records \in Seq(Postings), NEW answer,
           answer.body.items \in Seq(Items), ~answer.blocked
    PROVE  Turned(cfg, r, answer.body, OnAnswer(cfg, r, answer))
<1> DEFINE path == cfg["items_path"]
           body == answer.body
           seen == IF r.pages = 0 THEN [r EXCEPT !.sample = body] ELSE r
           items == IF path = body.at THEN body.items ELSE <<>>
           s == OnAnswer(cfg, r, answer)
           Same(q, t) == t.records = q.records /\ t.sample = q.sample
           As(q, t) == t.records = q.records \o Got(cfg, body) /\ t.sample = q.sample
<1>1. ASSUME NEW q, DOMAIN q = RunFields, NEW codes
      PROVE  Same(q, Break(q, codes)) /\ Same(q, Raised(q))
  BY <1>1 DEF Break, Raised, RunFields
<1>2. DOMAIN seen = RunFields /\ seen.records = r.records
      /\ seen.sample = IF r.pages = 0 THEN body ELSE r.sample
  BY DEF RunOK, RunFields
<1>3. r.records \o <<>> = r.records
  OBVIOUS
<1> HIDE DEF seen
<1>4. ASSUME path \in BadPath PROVE As(seen, s)
  <2>1. s = Raised(seen) /\ Got(cfg, body) = <<>>
    BY <1>4 DEF OnAnswer, Got, seen
  <2>2. Same(seen, s)
    BY <1>1, <1>2, <2>1
  <2> HIDE DEF s
  <2> QED BY <1>2, <1>3, <2>1, <2>2
<1>5. ASSUME path \in body.others \ BadPath PROVE As(seen, s)
  <2>1. s = Break(seen, {"items_path_not_list"}) /\ Got(cfg, body) = <<>>
    BY <1>5 DEF OnAnswer, Got, seen
  <2>2. Same(seen, s)
    BY <1>1, <1>2, <2>1
  <2> HIDE DEF s
  <2> QED BY <1>2, <1>3, <2>1, <2>2
<1>6. ASSUME path \notin BadPath \cup body.others PROVE As(seen, s)
  <2> DEFINE found == [i \in DOMAIN items |-> Posting(cfg, body, items[i])]
  <2>1. s = OnItems(cfg, seen, body, items)
    BY <1>6 DEF OnAnswer, seen
  <2>2. items \in Seq(Items)
    OBVIOUS
  <2>3. items = <<>> => Got(cfg, body) = <<>> /\ Records(found) = <<>>
    <3>1. ASSUME items = <<>> PROVE Got(cfg, body) = <<>>
      BY <3>1, GotType DEF Got
    <3>2. ASSUME items = <<>> PROVE found \in Seq(Postings) /\ DOMAIN found = {}
      BY <3>2
    <3> HIDE DEF found, items
    <3> QED BY <3>1, <3>2, RecordsOfNone
  <2>4. items # <<>> => Got(cfg, body) = IF Unreadable(cfg) THEN <<>> ELSE Records(found)
    BY <1>6 DEF Got
  <2>5. As(seen, Take(cfg, seen, body, items)) \/ Got(cfg, body) # Records(found)
    <3> DEFINE t == Take(cfg, seen, body, items)
    <3>1. t.records = seen.records \o Records(found) /\ t.sample = seen.sample
      BY <1>2 DEF Take, RunFields
    <3> HIDE DEF t, found
    <3>2. As(seen, t) \/ Got(cfg, body) # Records(found)
      BY <3>1
    <3> QED BY <3>2 DEF t
  <2>6. Got(cfg, body) = <<>> => As(seen, Break(seen, {})) /\ As(seen, Raised(seen))
    BY <1>1, <1>2, <1>3
  <2>7. \/ items = <<>> /\ s = Break(seen, {})
        \/ items # <<>> /\ Unreadable(cfg) /\ s = Raised(seen)
        \/ (items = <<>> \/ ~Unreadable(cfg)) /\ s = Take(cfg, seen, body, items)
    BY <2>1 DEF OnItems
  <2> HIDE DEF s, items, As, found
  <2> QED BY <2>3, <2>4, <2>5, <2>6, <2>7
<1>7. As(seen, s)
  BY <1>4, <1>5, <1>6
<1> QED BY <1>2, <1>7 DEF Turned

LEMMA TurnRaises ==
    ASSUME NEW cfg, NEW r, RunOK(r), NEW answer, OnAnswer(cfg, r, answer).raised
    PROVE  r.raised \/ cfg["items_path"] \in BadPath \/ Unreadable(cfg)
<1>1. ASSUME NEW q, DOMAIN q = RunFields, NEW codes
      PROVE  Break(q, codes).raised = q.raised
  BY <1>1 DEF Break, RunFields
<1>2. ASSUME NEW q, DOMAIN q = RunFields, NEW body, NEW items, ~Unreadable(cfg)
      PROVE  OnItems(cfg, q, body, items).raised = q.raised
  <2>1. Take(cfg, q, body, items).raised = q.raised
    BY <1>2 DEF Take, RunFields
  <2> QED BY <1>1, <1>2, <2>1 DEF OnItems
<1> DEFINE seen == IF r.pages = 0 THEN [r EXCEPT !.sample = answer.body] ELSE r
<1>3. DOMAIN r = RunFields /\ DOMAIN seen = RunFields /\ seen.raised = r.raised
  BY DEF RunOK, RunFields
<1> HIDE DEF seen
<1>4. CASE cfg["items_path"] \notin BadPath /\ ~Unreadable(cfg)
  <2> DEFINE items == IF cfg["items_path"] = answer.body.at THEN answer.body.items ELSE <<>>
  <2>1. OnAnswer(cfg, r, answer) \in {Break(r, {"fetch_failed"}),
                                      Break(seen, {"items_path_not_list"}),
                                      OnItems(cfg, seen, answer.body, items)}
    BY <1>4 DEF OnAnswer, seen
  <2> HIDE DEF items
  <2> QED BY <1>1, <1>2, <1>3, <1>4, <2>1
<1> QED BY <1>4

-----------------------------------------------------------------------------
(* The dry run: a replay gets what the config gets out of the sample.      *)

LEMMA FakeBody ==
    ASSUME NEW sample, sample.items \in Seq(Items), NEW n \in Nat \ {0}
    PROVE  LET answer == FakeAnswer(FakePages(sample), n) IN
           /\ ~answer.blocked /\ answer.body.items \in Seq(Items)
           /\ n = 1 /\ sample.at # Root => answer.body = sample
           /\ n # 1 \/ sample.at = Root => answer.body.items = <<>>
<1> DEFINE answer == FakeAnswer(FakePages(sample), n)
           pages == FakePages(sample)
           blind == [EmptyBody EXCEPT !.others = {Root}]
<1>1. EmptyBody.items = <<>> /\ blind.items = <<>> /\ <<>> \in Seq(Items)
  BY DEF EmptyBody
<1>2. ~answer.blocked /\ answer.body = IF n \in DOMAIN pages THEN pages[n] ELSE EmptyBody
  BY DEF FakeAnswer, Page
<1>3. CASE sample.at = Root
  <2>1. n \in DOMAIN pages => pages[n] = blind
    BY <1>3 DEF FakePages
  <2> HIDE DEF answer, pages, blind
  <2> QED BY <1>1, <1>2, <1>3, <2>1 DEF answer
<1>4. CASE sample.at # Root
  <2>1. DOMAIN pages = {1} /\ pages[1] = sample
    BY <1>4 DEF FakePages
  <2> HIDE DEF answer, pages, blind
  <2> QED BY <1>1, <1>2, <1>4, <2>1 DEF answer
<1> QED BY <1>3, <1>4

LEMMA ReplayGets ==
    ASSUME NEW cfg, MaxPages(cfg) \in Int, NEW sample, sample.items \in Seq(Items)
    PROVE  /\ Replay(cfg, sample).records \in Seq(Postings)
           /\ Replay(cfg, sample).records =
                 IF Turns(cfg) /\ sample.at # Root THEN Got(cfg, sample) ELSE <<>>
<1> DEFINE N == IF MaxPages(cfg) > 0 THEN MaxPages(cfg) ELSE 0
           shown == IF sample.at # Root THEN Got(cfg, sample) ELSE <<>>
<1>1. N \in Nat /\ (N # 0 <=> Turns(cfg))
  BY DEF Turns
<1>2. PICK f : Replays(f, cfg, sample, N) /\ Replay(cfg, sample) = f[N]
  BY <1>1, ReplaySteps
<1>3. Got(cfg, sample) \in Seq(Postings) /\ shown \in Seq(Postings) /\ <<>> \in Seq(Postings)
  BY GotType
<1> DEFINE Upto(r, n) == /\ RunOK(r) /\ r.records \in Seq(Postings)
                         /\ n = 0 => r = Begun
                         /\ n # 0 => r.records = shown
           S == {n \in 0..N : Upto(f[n], n)}
<1>4. 0 \in S
  <2>1. f[0] = Begun /\ Begun.records = <<>>
    BY <1>2 DEF Replays, Begun
  <2>2. Begun.records \in Seq(Postings)
    BY <1>3, <2>1
  <2>3. Upto(Begun, 0)
    BY <2>2, FreshOK
  <2>4. Upto(f[0], 0)
    BY <2>1, <2>3, Zenon
  <2> QED BY <1>1, <2>4
<1>5. ASSUME NEW n \in 0..(N - 1), n \in S PROVE n + 1 \in S
  <2> DEFINE m == n + 1
             r == f[n]
             answer == FakeAnswer(FakePages(sample), m)
  <2>1. m \in 1..N /\ m - 1 = n /\ n \in Nat /\ N # 0
    BY <1>1
  <2>2. f[m] = ReplayTurn(cfg, sample, f[n], m)
    BY <1>2, <2>1 DEF Replays
  <2>3. Upto(r, n)
    BY <1>5
  <2>4. /\ ~answer.blocked /\ answer.body.items \in Seq(Items)
        /\ m = 1 /\ sample.at # Root => answer.body = sample
        /\ m # 1 \/ sample.at = Root => answer.body.items = <<>>
    BY <2>1, FakeBody
  <2>5. f[m] = IF More(cfg, r) THEN OnAnswer(cfg, r, answer) ELSE r
    BY <2>2 DEF ReplayTurn
  <2>6. m # 1 \/ sample.at = Root => Got(cfg, answer.body) = <<>>
    BY <2>4, GotType
  <2>7. n = 0 => More(cfg, Begun)
    BY <1>1, <2>1 DEF More, Begun, Turns
  <2> HIDE DEF answer, r
  <2> DEFINE s == OnAnswer(cfg, r, answer)
  <2>8. RunOK(s) /\ s.records = r.records \o Got(cfg, answer.body)
        /\ r.records \in Seq(Postings) /\ Got(cfg, answer.body) \in Seq(Postings)
    <3>1. RunOK(r) /\ r.records \in Seq(Postings)
      BY <2>3
    <3>2. RunOK(s)
      BY <3>1, Turn
    <3>3. s.records = r.records \o Got(cfg, answer.body)
      BY <2>4, <3>1, TurnRecords DEF Turned
    <3> QED BY <2>4, <3>1, <3>2, <3>3, GotType
  <2> HIDE DEF s
  <2>9. s.records = shown
    <3>1. CASE n = 0
      <4>1. r.records = <<>>
        BY <2>3, <3>1 DEF Begun
      <4>2. s.records = Got(cfg, answer.body)
        BY <2>8, <4>1
      <4> QED BY <2>4, <2>6, <3>1, <4>2
    <3>2. CASE n # 0
      <4>1. r.records = shown /\ Got(cfg, answer.body) = <<>>
        BY <2>1, <2>3, <2>6, <3>2
      <4> HIDE DEF shown
      <4> QED BY <2>8, <4>1
    <3> QED BY <3>1, <3>2
  <2>10. Upto(s, m)
    <3>1. s.records \in Seq(Postings)
      BY <1>3, <2>9, Zenon
    <3> HIDE DEF shown
    <3> QED BY <2>1, <2>8, <2>9, <3>1
  <2>11. Upto(f[m], m)
    <3>1. CASE More(cfg, r)
      <4>1. f[m] = s
        BY <2>5, <3>1 DEF s
      <4> QED BY <2>10, <4>1, Zenon
    <3>2. CASE ~More(cfg, r)
      <4>1. f[m] = r /\ n # 0
        BY <2>3, <2>5, <2>7, <3>2
      <4>2. Upto(r, m)
        BY <2>1, <2>3, <4>1
      <4> QED BY <4>1, <4>2, Zenon
    <3> QED BY <3>1, <3>2
  <2> QED BY <2>1, <2>11
<1>6. N \in S
  <2>1. \A n \in 0..(N - 1) : n \in S => n + 1 \in S
    BY <1>5
  <2> HIDE DEF S
  <2>2. 0..N \subseteq S
    BY <1>1, <1>4, <2>1, BoundedInduction
  <2> QED BY <1>1, <2>2
<1>7. f[N].records \in Seq(Postings) /\ (N = 0 => f[N] = Begun) /\ (N # 0 => f[N].records = shown)
  BY <1>6
<1>8. Begun.records = <<>>
  BY DEF Begun
<1> HIDE DEF N, S
<1> QED BY <1>1, <1>2, <1>7, <1>8

LEMMA MissingType ==
    ASSUME NEW cfg, NEW r, r.records \in Seq(Postings)
    PROVE  /\ MissingRequired(cfg, r) \in Nat /\ Len(r.records) \in Nat
           /\ r.records = <<>> <=> Len(r.records) = 0
           /\ r.records = <<>> => MissingRequired(cfg, r) = 0
<1> DEFINE M == {i \in DOMAIN r.records :
                   \E field \in Required(cfg) : r.records[i][field] = Nothing}
<1>1. IsFiniteSet(1..Len(r.records)) /\ M \in SUBSET (1..Len(r.records))
  BY FS_Interval
<1>2. IsFiniteSet(M) /\ Cardinality(M) \in Nat
  BY <1>1, FS_Subset, FS_CardinalityType
<1>3. r.records = <<>> => M = {}
  OBVIOUS
<1>4. MissingRequired(cfg, r) = Cardinality(M)
  BY DEF MissingRequired
<1> HIDE DEF M
<1> QED BY <1>2, <1>3, <1>4, FS_EmptySet

\* What a measured verdict says about the two replays.
LEMMA VerdictFacts ==
    ASSUME NEW cfg, NEW changes, NEW sample, sample.items \in Seq(Items),
           MaxPages(cfg) \in Int,
           RunDryRun(cfg, changes, sample) \notin {"raised", "patch_invalid", "patch_apply_failed"}
    PROVE  LET patched == Patched(cfg, changes)
               before == Replay(cfg, sample).records
               after == Replay(patched.cfg, sample).records
               verdict == RunDryRun(cfg, changes, sample) IN
           /\ patched.ok /\ Valid(patched.cfg)
           /\ verdict = "improved" => after # <<>>
           /\ before = <<>> => verdict # "regressed"
           /\ before = <<>> /\ verdict # "improved" => after = <<>>
<1> DEFINE patched == Patched(cfg, changes)
           before == Replay(cfg, sample)
           after == Replay(patched.cfg, sample)
           verdict == RunDryRun(cfg, changes, sample)
           b == Len(before.records)
           a == Len(after.records)
           mb == MissingRequired(cfg, before)
           ma == MissingRequired(patched.cfg, after)
<1>1. patched.ok /\ Valid(patched.cfg) /\ ~(before.raised \/ after.raised)
  BY DEF RunDryRun
<1>2. verdict = Verdict(b, a, mb, ma)
  BY <1>1 DEF RunDryRun
<1>3. before.records \in Seq(Postings) /\ after.records \in Seq(Postings)
  <2>1. MaxPages(patched.cfg) \in Int
    BY <1>1 DEF Valid
  <2> QED BY <2>1, ReplayGets
<1> HIDE DEF before, after, verdict, patched
<1>4. /\ b \in Nat /\ a \in Nat /\ mb \in Nat /\ ma \in Nat
      /\ before.records = <<>> <=> b = 0
      /\ after.records = <<>> <=> a = 0
      /\ b = 0 => mb = 0
      /\ a = 0 => ma = 0
  BY <1>3, MissingType
<1> HIDE DEF a, b, ma, mb
<1>5. /\ verdict = "improved" => a # 0
      /\ b = 0 => verdict # "regressed"
      /\ b = 0 /\ verdict # "improved" => a = 0
  BY <1>2, <1>4 DEF Verdict
<1> QED BY <1>1, <1>4, <1>5 DEF before, after, verdict, patched

-----------------------------------------------------------------------------
(* The dry run foretells the rerun.  What it has measured on the sample of *)
(* a run is what the config gets out of the first answer of the site; that *)
(* stays so as long as the request is steady, through the approval and the *)
(* rerun, whose page loop gets it again, if it asks for the same.          *)

FirstOf(s, cfg) == Reply(s, Asked(cfg, Begun)).body

Gets(s, cfg) ==
    Purpose(cfg) = "postings" /\ Turns(cfg) /\ Got(cfg, FirstOf(s, cfg)) # <<>>

\* The samples that healing can have of a site that has not changed.
Known(s, cfg, sample) ==
    \/ sample = FirstOf(s, cfg) /\ Purpose(cfg) = "postings"
    \/ s.other /\ sample = OtherBody

\* A sample of the site shows what the rest of it is like.
Clear(s, cfg) == ~s.other /\ Shown(FirstOf(s, cfg), s.pages)

\* What the dry run of a pending request has found still holds.
Measurement(s, cfg, r) ==
    LET new == Patched(cfg, r.changes).cfg IN
    /\ Patched(cfg, r.changes).ok /\ Valid(new)
    /\ Known(s, cfg, r.sample)
    /\ ~s.other => ~Gets(s, cfg)
    /\ r.alike => /\ r.verdict = "improved" => Gets(s, new)
                  /\ Clear(s, new) /\ r.verdict # "improved" => ~Gets(s, new)

\* DryRunForetells, for one row.
Foretold(s, cfg, r) ==
    /\ r.outcome # "apply_failed"
    /\ ~s.other => r.verdict # "regressed"
    /\ r.alike => /\ r.verdict = "improved" => r.outcome # "rolled_back"
                  /\ Clear(s, cfg) => (r.outcome = "kept" => r.verdict = "improved")

RowsForetold(s, cfg, t) ==
    \A i \in DOMAIN t : t[i].steady =>
        /\ Foretold(s, cfg, t[i])
        /\ t[i].status = "pending" => Measurement(s, cfg, t[i])

\* The rerun sees what the dry run has foretold ...
Verifying(s, cfg, j, t, st) ==
    j.by = "rerun" /\ t[j.id].steady =>
        /\ st
        /\ t[j.id].alike =>
              /\ t[j.id].verdict = "improved" => Gets(s, cfg)
              /\ Clear(s, cfg) /\ t[j.id].verdict # "improved" => ~Gets(s, cfg)

\* ... and page by page and collector by collector nothing of it is lost.
Live(s, cfg, r) ==
    /\ \/ r = Begun
       \/ r.sample \in {Nothing, FirstOf(s, cfg)} /\ (r.left \/ r.pages > 0)
    /\ r # Begun /\ r.records = <<>> => Got(cfg, FirstOf(s, cfg)) = <<>>
    /\ r.raised => Got(cfg, FirstOf(s, cfg)) = <<>>
    /\ Clear(s, cfg) /\ Got(cfg, FirstOf(s, cfg)) = <<>> => r.records = <<>>

Counting(s, cfg, p, j, r) ==
    /\ p = "fetch" => ~j.stored /\ ~j.failed /\ j.sample = Nothing /\ Live(s, cfg, r)
    /\ p \in {"other", "close", "llm", "dry_run", "verify"} /\ j.by # "regenerate" =>
          /\ Gets(s, cfg) => j.stored
          /\ Clear(s, cfg) /\ ~Gets(s, cfg) => ~j.stored
    /\ p \in {"other", "close"} =>
          /\ j.sample = Nothing \/ Known(s, cfg, j.sample)
          /\ ~s.other /\ j.failed => ~Gets(s, cfg)
    /\ p \in {"llm", "dry_run"} => Known(s, cfg, j.sample) /\ (~s.other => ~Gets(s, cfg))

ForetellInv ==
    /\ pc = "other" => site.other
    /\ RowsForetold(site, yaml, req)
    /\ Verifying(site, yaml, job, req, steady)
    /\ steady => Counting(site, yaml, pc, job, run)

\* A replay on a sample of the site gets something only if the config gets it
\* from the site, and then surely, if the sample shows the site; so does that of
\* any other config that asks for the same.
LEMMA ReplayKnown ==
    ASSUME NEW s \in Sites, NEW cfg, NEW sample, Known(s, cfg, sample),
           NEW new, Unseen(new) = Unseen(cfg), MaxPages(new) \in Int
    PROVE  /\ sample.items \in Seq(Items)
           /\ Replay(new, sample).records # <<>> => Gets(s, new)
           /\ Clear(s, new) /\ Gets(s, new) => Replay(new, sample).records # <<>>
<1>1. OtherBody.items = <<>> /\ <<>> \in Seq(Items)
  BY DEF OtherBody, EmptyBody
<1>2. FirstOf(s, new) = FirstOf(s, cfg) /\ Purpose(new) = Purpose(cfg)
  BY DEF Unseen, FirstOf
<1>3. sample.items \in Seq(Items)
  BY <1>1, ReplyType DEF Known, FirstOf
<1>4. Replay(new, sample).records =
        IF Turns(new) /\ sample.at # Root THEN Got(new, sample) ELSE <<>>
  BY <1>3, ReplayGets
<1>5. sample = OtherBody => Got(new, sample) = <<>>
  BY <1>1, GotType
<1>6. Clear(s, new) => sample = FirstOf(s, new) /\ sample.at # Root
  BY <1>2 DEF Clear, Known, Shown
<1> QED BY <1>2, <1>3, <1>4, <1>5, <1>6 DEF Known, Gets

-----------------------------------------------------------------------------
(* Where the first answer shows nothing, no later one has anything.        *)

PageOf(s, n) == Body(s.layout, IF n \in DOMAIN s.pages THEN s.pages[n] ELSE <<>>)

\* Whether a config finds an id in an item of a page.
Has(cfg, body, item) == Identified(Posting(cfg, body, item))

LEMMA GotSome ==
    ASSUME NEW cfg, NEW body, body.items \in Seq(Items)
    PROVE  Got(cfg, body) # <<>> <=>
             /\ cfg["items_path"] = body.at
             /\ cfg["items_path"] \notin BadPath \cup body.others /\ ~Unreadable(cfg)
             /\ \E i \in DOMAIN body.items : Has(cfg, body, body.items[i])
<1> DEFINE found == [i \in DOMAIN body.items |-> Posting(cfg, body, body.items[i])]
<1>1. found \in Seq(Postings)
  BY FoundType
<1>2. DOMAIN found = DOMAIN body.items
      /\ \A i \in DOMAIN found : Identified(found[i]) <=> Has(cfg, body, body.items[i])
  BY DEF Has
<1>3. Got(cfg, body) = IF /\ cfg["items_path"] = body.at
                          /\ cfg["items_path"] \notin BadPath \cup body.others
                          /\ ~Unreadable(cfg)
                       THEN Records(found) ELSE <<>>
  BY DEF Got
<1> HIDE DEF found
<1>4. Len(found) \in Nat /\ DOMAIN found = 1..Len(found)
      /\ \A i \in 1..Len(found) : found[i] \in Postings
  BY <1>1
<1>5. Records(found) = <<>> <=> \A i \in 1..Len(found) : ~Identified(found[i])
  BY <1>4, RecordsEmpty
<1> QED BY <1>2, <1>3, <1>4, <1>5

\* An item in which a config finds an id has one of the two attributes.
LEMMA HasAttr ==
    ASSUME NEW s, NEW cfg, NEW n, NEW item, Has(cfg, PageOf(s, n), item)
    PROVE  \E attr \in {"id", "title"} :
             /\ item[attr] # Nothing
             /\ \A m, other : /\ PageOf(s, m).items # <<>>
                             /\ other[attr] # Nothing
                             /\ PageOf(s, n).items # <<>>
                             => Has(cfg, PageOf(s, m), other)
<1>1. ASSUME NEW m, PageOf(s, m).items # <<>>
      PROVE  PageOf(s, m).id = s.layout.id /\ PageOf(s, m).title = s.layout.title
  BY <1>1 DEF PageOf, Body, EmptyBody
<1> DEFINE key == Setting(cfg, "external_id", Nowhere)
<1>2. ASSUME NEW m, NEW other
      PROVE  Has(cfg, PageOf(s, m), other) <=>
               \/ key = PageOf(s, m).id /\ key # Nowhere /\ other.id # Nothing
               \/ /\ key = PageOf(s, m).title /\ key \notin {PageOf(s, m).id, Nowhere}
                  /\ other.title # Nothing
  BY DEF Has, Identified, Posting, Pick
<1>3. CASE key = PageOf(s, n).id
  <2>1. item["id"] # Nothing
    BY <1>2, <1>3
  <2>2. ASSUME NEW m, NEW other, PageOf(s, m).items # <<>>, other["id"] # Nothing,
               PageOf(s, n).items # <<>>
        PROVE  Has(cfg, PageOf(s, m), other)
    BY <1>1, <1>2, <1>3, <2>2
  <2> QED BY <2>1, <2>2
<1>4. CASE key # PageOf(s, n).id
  <2>1. item["title"] # Nothing
    BY <1>2, <1>4
  <2>2. ASSUME NEW m, NEW other, PageOf(s, m).items # <<>>, other["title"] # Nothing,
               PageOf(s, n).items # <<>>
        PROVE  Has(cfg, PageOf(s, m), other)
    BY <1>1, <1>2, <1>4, <2>2
  <2> QED BY <2>1, <2>2
<1> QED BY <1>3, <1>4

\* What a page in the listing has shows in the sample of the first answer.
LEMMA ShownGets ==
    ASSUME NEW s \in Sites, NEW cfg, NEW m, NEW n, Shown(PageOf(s, m), s.pages),
           Got(cfg, PageOf(s, n)) # <<>>
    PROVE  Got(cfg, PageOf(s, m)) # <<>>
<1> DEFINE first == PageOf(s, m)
           body == PageOf(s, n)
<1>1. s.pages \in Seq(Seq(Items))
  BY SelfHealingAssumption
<1>2. ASSUME NEW k PROVE PageOf(s, k).items \in Seq(Items)
  <2>1. (IF k \in DOMAIN s.pages THEN s.pages[k] ELSE <<>>) \in Seq(Items)
    BY <1>1
  <2>2. ASSUME NEW items \in Seq(Items) PROVE Body(s.layout, items).items \in Seq(Items)
    BY DEF Body, EmptyBody
  <2> QED BY <2>1, <2>2 DEF PageOf
<1>3. PICK i \in DOMAIN body.items : Has(cfg, body, body.items[i])
  BY <1>2, GotSome
<1>4. body.items # <<>> /\ n \in DOMAIN s.pages /\ body.items = s.pages[n]
  BY <1>2, <1>3 DEF PageOf, Body, EmptyBody
<1>5. PICK attr \in {"id", "title"} :
        /\ body.items[i][attr] # Nothing
        /\ \A other : first.items # <<>> /\ other[attr] # Nothing => Has(cfg, first, other)
  BY <1>3, <1>4, HasAttr
<1>6. PICK j \in DOMAIN first.items : first.items[j][attr] # Nothing
  BY <1>4, <1>5 DEF Shown
<1>7. first.items # <<>>
  BY <1>2, <1>6
<1>8. first.at = body.at /\ first.others = body.others
  BY <1>4, <1>7 DEF PageOf, Body, EmptyBody
<1>9. Has(cfg, first, first.items[j])
  BY <1>5, <1>6, <1>7
<1> HIDE DEF first, body
<1>10. first.items \in Seq(Items) /\ body.items \in Seq(Items)
  BY <1>2 DEF first, body
<1> QED BY <1>6, <1>8, <1>9, <1>10, GotSome DEF first, body

\* An answer is one from elsewhere, to whatever is asked, or a page of the listing.
LEMMA Replies ==
    ASSUME NEW s, NEW cfg, NEW r
    PROVE  \/ \A q : Reply(s, Asked(cfg, q)) = Reply(s, Asked(cfg, r))
           \/ \E m, n : /\ FirstOf(s, cfg) = PageOf(s, m)
                       /\ Reply(s, Asked(cfg, r)).body = PageOf(s, n)
<1>1. ASSUME NEW q PROVE Asked(cfg, q).request = cfg["request"] /\ Asked(cfg, q).param = PageParam(cfg)
  BY DEF Asked
<1>2. CASE cfg["request"] # s.request \/ PageParam(cfg) \notin {s.param, Nowhere}
  BY <1>1, <1>2 DEF Reply
<1>3. CASE ~(cfg["request"] # s.request \/ PageParam(cfg) \notin {s.param, Nowhere})
  <2>1. ASSUME NEW q PROVE \E n : Reply(s, Asked(cfg, q)) = Page(PageOf(s, n))
    BY <1>1, <1>3 DEF Reply, PageOf
  <2>2. \A body : Page(body).body = body
    BY DEF Page
  <2> QED BY <2>1, <2>2 DEF FirstOf
<1> QED BY <1>2, <1>3

LEMMA ClearGets ==
    ASSUME NEW s \in Sites, NEW cfg, Clear(s, cfg), Got(cfg, FirstOf(s, cfg)) = <<>>, NEW r
    PROVE  Got(cfg, Reply(s, Asked(cfg, r)).body) = <<>>
<1>1. CASE \A q : Reply(s, Asked(cfg, q)) = Reply(s, Asked(cfg, r))
  BY <1>1 DEF FirstOf
<1>2. CASE \E m, n : /\ FirstOf(s, cfg) = PageOf(s, m)
                    /\ Reply(s, Asked(cfg, r)).body = PageOf(s, n)
  BY <1>2, ShownGets DEF Clear
<1> QED BY <1>1, <1>2, Replies

LEMMA ConcatEmpty ==
    ASSUME NEW S, NEW s \in Seq(S), NEW t \in Seq(S)
    PROVE  s \o t = <<>> <=> s = <<>> /\ t = <<>>
<1>1. Len(s \o t) = Len(s) + Len(t) /\ Len(s) \in Nat /\ Len(t) \in Nat
  OBVIOUS
<1>2. (s = <<>> <=> Len(s) = 0) /\ (t = <<>> <=> Len(t) = 0) /\ (s \o t = <<>> <=> Len(s \o t) = 0)
  OBVIOUS
<1> QED BY <1>1, <1>2

LEMMA LiveStart == ASSUME NEW s, NEW cfg PROVE Live(s, cfg, Begun)
BY DEF Live, Begun

LEMMA LiveTurn ==
    ASSUME HealingInv, TypeInv, Live(site, yaml, run), More(yaml, run)
    PROVE  Live(site, yaml, OnAnswer(yaml, run, Answer))
<1> DEFINE s == OnAnswer(yaml, run, Answer)
           body == Answer.body
           first == FirstOf(site, yaml)
<1>1. body.items \in Seq(Items) /\ (Answer.blocked => body = EmptyBody)
  BY ReplyType DEF TypeInv, Answer, Blocked
<1>2. RunOK(run) /\ run.records \in Seq(Postings) /\ run.pages \in Nat
  BY DEF HealingInv, TypeInv, LoopOK, RunOK
<1>3. Got(yaml, body) \in Seq(Postings) /\ (Answer.blocked => Got(yaml, body) = <<>>)
  <2>1. EmptyBody.items = <<>>
    BY DEF EmptyBody
  <2> QED BY <1>1, <2>1, GotType
<1>4. /\ s.records = run.records \o Got(yaml, body)
      /\ s.sample \in {run.sample, IF run.pages = 0 THEN body ELSE run.sample}
  <2>1. CASE ~Answer.blocked
    <3>1. Turned(yaml, run, body, s)
      BY <1>1, <1>2, <2>1, TurnRecords
    <3> HIDE DEF s
    <3> QED BY <3>1 DEF Turned
  <2>2. CASE Answer.blocked
    <3>1. s = Break(run, {"fetch_failed"})
      BY <2>2 DEF OnAnswer
    <3>2. s.records = run.records /\ s.sample = run.sample
      BY <1>2, <3>1 DEF Break, RunOK, RunFields
    <3>3. Got(yaml, body) = <<>> /\ run.records \o <<>> = run.records
      BY <1>2, <1>3, <2>2
    <3> HIDE DEF s, body
    <3> QED BY <3>2, <3>3
  <2> QED BY <2>1, <2>2
<1>5. s.left = TRUE \/ s.pages = run.pages + 1
  BY <1>2, Turn
<1>6. s.raised => Got(yaml, first) = <<>>
  <2>1. s.raised => run.raised \/ yaml["items_path"] \in BadPath \/ Unreadable(yaml)
    BY <1>2, TurnRaises
  <2> HIDE DEF s
  <2> QED BY <2>1 DEF Live, Got
<1> HIDE DEF s
<1>7. run = Begun => /\ body = first /\ run.pages = 0 /\ run.records = <<>>
                     /\ run.sample = Nothing
  BY DEF Begun, Answer, FirstOf
<1>8. run # Begun => run.pages > 0 /\ run.sample \in {Nothing, first}
  BY DEF Live, More
<1>9. s.sample \in {Nothing, first} /\ (s.left \/ s.pages > 0)
  BY <1>2, <1>4, <1>5, <1>7, <1>8
<1>10. s.records = <<>> => Got(yaml, first) = <<>>
  <2>1. s.records = <<>> => run.records = <<>> /\ Got(yaml, body) = <<>>
    BY <1>2, <1>3, <1>4, ConcatEmpty
  <2> QED BY <1>7, <2>1 DEF Live
<1>11. ASSUME Clear(site, yaml), Got(yaml, first) = <<>> PROVE s.records = <<>>
  <2>1. Got(yaml, body) = <<>>
    BY <1>11, ClearGets DEF TypeInv, Answer
  <2>2. run.records = <<>>
    BY <1>11 DEF Live
  <2> QED BY <1>4, <2>1, <2>2
<1>12. Live(site, yaml, s)
  BY <1>6, <1>9, <1>10, <1>11 DEF Live
<1> QED BY <1>12 DEF s

\* A change of the site, of the config or of what is seen of them unsettles
\* every request, and with it all that was foretold.
LEMMA UnsettledForetells ==
    ASSUME HealingInv, req' = Unsettled, steady' = FALSE,
           pc' = "other" => site'.other,
           job'.by = "rerun" => job'.id \in DOMAIN req
    PROVE  ForetellInv'
<1>1. \A i \in DOMAIN req : DOMAIN req[i] = ReqFields
  BY RowVetted DEF HealingInv, Vetted
<1>2. ASSUME NEW i \in DOMAIN req PROVE ~req'[i].steady
  <2>1. req'[i] = [req[i] EXCEPT !.steady = FALSE]
    BY DEF Unsettled
  <2> QED BY <1>1, <2>1 DEF ReqFields
<1>3. DOMAIN req' = DOMAIN req
  BY DEF Unsettled
<1>4. RowsForetold(site', yaml', req')
  BY <1>2, <1>3 DEF RowsForetold
<1>5. Verifying(site', yaml', job', req', steady')
  BY <1>2 DEF Verifying
<1> QED BY <1>4, <1>5 DEF ForetellInv

\* A row that is decided keeps what was foretold of it.
LEMMA DecidedForetold ==
    ASSUME HealingInv, NEW s, NEW cfg, NEW i \in DOMAIN req, NEW st, NEW r,
           r = Decided(req[i], st)
    PROVE  /\ r.status = st /\ r.steady = req[i].steady /\ r.verdict = req[i].verdict
           /\ r.alike = req[i].alike /\ r.outcome = req[i].outcome
           /\ Foretold(s, cfg, req[i]) => Foretold(s, cfg, r)
<1>1. DOMAIN req[i] = ReqFields
  BY RowVetted DEF HealingInv, Vetted
<1>2. r.status = st /\ r.steady = req[i].steady /\ r.verdict = req[i].verdict
      /\ r.alike = req[i].alike /\ r.outcome = req[i].outcome
  BY <1>1 DEF Decided, ReqFields
<1> QED BY <1>2 DEF Foretold

LEMMA DecidedRows ==
    ASSUME HealingInv, NEW s, NEW cfg, RowsForetold(s, cfg, req), NEW t, NEW st, st # "pending",
           DOMAIN t = DOMAIN req,
           \A i \in DOMAIN req : t[i] = req[i] \/ t[i] = Decided(req[i], st)
    PROVE  RowsForetold(s, cfg, t)
<1>1. ASSUME NEW i \in DOMAIN req, t[i].steady
      PROVE  Foretold(s, cfg, t[i]) /\ (t[i].status = "pending" => Measurement(s, cfg, t[i]))
  <2>1. CASE t[i] = req[i]
    BY <1>1, <2>1 DEF RowsForetold
  <2>2. CASE t[i] = Decided(req[i], st)
    <3>1. t[i].status = st /\ t[i].steady = req[i].steady
          /\ (Foretold(s, cfg, req[i]) => Foretold(s, cfg, t[i]))
      BY <2>2, DecidedForetold
    <3> QED BY <1>1, <3>1 DEF RowsForetold
  <2> QED BY <2>1, <2>2
<1> QED BY <1>1 DEF RowsForetold

-----------------------------------------------------------------------------
LEMMA OverForetells ==
    ASSUME HealingInv, TypeInv, ForetellInv, NEW from, NEW success, Over(from, success),
           UNCHANGED <<site, yaml, steady>>,
           RowsForetold(site, yaml, req'),
           job.by = "rerun" => req'[job.id] = req[job.id],
           steady /\ job.by = "rerun" => /\ Gets(site, yaml) => success
                                         /\ Clear(site, yaml) /\ ~Gets(site, yaml) => ~success
    PROVE  ForetellInv'
<1>1. CASE job.by = "rerun"
  <2> DEFINE j == [NoJob EXCEPT !.by = "rerun", !.id = job.id, !.backup = job.backup,
                                !.stored = success]
  <2>1. j.by = "rerun" /\ j.id = job.id /\ j.stored = success
    BY DEF NoJob
  <2>2. job' = j /\ pc' = "verify"
    BY <1>1 DEF Over, Step
  <2> HIDE DEF j
  <2>3. Verifying(site, yaml, j, req', steady)
    BY <1>1, <2>1 DEF ForetellInv, Verifying
  <2>4. steady => Counting(site, yaml, "verify", j, run')
    BY <1>1, <2>1 DEF Counting
  <2> QED BY <2>2, <2>3, <2>4 DEF ForetellInv
<1>2. CASE job.by # "rerun"
  <2>1. job' = NoJob /\ pc' = "idle" /\ NoJob.by = "none"
    BY <1>2 DEF Over, Step, NoJob
  <2>2. Verifying(site, yaml, NoJob, req', steady) /\ Counting(site, yaml, "idle", NoJob, run')
    BY <2>1 DEF Verifying, Counting
  <2> QED BY <2>1, <2>2 DEF ForetellInv
<1> QED BY <1>1, <1>2

LEMMA BeginForetells ==
    ASSUME ForetellInv, NEW by \in {"collect", "rerun"}, NEW id, BeginRun(by, id),
           site' = site, RowsForetold(site, yaml', req'),
           by = "rerun" /\ req'[id].steady /\ req'[id].alike =>
              /\ req'[id].verdict = "improved" => Gets(site, yaml')
              /\ Clear(site, yaml') /\ req'[id].verdict # "improved" => ~Gets(site, yaml')
    PROVE  ForetellInv'
<1> DEFINE j == [NoJob EXCEPT !.by = by, !.id = id,
                              !.backup = IF by = "rerun" THEN yaml ELSE Nothing]
<1>1. j.by = by /\ j.id = id /\ ~j.stored /\ ~j.failed /\ j.sample = Nothing
  BY DEF NoJob
<1>2. job' = j /\ pc' = "fetch" /\ run' = Begun /\ steady' = TRUE
  BY DEF BeginRun, Step
<1> HIDE DEF j
<1>3. Verifying(site, yaml', j, req', TRUE)
  BY <1>1 DEF Verifying
<1>4. Counting(site, yaml', "fetch", j, Begun)
  BY <1>1, LiveStart DEF Counting
<1> QED BY <1>2, <1>3, <1>4 DEF ForetellInv

LEMMA CollectForetells == ASSUME HealingInv, TypeInv, ForetellInv, Collect PROVE ForetellInv'
<1>1. PICK due : req' = [i \in DOMAIN req |-> IF i \in due THEN Decided(req[i], "expired")
                                                           ELSE req[i]]
  BY DEF Collect
<1>2. DOMAIN req' = DOMAIN req
      /\ \A i \in DOMAIN req : req'[i] = req[i] \/ req'[i] = Decided(req[i], "expired")
  BY <1>1
<1>3. RowsForetold(site, yaml, req')
  BY <1>2, DecidedRows DEF ForetellInv
<1>4. BeginRun("collect", 0) /\ yaml' = yaml /\ site' = site
  BY DEF Collect, world
<1> QED BY <1>3, <1>4, BeginForetells

\* The config that is written is the one the dry run has tried.
LEMMA ApproveForetells ==
    ASSUME HealingInv, TypeInv, ForetellInv, NEW id, Approve(id) PROVE ForetellInv'
<1>1. /\ id \in DOMAIN req /\ req[id].status = "pending" /\ BeginRun("rerun", id)
      /\ yaml' = Patched(yaml, req[id].changes).cfg /\ site' = site
  BY DEF Approve, Pending, world
<1>2. req' = [i \in DOMAIN req |-> IF i = id THEN Decided(req[i], "approved") ELSE Unsettled[i]]
  BY DEF Approve
<1>3. DOMAIN req' = DOMAIN req /\ req'[id] = Decided(req[id], "approved")
      /\ \A i \in DOMAIN req : i # id => req'[i] = Unsettled[i]
  BY <1>1, <1>2
<1>4. /\ req'[id].status = "approved" /\ req'[id].steady = req[id].steady
      /\ req'[id].verdict = req[id].verdict /\ req'[id].alike = req[id].alike
      /\ req'[id].outcome = req[id].outcome
  BY <1>1, <1>3, DecidedForetold
<1>5. ASSUME NEW i \in DOMAIN req, i # id PROVE ~req'[i].steady
  <2>1. req'[i] = [req[i] EXCEPT !.steady = FALSE] /\ DOMAIN req[i] = ReqFields
    BY <1>3, <1>5, RowVetted DEF Unsettled, HealingInv, Vetted
  <2> QED BY <2>1 DEF ReqFields
<1>6. /\ req[id].steady => Foretold(site, yaml, req[id]) /\ Measurement(site, yaml, req[id])
      /\ req[id].outcome = "none"
  BY <1>1, TableLen DEF ForetellInv, RowsForetold, TypeInv, RowOK
<1>7. RowsForetold(site, yaml', req')
  BY <1>3, <1>4, <1>5, <1>6 DEF RowsForetold, Foretold
<1>8. req'[id].steady /\ req'[id].alike =>
        /\ req'[id].verdict = "improved" => Gets(site, yaml')
        /\ Clear(site, yaml') /\ req'[id].verdict # "improved" => ~Gets(site, yaml')
  BY <1>1, <1>4, <1>6 DEF Measurement
<1> QED BY <1>1, <1>7, <1>8, BeginForetells

LEMMA RedesignForetells == ASSUME HealingInv, TypeInv, ForetellInv, Redesign PROVE ForetellInv'
<1>1. req' = Unsettled /\ steady' = FALSE /\ UNCHANGED <<pc, job>> /\ site'.other = site.other
  BY DEF Redesign
<1>2. job.by = "rerun" => job.id \in DOMAIN req
  BY DEF TypeInv, Holds
<1> QED BY <1>1, <1>2, UnsettledForetells DEF ForetellInv

LEMMA FetchForetells == ASSUME HealingInv, TypeInv, ForetellInv, Fetch PROVE ForetellInv'
<1>1. /\ pc = "fetch" /\ pc' = "fetch" /\ More(yaml, run) /\ UNCHANGED <<site, yaml, job>>
  BY DEF Fetch, Step, world
<1>2. CASE run' = OnAnswer(yaml, run, Answer) /\ UNCHANGED <<req, steady>>
  <2>1. ASSUME steady PROVE Counting(site, yaml, "fetch", job, run')
    <3>1. ~job.stored /\ ~job.failed /\ job.sample = Nothing /\ Live(site, yaml, run)
      BY <1>1, <2>1 DEF ForetellInv, Counting
    <3>2. Live(site, yaml, run')
      BY <1>1, <1>2, <3>1, LiveTurn
    <3> QED BY <3>1, <3>2 DEF Counting
  <2> QED BY <1>1, <1>2, <2>1 DEF ForetellInv
<1>3. CASE req' = Unsettled /\ steady' = FALSE
  <2>1. job.by = "rerun" => job.id \in DOMAIN req
    BY DEF TypeInv, Holds
  <2> QED BY <1>1, <1>3, <2>1, UnsettledForetells
<1> QED BY <1>2, <1>3 DEF Fetch

\* A collector that is passed over gets nothing.
LEMMA SkipForetells == ASSUME ForetellInv, Skip PROVE ForetellInv'
<1> DEFINE p == IF site.other THEN "other" ELSE "close"
<1>1. /\ pc = "fetch" /\ pc' = p /\ ~ForPostings
      /\ UNCHANGED <<site, yaml, req, run, job, steady>>
  BY DEF Skip, Step, AfterFirst, world
<1>2. steady => Counting(site, yaml, p, job, run)
  BY <1>1 DEF ForetellInv, Counting, Gets, ForPostings
<1> QED BY <1>1, <1>2 DEF ForetellInv

\* The collector has stored something exactly if the first answer had it.
LEMMA StoreForetells ==
    ASSUME HealingInv, TypeInv, UsableAlone, ForetellInv, Store PROVE ForetellInv'
<1> DEFINE codes == run.issues \cup Validate(yaml, run.records, Cardinality(posts))
           found == run.records # <<>>
           p == IF site.other THEN "other" ELSE "close"
<1>1. /\ pc = "fetch" /\ pc' = p /\ UNCHANGED <<site, yaml, req, run, steady>>
      /\ job' = [Counted(found, codes, posts' # posts) EXCEPT !.sample = run.sample]
      /\ ~More(yaml, run) /\ Purpose(yaml) = "postings"
  BY DEF Store, Step, AfterFirst, ForPostings, world
<1> HIDE DEF codes, found
<1>2. /\ job'.by = job.by /\ job'.id = job.id /\ job'.sample = run.sample
      /\ job'.stored = (job.stored \/ found)
      /\ job'.failed = (job.failed \/ (~found /\ codes # {}))
  BY <1>1 DEF Counted, HealingInv, JobOK, JobFields
<1>3. ASSUME steady PROVE Counting(site, yaml, p, job', run)
  <2>1. ~job.stored /\ ~job.failed /\ Live(site, yaml, run)
    BY <1>1, <1>3 DEF ForetellInv, Counting
  <2>2. Turns(yaml) => run # Begun
    BY <1>1 DEF Turns, More, Begun
  <2>3. Gets(site, yaml) => found
    BY <2>1, <2>2 DEF Gets, Live, found
  <2>4. Clear(site, yaml) /\ ~Gets(site, yaml) => ~found
    <3>1. Begun.records = <<>>
      BY DEF Begun
    <3>2. Clear(site, yaml) /\ ~Turns(yaml) => run = Begun
      BY DEF UsableAlone, UsableInv, Clear
    <3> QED BY <1>1, <2>1, <3>1, <3>2 DEF Gets, Live, found
  <2>5. job'.sample = Nothing \/ Known(site, yaml, job'.sample)
    <3>1. Begun.sample = Nothing
      BY DEF Begun
    <3> QED BY <1>1, <1>2, <2>1, <3>1 DEF Live, Known
  <2> QED BY <1>2, <2>1, <2>3, <2>4, <2>5 DEF Counting
<1>4. Verifying(site, yaml, job', req, steady)
  BY <1>2 DEF ForetellInv, Verifying
<1> QED BY <1>1, <1>3, <1>4 DEF ForetellInv

LEMMA OtherForetells == ASSUME HealingInv, TypeInv, ForetellInv, Other PROVE ForetellInv'
<1>1. PICK r \in OtherResults :
        job' = [Counted(r.records, r.issues, r.records) EXCEPT
                  !.sample = IF "fetch_failed" \in r.issues THEN @ ELSE OtherBody]
  BY DEF Other
<1>2. /\ pc = "other" /\ pc' = "close" /\ UNCHANGED <<site, yaml, req, run, steady>>
      /\ site.other
  BY DEF Other, Step, world, ForetellInv
<1>3. /\ job'.by = job.by /\ job'.id = job.id /\ job'.sample \in {job.sample, OtherBody}
      /\ job.stored => job'.stored
  BY <1>1 DEF Counted, HealingInv, JobOK, JobFields
<1>4. steady => Counting(site, yaml, "close", job', run)
  BY <1>2, <1>3 DEF ForetellInv, Counting, Clear, Known
<1>5. Verifying(site, yaml, job', req, steady)
  BY <1>3 DEF ForetellInv, Verifying
<1> QED BY <1>2, <1>4, <1>5 DEF ForetellInv

LEMMA RaiseForetells == ASSUME HealingInv, TypeInv, ForetellInv, Raise PROVE ForetellInv'
<1>1. UNCHANGED <<site, yaml>>
  BY DEF Raise, world
<1>2. CASE Over("fetch", FALSE) /\ run.raised /\ UNCHANGED <<req, steady>>
  <2>1. pc = "fetch"
    BY <1>2 DEF Over, Step
  <2>2. steady => ~Gets(site, yaml)
    BY <1>2, <2>1 DEF ForetellInv, Counting, Live, Gets
  <2> QED BY <1>1, <1>2, <2>2, OverForetells DEF ForetellInv
<1>3. CASE Over("other", FALSE) /\ req' = Unsettled /\ steady' = FALSE
  <2>1. pc' # "other" /\ (job'.by = "rerun" => job'.id = job.id /\ job.by = "rerun")
    <3>1. CASE job.by = "rerun"
      <4> DEFINE j == [NoJob EXCEPT !.by = "rerun", !.id = job.id, !.backup = job.backup,
                                    !.stored = FALSE]
      <4>1. j.id = job.id
        BY DEF NoJob
      <4>2. job' = j /\ pc' = "verify"
        BY <1>3, <3>1 DEF Over, Step
      <4> HIDE DEF j
      <4> QED BY <3>1, <4>1, <4>2
    <3>2. CASE job.by # "rerun"
      <4>1. job' = NoJob /\ pc' = "idle" /\ NoJob.by = "none"
        BY <1>3, <3>2 DEF Over, Step, NoJob
      <4> QED BY <4>1
    <3> QED BY <3>1, <3>2
  <2>2. job.by = "rerun" => job.id \in DOMAIN req
    BY DEF TypeInv, Holds
  <2> QED BY <1>3, <2>1, <2>2, UnsettledForetells
<1> QED BY <1>2, <1>3 DEF Raise

LEMMA CloseForetells == ASSUME HealingInv, TypeInv, ForetellInv, Close PROVE ForetellInv'
<1>1. UNCHANGED <<site, yaml, req, steady>>
  BY DEF Close, world
<1>2. CASE Over("close", job.stored)
  <2>1. pc = "close"
    BY <1>2 DEF Over, Step
  <2>2. steady /\ job.by = "rerun" => /\ Gets(site, yaml) => job.stored
                                      /\ Clear(site, yaml) /\ ~Gets(site, yaml) => ~job.stored
    BY <2>1 DEF ForetellInv, Counting
  <2>3. RowsForetold(site, yaml, req')
    BY <1>1 DEF ForetellInv
  <2> QED BY <1>1, <1>2, <2>2, <2>3, OverForetells
<1>3. CASE /\ HealingAllowed
           /\ Step("close", "llm")
           /\ job' = [job EXCEPT !.run = Len(req) + 1]
  <2>1. /\ pc = "close" /\ pc' = "llm" /\ job.failed /\ job.sample # Nothing
        /\ job'.by = job.by /\ job'.id = job.id /\ job'.stored = job.stored
        /\ job'.sample = job.sample
    BY <1>3 DEF HealingInv, JobOK, JobFields, Step, HealingAllowed
  <2>2. steady => Counting(site, yaml, "llm", job', run')
    BY <2>1 DEF ForetellInv, Counting
  <2>3. Verifying(site, yaml, job', req, steady)
    BY <2>1 DEF ForetellInv, Verifying
  <2> QED BY <1>1, <2>1, <2>2, <2>3 DEF ForetellInv
<1> QED BY <1>2, <1>3 DEF Close

LEMMA ProposalForetells ==
    ASSUME HealingInv, TypeInv, ForetellInv, Propose \/ AskAgain PROVE ForetellInv'
<1>1. UNCHANGED <<site, yaml, req, run, steady>> /\ pc = "llm" /\ pc' \in {"llm", "dry_run"}
  BY DEF Propose, AskAgain, Step, world, table
<1>2. /\ job'.by = job.by /\ job'.id = job.id /\ job'.stored = job.stored
      /\ job'.sample = job.sample
  BY DEF HealingInv, JobOK, JobFields, Propose, AskAgain
<1>3. steady => Counting(site, yaml, pc', job', run)
  BY <1>1, <1>2 DEF ForetellInv, Counting
<1>4. Verifying(site, yaml, job', req, steady)
  BY <1>2 DEF ForetellInv, Verifying
<1> QED BY <1>1, <1>3, <1>4 DEF ForetellInv

LEMMA LlmFailsForetells == ASSUME HealingInv, TypeInv, ForetellInv, LlmFails PROVE ForetellInv'
<1>1. UNCHANGED <<site, yaml, req, steady>> /\ Over("llm", job.stored)
  BY DEF LlmFails, world, table
<1>2. pc = "llm"
  BY <1>1 DEF Over, Step
<1>3. steady /\ job.by = "rerun" => /\ Gets(site, yaml) => job.stored
                                    /\ Clear(site, yaml) /\ ~Gets(site, yaml) => ~job.stored
  BY <1>2 DEF ForetellInv, Counting
<1>4. RowsForetold(site, yaml, req')
  BY <1>1 DEF ForetellInv
<1> QED BY <1>1, <1>3, <1>4, OverForetells

\* A request holds what its dry run has measured on a sample of the site.
LEMMA RequestForetold ==
    ASSUME HealingInv, ForetellInv, pc = "dry_run", TypeInv,
           NEW verdict, verdict = RunDryRun(yaml, job.candidate.changes, job.sample),
           verdict \notin {"raised", "patch_invalid", "patch_apply_failed"}, steady
    PROVE  Foretold(site, yaml, Request(verdict)) /\ Measurement(site, yaml, Request(verdict))
<1> DEFINE changes == job.candidate.changes
           sample == job.sample
           patched == Patched(yaml, changes)
           new == patched.cfg
           r == Request(verdict)
<1>1. Known(site, yaml, sample) /\ (~site.other => ~Gets(site, yaml)) /\ site \in Sites
  BY DEF ForetellInv, Counting, TypeInv
<1>2. MaxPages(yaml) \in Int
  BY DEF HealingInv, Valid
<1>3. /\ sample.items \in Seq(Items)
      /\ ~site.other => Replay(yaml, sample).records = <<>>
  BY <1>1, <1>2, ReplayKnown
<1>4. /\ patched.ok /\ Valid(new)
      /\ verdict = "improved" => Replay(new, sample).records # <<>>
      /\ Replay(yaml, sample).records = <<>> => verdict # "regressed"
      /\ Replay(yaml, sample).records = <<>> /\ verdict # "improved"
           => Replay(new, sample).records = <<>>
  BY <1>2, <1>3, VerdictFacts
<1>5. MaxPages(new) \in Int
  BY <1>4 DEF Valid
<1>6. Unseen(new) = Unseen(yaml) =>
        /\ Replay(new, sample).records # <<>> => Gets(site, new)
        /\ Clear(site, new) /\ Gets(site, new) => Replay(new, sample).records # <<>>
  BY <1>1, <1>5, ReplayKnown
<1>7. /\ r.verdict = verdict /\ r.outcome = "none" /\ r.changes = changes /\ r.sample = sample
      /\ r.alike = (Unseen(new) = Unseen(yaml))
  BY DEF Request
<1>8. Clear(site, new) => ~site.other
  BY DEF Clear
<1> HIDE DEF changes, sample, patched, new, r
<1>9. Foretold(site, yaml, r)
  BY <1>3, <1>4, <1>7 DEF Foretold
<1>10. Measurement(site, yaml, r)
  BY <1>1, <1>3, <1>4, <1>6, <1>7, <1>8 DEF Measurement, patched, new
<1> QED BY <1>9, <1>10 DEF r

LEMMA ReplacedForetold ==
    ASSUME HealingInv, TypeInv, pc = "dry_run", NEW s, NEW cfg, RowsForetold(s, cfg, req)
    PROVE  RowsForetold(s, cfg, Replaced)
<1>1. CASE job.by = "regenerate"
  <2> DEFINE r == Decided(req[job.id], "superseded")
  <2>1. job.id \in DOMAIN req
    BY <1>1 DEF TypeInv, Holds
  <2>2. Replaced = [req EXCEPT ![job.id] = r]
    BY <1>1 DEF Replaced
  <2> HIDE DEF r
  <2>3. DOMAIN Replaced = DOMAIN req
        /\ \A i \in DOMAIN req : Replaced[i] = IF i = job.id THEN r ELSE req[i]
    BY <2>2
  <2>4. \A i \in DOMAIN req : Replaced[i] = req[i] \/ Replaced[i] = Decided(req[i], "superseded")
    BY <2>3 DEF r
  <2> QED BY <2>3, <2>4, DecidedRows
<1>2. CASE job.by # "regenerate"
  BY <1>2 DEF Replaced
<1> QED BY <1>1, <1>2

LEMMA TryCandidateForetells ==
    ASSUME HealingInv, TypeInv, ForetellInv, TryCandidate PROVE ForetellInv'
<1> DEFINE changes == job.candidate.changes
           verdict == RunDryRun(yaml, changes, job.sample)
<1>1. Over("dry_run", job.stored) /\ UNCHANGED <<site, yaml, steady>>
  BY DEF TryCandidate, world
<1>2. pc = "dry_run"
  BY <1>1, OverOK
<1>3. steady /\ job.by = "rerun" => /\ Gets(site, yaml) => job.stored
                                    /\ Clear(site, yaml) /\ ~Gets(site, yaml) => ~job.stored
  BY <1>2 DEF ForetellInv, Counting
<1>4. /\ RowsForetold(site, yaml, req) /\ RowsForetold(site, yaml, Replaced)
      /\ job.by = "rerun" => Replaced = req /\ job.id \in DOMAIN req
  BY <1>2, ReplacedForetold, ReplacedTypes DEF ForetellInv, TypeInv, Holds
<1>5. CASE \/ changes = <<>>
           \/ verdict \in {"raised", "patch_invalid", "patch_apply_failed"}
  <2>1. req' = Replaced \/ req' = req
    BY <1>5 DEF TryCandidate
  <2>2. RowsForetold(site, yaml, req') /\ (job.by = "rerun" => req'[job.id] = req[job.id])
    BY <1>4, <2>1
  <2> QED BY <1>1, <1>3, <2>2, OverForetells
<1>6. CASE /\ changes # <<>>
           /\ verdict \notin {"raised", "patch_invalid", "patch_apply_failed"}
  <2>1. req' = Append(Replaced, Request(verdict))
    BY <1>6 DEF TryCandidate
  <2> DEFINE r == Request(verdict)
  <2>2. steady => Foretold(site, yaml, r) /\ Measurement(site, yaml, r)
    BY <1>2, <1>6, RequestForetold
  <2>3. r.steady = steady
    BY DEF Request
  <2>4. TableOK(Replaced) /\ Len(Replaced) < MaxRequest /\ DOMAIN Replaced = DOMAIN req
        /\ \A i \in DOMAIN Replaced : Replaced[i].status # "pending"
    BY <1>2, ReplacedTypes, TableMoves DEF TypeInv, Holds, Moves
  <2>5. RowOK(r)
    BY <1>2, RequestType DEF r
  <2> HIDE DEF verdict, changes, r
  <2>6. /\ \A i \in DOMAIN Replaced : req'[i] = Replaced[i]
        /\ \A i \in DOMAIN req' : i \in DOMAIN Replaced \/ req'[i] = r
    BY <2>1, <2>4, <2>5, AppendTypes DEF r
  <2>7. RowsForetold(site, yaml, req')
    BY <1>4, <2>2, <2>3, <2>6 DEF RowsForetold
  <2>8. job.by = "rerun" => req'[job.id] = req[job.id]
    BY <1>4, <2>4, <2>6
  <2> QED BY <1>1, <1>3, <2>7, <2>8, OverForetells
<1> QED BY <1>5, <1>6

-----------------------------------------------------------------------------
\* A decision about one row leaves what is foretold of the others.
LEMMA RowForetells ==
    ASSUME NEW cfg, RowsForetold(site, cfg, req), NEW id, NEW r, r.status # "pending",
           r.steady => Foretold(site, cfg, r), NEW t,
           DOMAIN t = DOMAIN req,
           \A i \in DOMAIN req : t[i] = IF i = id THEN r ELSE req[i]
    PROVE  RowsForetold(site, cfg, t)
BY DEF RowsForetold

LEMMA RejectForetells ==
    ASSUME HealingInv, TypeInv, ForetellInv, NEW id, Reject(id) PROVE ForetellInv'
<1>1. /\ UNCHANGED <<site, yaml, pc, run, job, steady>> /\ pc = "idle"
      /\ req' = [req EXCEPT ![id] = Decided(@, "rejected")]
  BY DEF Reject, world
<1>2. DOMAIN req' = DOMAIN req
      /\ \A i \in DOMAIN req : req'[i] = req[i] \/ req'[i] = Decided(req[i], "rejected")
  BY <1>1
<1>3. RowsForetold(site, yaml, req')
  BY <1>2, DecidedRows DEF ForetellInv
<1>4. job.by # "rerun"
  BY <1>1 DEF TypeInv, Holds
<1> QED BY <1>1, <1>3, <1>4 DEF ForetellInv, Verifying

\* What the dry run could apply, to the same config, the approval can apply.
LEMMA ApproveUnfitForetells ==
    ASSUME HealingInv, TypeInv, ForetellInv, NEW id, ApproveUnfit(id) PROVE ForetellInv'
<1> DEFINE q == Decided(req[id], "approved")
           r == [q EXCEPT !.outcome = "apply_failed"]
<1>1. /\ UNCHANGED <<site, yaml, pc, run, job, steady>> /\ pc = "idle"
      /\ req' = [req EXCEPT ![id] = r]
      /\ id \in DOMAIN req /\ req[id].status = "pending" /\ ~Applies(id)
  BY DEF ApproveUnfit, world, Pending
<1>2. ~req[id].steady
  BY <1>1 DEF Applies, ForetellInv, RowsForetold, Measurement
<1>3. q.status = "approved" /\ q.steady = req[id].steady /\ DOMAIN q = ReqFields
  BY <1>1, DecidedForetold, DecidedStatus
<1> HIDE DEF q
<1>4. r.status = "approved" /\ ~r.steady
  BY <1>2, <1>3 DEF ReqFields
<1> HIDE DEF r
<1>5. DOMAIN req' = DOMAIN req
      /\ \A i \in DOMAIN req : req'[i] = IF i = id THEN r ELSE req[i]
  BY <1>1
<1>6. RowsForetold(site, yaml, req')
  BY <1>4, <1>5, RowForetells DEF ForetellInv
<1>7. job.by # "rerun"
  BY <1>1 DEF TypeInv, Holds
<1> QED BY <1>1, <1>6, <1>7 DEF ForetellInv, Verifying

\* The rerun has stored records exactly as the dry run has foretold.
LEMMA VerifiedForetells ==
    ASSUME HealingInv, TypeInv, ForetellInv, Keep \/ Rollback PROVE ForetellInv'
<1> DEFINE id == job.id
           Out(out) == [req[id] EXCEPT !.outcome = out]
<1>1. /\ pc = "verify" /\ pc' = "idle" /\ job'.by # "rerun" /\ UNCHANGED <<site, steady>>
  BY DEF Keep, Rollback, Step, NoJob, world
<1>2. job.by = "rerun" /\ id \in DOMAIN req /\ req[id].status = "approved"
  BY <1>1 DEF HealingInv, JobOK, TypeInv, Holds
<1>3. DOMAIN req[id] = ReqFields
  BY <1>2, RowVetted DEF HealingInv, Vetted
<1>4. \A out : /\ Out(out).status = "approved" /\ Out(out).steady = req[id].steady
               /\ Out(out).verdict = req[id].verdict /\ Out(out).outcome = out
               /\ Out(out).alike = req[id].alike
  BY <1>2, <1>3 DEF ReqFields
<1> HIDE DEF Out
<1>5. req[id].steady =>
        /\ Foretold(site, yaml, req[id])
        /\ req[id].alike => /\ req[id].verdict = "improved" => job.stored
                            /\ Clear(site, yaml) /\ req[id].verdict # "improved" => ~job.stored
  BY <1>1, <1>2 DEF ForetellInv, RowsForetold, Verifying, Counting
<1>6. RowsForetold(site, yaml', req')
  <2>1. CASE Keep
    <3>1. req' = [req EXCEPT ![id] = Out("kept")] /\ yaml' = yaml /\ job.stored
      BY <2>1 DEF Keep, Out
    <3>2. DOMAIN req' = DOMAIN req
          /\ \A i \in DOMAIN req : req'[i] = IF i = id THEN Out("kept") ELSE req[i]
      BY <3>1
    <3>3. Out("kept").steady => Foretold(site, yaml, Out("kept"))
      BY <1>4, <1>5, <3>1 DEF Foretold
    <3> QED BY <1>4, <3>1, <3>2, <3>3, RowForetells DEF ForetellInv
  <2>2. CASE Rollback
    <3>1. req' = [i \in DOMAIN req |-> IF i = id THEN [req[i] EXCEPT !.outcome = "rolled_back"]
                                               ELSE Unsettled[i]] /\ ~job.stored
      BY <2>2 DEF Rollback
    <3>2. DOMAIN req' = DOMAIN req /\ req'[id] = Out("rolled_back")
          /\ \A i \in DOMAIN req : i # id => req'[i] = Unsettled[i]
      BY <1>2, <3>1 DEF Out
    <3>3. ASSUME NEW i \in DOMAIN req, i # id PROVE ~req'[i].steady
      <4>1. req'[i] = [req[i] EXCEPT !.steady = FALSE] /\ DOMAIN req[i] = ReqFields
        BY <3>2, <3>3, RowVetted DEF Unsettled, HealingInv, Vetted
      <4> QED BY <4>1 DEF ReqFields
    <3>4. Out("rolled_back").steady => Foretold(site, yaml', Out("rolled_back"))
      BY <1>4, <1>5, <3>1 DEF Foretold
    <3> HIDE DEF id
    <3> QED BY <1>4, <3>2, <3>3, <3>4 DEF RowsForetold
  <2> QED BY <2>1, <2>2
<1> QED BY <1>1, <1>6 DEF ForetellInv, Verifying, Counting

LEMMA RegenerateForetells ==
    ASSUME HealingInv, TypeInv, ForetellInv, NEW id, Regenerate(id) PROVE ForetellInv'
<1>1. /\ id \in DOMAIN req /\ req[id].status = "pending" /\ pc' = "llm"
      /\ UNCHANGED <<site, yaml, req, run>> /\ steady' = req[id].steady
      /\ job'.by = "regenerate" /\ job'.sample = req[id].sample
  BY DEF Regenerate, Step, Pending, NoJob, world, table
<1>2. steady' => Counting(site, yaml, "llm", job', run)
  BY <1>1 DEF ForetellInv, RowsForetold, Measurement, Counting
<1> QED BY <1>1, <1>2 DEF ForetellInv, Verifying

LEMMA ForetellInit == Init => ForetellInv
<1> SUFFICES ASSUME Init PROVE ForetellInv
  OBVIOUS
<1>1. req = <<>> /\ pc = "idle" /\ job = NoJob /\ ~steady
  BY DEF Init
<1>2. DOMAIN req = {} /\ job.by = "none"
  BY <1>1 DEF NoJob
<1> QED BY <1>1, <1>2 DEF ForetellInv, RowsForetold, Verifying

LEMMA ForetellNext ==
    HealingInv /\ TypeInv /\ UsableAlone /\ ForetellInv /\ [Next]_vars => ForetellInv'
<1> SUFFICES ASSUME HealingInv, TypeInv, UsableAlone, ForetellInv, [Next]_vars
             PROVE  ForetellInv'
  OBVIOUS
<1>1. CASE Proceed
  BY <1>1, SkipForetells, FetchForetells, StoreForetells, OtherForetells, RaiseForetells, CloseForetells,
     ProposalForetells, LlmFailsForetells, TryCandidateForetells, VerifiedForetells DEF Proceed
<1>2. CASE Command
  BY <1>2, CollectForetells, ApproveForetells, ApproveUnfitForetells, RejectForetells,
     RegenerateForetells DEF Command
<1>3. CASE Redesign
  BY <1>3, RedesignForetells
<1>4. CASE UNCHANGED vars
  BY <1>4 DEF vars, ForetellInv
<1> QED BY <1>1, <1>2, <1>3, <1>4 DEF Next

LEMMA ForetellInvariant == Spec => []ForetellInv
<1>1. Init => UsableAlone
  BY UsableInit DEF UsableAlone
<1> QED BY <1>1, UsableNext, ForetellInit, ForetellNext, HealingInvariant, TypeInvariant,
           PTL DEF Spec

\* As long as the site answers as it did when the run failed and the config is
\* the one the candidate was tried on, an approved patch can be applied, and if it
\* asks the site for what was asked before, it turns out as the dry run has told
\* the operator (healing/dry_run.py, runner/healing_flow.py).  The condition is
\* needed: the dry run ignores what the site is asked for.
THEOREM DryRunTrusted == Spec => []DryRunForetells
<1>1. First(yaml) = FirstOf(site, yaml)
  BY DEF First, FirstOf
<1>2. ForetellInv => DryRunForetells
  BY <1>1 DEF ForetellInv, RowsForetold, Foretold, DryRunForetells, Clear
<1> QED BY <1>2, ForetellInvariant, PTL

-----------------------------------------------------------------------------
(* The page loop lists the site: after each page its records are those of  *)
(* the places up to it, each at the index that counts the places before.   *)

Before(pages, n) == {p \in Places(pages) : p[1] <= n}

LEMMA PlaceAt ==
    ASSUME NEW pages
    PROVE  /\ \A n, i : <<n, i>> \in Places(pages) <=>
                 n \in DOMAIN pages /\ i \in DOMAIN pages[n] /\ pages[n][i].id # Nothing
           /\ \A p \in Places(pages) : p = <<p[1], p[2]>>
<1>1. ASSUME NEW p \in Places(pages)
      PROVE  \E n \in DOMAIN pages : \E i \in DOMAIN pages[n] :
                p = <<n, i>> /\ pages[n][i].id # Nothing
  BY DEF Places
<1>2. ASSUME NEW n \in DOMAIN pages, NEW i \in DOMAIN pages[n], pages[n][i].id # Nothing
      PROVE  <<n, i>> \in Places(pages)
  BY <1>2 DEF Places
<1>3. \A p \in Places(pages) : p = <<p[1], p[2]>>
  BY <1>1
<1>4. ASSUME NEW n, NEW i, <<n, i>> \in Places(pages)
      PROVE  n \in DOMAIN pages /\ i \in DOMAIN pages[n] /\ pages[n][i].id # Nothing
  BY <1>1, <1>4
<1> QED BY <1>2, <1>3, <1>4

\* One more page: its identified items come after all that were there before.
Adds(pages, n, found, N, B) ==
    /\ Before(pages, n) = B \cup ({n} \X Chosen(found, N))
    /\ IsFiniteSet(Before(pages, n))
    /\ Cardinality(Before(pages, n)) = Cardinality(B) + Cardinality(Chosen(found, N))
    /\ \A i \in Chosen(found, N) :
          Cardinality(UpTo(pages, <<n, i>>)) = Cardinality(B) + Cardinality(Chosen(found, i))
    /\ \A p \in B : Cardinality(UpTo(pages, p)) \in 1..Cardinality(B)
    /\ Cardinality(B) \in Nat

LEMMA PageCount ==
    ASSUME NEW pages \in Seq(Seq(Items)), NEW n \in DOMAIN pages, NEW N \in Nat,
           DOMAIN pages[n] = 1..N, NEW found,
           \A i \in 1..N : found[i].external_id = pages[n][i].id,
           NEW B, B = Before(pages, n - 1), IsFiniteSet(B)
    PROVE  Adds(pages, n, found, N, B)
<1> DEFINE Row(m) == {n} \X Chosen(found, m)
<1>1. DOMAIN pages \subseteq Nat /\ n \in Nat
  OBVIOUS
<1>2. \A i : i \in Chosen(found, N) <=> <<n, i>> \in Places(pages)
  <2>1. ASSUME NEW i
        PROVE  <<n, i>> \in Places(pages) <=> i \in 1..N /\ pages[n][i].id # Nothing
    BY PlaceAt
  <2>2. ASSUME NEW i
        PROVE  i \in Chosen(found, N) <=> i \in 1..N /\ pages[n][i].id # Nothing
    BY DEF Chosen, Identified
  <2> QED BY <2>1, <2>2
<1>3. \A p \in Places(pages) : p[1] \in Nat /\ p = <<p[1], p[2]>> /\ (p[1] = n => p[2] \in 1..N)
  BY <1>1, PlaceAt
<1>4. ASSUME NEW m \in 0..N
      PROVE  /\ IsFiniteSet(Row(m)) /\ Cardinality(Row(m)) = Cardinality(Chosen(found, m))
             /\ IsFiniteSet(B \cup Row(m))
             /\ Cardinality(B \cup Row(m)) = Cardinality(B) + Cardinality(Chosen(found, m))
             /\ Cardinality(B) \in Nat
  <2>1. IsFiniteSet(Chosen(found, m)) /\ Cardinality(Chosen(found, m)) \in Nat
    BY ChosenFinite
  <2>2. IsFiniteSet({n}) /\ Cardinality({n}) = 1
    BY FS_Singleton
  <2>3. IsFiniteSet(Row(m)) /\ Cardinality(Row(m)) = 1 * Cardinality(Chosen(found, m))
    BY <2>1, <2>2, FS_Product
  <2>4. Cardinality(Row(m)) = Cardinality(Chosen(found, m))
    BY <2>1, <2>3
  <2>5. B \cap Row(m) = {}
    BY <1>1 DEF Before
  <2> HIDE DEF Row
  <2>6. /\ IsFiniteSet(B \cup Row(m))
        /\ Cardinality(B \cup Row(m)) =
             Cardinality(B) + Cardinality(Row(m)) - Cardinality(B \cap Row(m))
    BY <2>3, FS_Union
  <2>7. Cardinality(B \cap Row(m)) = 0 /\ Cardinality(B) \in Nat
    BY <2>5, FS_EmptySet, FS_CardinalityType
  <2> QED BY <2>1, <2>3, <2>4, <2>6, <2>7
<1>5. Before(pages, n) = B \cup Row(N)
  <2>1. ASSUME NEW p \in Before(pages, n) PROVE p \in B \cup Row(N)
    BY <1>1, <1>2, <1>3, <2>1 DEF Before
  <2>2. ASSUME NEW p \in B \cup Row(N) PROVE p \in Before(pages, n)
    BY <1>1, <1>2, <1>3, <2>2 DEF Before
  <2> QED BY <2>1, <2>2
<1>6. ASSUME NEW i \in Chosen(found, N)
      PROVE  Cardinality(UpTo(pages, <<n, i>>)) = Cardinality(B) + Cardinality(Chosen(found, i))
  <2>1. i \in 0..N /\ Chosen(found, i) = {j \in Chosen(found, N) : j <= i}
    BY DEF Chosen
  <2>2. ASSUME NEW q \in UpTo(pages, <<n, i>>) PROVE q \in B \cup Row(i)
    BY <1>1, <1>2, <1>3, <2>1 DEF Before, UpTo
  <2>3. ASSUME NEW q \in B \cup Row(i) PROVE q \in UpTo(pages, <<n, i>>)
    BY <1>1, <1>2, <1>3, <2>1 DEF Before, UpTo
  <2>4. UpTo(pages, <<n, i>>) = B \cup Row(i)
    BY <2>2, <2>3
  <2> QED BY <1>4, <2>1, <2>4
<1>7. ASSUME NEW p \in B PROVE Cardinality(UpTo(pages, p)) \in 1..Cardinality(B)
  <2>1. p \in UpTo(pages, p) /\ UpTo(pages, p) \in SUBSET B
    <3>1. p \in Places(pages) /\ p[1] \in Nat /\ p[1] <= n - 1
      BY <1>3 DEF Before
    <3>2. p[2] \in Nat
      BY <3>1, PlaceAt, <1>1
    <3> QED BY <1>1, <1>3, <3>1, <3>2 DEF Before, UpTo
  <2>2. IsFiniteSet(UpTo(pages, p)) /\ Cardinality(UpTo(pages, p)) <= Cardinality(B)
    BY <2>1, FS_Subset
  <2>3. Cardinality(UpTo(pages, p)) \in Nat /\ Cardinality(UpTo(pages, p)) # 0
    BY <2>1, <2>2, FS_CardinalityType, FS_EmptySet
  <2> QED BY <1>4, <2>2, <2>3
<1>8. /\ IsFiniteSet(B \cup Row(N)) /\ Cardinality(B) \in Nat
      /\ Cardinality(B \cup Row(N)) = Cardinality(B) + Cardinality(Chosen(found, N))
  <2>1. N \in 0..N
    OBVIOUS
  <2> HIDE DEF Row
  <2> QED BY <1>4, <2>1
<1>9. Before(pages, n) = B \cup ({n} \X Chosen(found, N))
  BY <1>5
<1> HIDE DEF Row
<1> QED BY <1>5, <1>6, <1>7, <1>8, <1>9 DEF Adds

Lists(pages, n, records) ==
    /\ IsFiniteSet(Before(pages, n))
    /\ Len(records) = Cardinality(Before(pages, n))
    /\ \A p \in Before(pages, n) :
          records[Cardinality(UpTo(pages, p))].external_id = pages[p[1]][p[2]].id

LEMMA ListStart == ASSUME NEW pages \in Seq(Seq(Items)) PROVE Lists(pages, 0, <<>>)
<1>1. Before(pages, 0) = {}
  <2>1. \A p \in Places(pages) : p[1] \in DOMAIN pages
    BY PlaceAt
  <2> QED BY <2>1 DEF Before
<1>2. IsFiniteSet({}) /\ Cardinality({}) = 0 /\ Len(<<>>) = 0
  BY FS_EmptySet
<1> QED BY <1>1, <1>2 DEF Lists

LEMMA ListPage ==
    ASSUME NEW pages \in Seq(Seq(Items)), NEW n \in DOMAIN pages,
           NEW r \in Seq(Postings), Lists(pages, n - 1, r),
           NEW found \in Seq(Postings), DOMAIN found = DOMAIN pages[n],
           \A i \in DOMAIN found : found[i].external_id = pages[n][i].id
    PROVE  Lists(pages, n, r \o Records(found))
<1> DEFINE N == Len(found)
           B == Before(pages, n - 1)
           t == Records(found)
           s == r \o t
           Count(p) == Cardinality(UpTo(pages, p))
<1>1. N \in Nat /\ DOMAIN found = 1..N /\ (\A i \in 1..N : found[i] \in Postings)
  OBVIOUS
<1>2. /\ t \in Seq(Postings) /\ Len(t) = Cardinality(Chosen(found, N))
      /\ \A j \in Chosen(found, N) : t[Cardinality(Chosen(found, j))] = found[j]
  BY <1>1, RecordsInOrder
<1>3. /\ Before(pages, n) = B \cup ({n} \X Chosen(found, N))
      /\ IsFiniteSet(Before(pages, n))
      /\ Cardinality(Before(pages, n)) = Cardinality(B) + Cardinality(Chosen(found, N))
      /\ \A i \in Chosen(found, N) :
            Count(<<n, i>>) = Cardinality(B) + Cardinality(Chosen(found, i))
      /\ \A p \in B : Count(p) \in 1..Cardinality(B)
      /\ Cardinality(B) \in Nat
  <2>1. IsFiniteSet(B) /\ B = Before(pages, n - 1)
    BY DEF Lists
  <2>2. DOMAIN pages[n] = 1..N /\ \A i \in 1..N : found[i].external_id = pages[n][i].id
    BY <1>1
  <2> HIDE DEF B, N
  <2>3. Adds(pages, n, found, N, B)
    BY <1>1, <2>1, <2>2, PageCount
  <2> QED BY <2>3 DEF Adds
<1>4. Len(r) = Cardinality(B) /\ \A p \in B : r[Count(p)].external_id = pages[p[1]][p[2]].id
  BY DEF Lists
<1> HIDE DEF t, N
<1>5. /\ Len(s) = Len(r) + Len(t) /\ Len(r) \in Nat /\ Len(t) \in Nat
      /\ \A k \in 1..Len(r) : s[k] = r[k]
      /\ \A k \in 1..Len(t) : s[Len(r) + k] = t[k]
  BY <1>2
<1> HIDE DEF s, B, Count
<1>6. ASSUME NEW p \in Before(pages, n) PROVE s[Count(p)].external_id = pages[p[1]][p[2]].id
  <2>1. CASE p \in B
    BY <1>3, <1>4, <1>5, <2>1
  <2>2. CASE p \in {n} \X Chosen(found, N)
    <3>1. PICK i \in Chosen(found, N) : p = <<n, i>>
      BY <2>2
    <3>2. i \in 1..N /\ pages[p[1]][p[2]].id = pages[n][i].id
      BY <3>1 DEF Chosen
    <3> DEFINE k == Cardinality(Chosen(found, i))
    <3>3. k \in 1..Len(t) /\ t[k] = found[i]
      BY <1>1, <1>2, <3>1, ChosenFinite
    <3>4. Count(p) = Len(r) + k
      BY <1>3, <1>4, <3>1
    <3>5. s[Count(p)] = found[i]
      BY <1>5, <3>3, <3>4
    <3> QED BY <1>1, <3>2, <3>5
  <2> QED BY <1>3, <2>1, <2>2
<1>7. Len(s) = Cardinality(Before(pages, n))
  BY <1>2, <1>3, <1>4, <1>5
<1> QED BY <1>3, <1>6, <1>7 DEF Lists, Count, s, t

\* What the turn for the next page does, if the config covers the site.
CoveredTurn(cfg, s, r, t) ==
    LET n == r.pages + 1
        found == [i \in DOMAIN s.pages[n] |-> Posting(cfg, PageOf(s, n), s.pages[n][i])] IN
    /\ n \in DOMAIN s.pages =>
          /\ t.pages = n /\ t.left = r.left /\ t.raised = r.raised
          /\ t.records = r.records \o Records(found)
    /\ n \notin DOMAIN s.pages =>
          /\ t.pages = r.pages /\ t.left = TRUE /\ t.raised = r.raised
          /\ t.records = r.records

Reading(s, r) ==
    /\ r.pages <= Len(s.pages)
    /\ ~r.raised
    /\ r.left => r.pages = Len(s.pages)
    /\ Lists(s.pages, r.pages, r.records)

ListingInv ==
    steady /\ pc \in {"fetch", "other", "close"} /\ Covers(yaml, site) =>
        Reading(site, run) /\ (pc # "fetch" => run.pages = Len(site.pages))

LEMMA TurnCovered ==
    ASSUME site \in Sites, Covers(yaml, site), RunOK(run)
    PROVE  CoveredTurn(yaml, site, run, OnAnswer(yaml, run, Answer))
<1> DEFINE n == run.pages + 1
           pages == site.pages
           layout == site.layout
           body == PageOf(site, n)
           path == yaml["items_path"]
           seen == IF run.pages = 0 THEN [run EXCEPT !.sample = body] ELSE run
           items == IF path = body.at THEN body.items ELSE <<>>
           s == OnAnswer(yaml, run, Answer)
           found == [i \in DOMAIN pages[n] |-> Posting(yaml, body, pages[n][i])]
<1>1. Answer.body = body /\ ~Answer.blocked
  <2>1. /\ Asked(yaml, run).request = site.request /\ Asked(yaml, run).param = site.param
        /\ Asked(yaml, run).page = site.first + run.pages /\ site.param # Nowhere
    BY DEF Asked, Covers
  <2>2. site.first \in Int /\ run.pages \in Nat
    BY SelfHealingAssumption DEF RunOK
  <2>3. Asked(yaml, run).page - site.first + 1 = n
    BY <2>1, <2>2
  <2>4. Answer = Page(body)
    BY <2>1, <2>3 DEF Answer, Reply, PageOf
  <2> QED BY <2>4 DEF Page
<1>2. path = layout.at /\ path \notin layout.others \cup BadPath
  BY DEF Covers
<1>3. body.others \in {layout.others, {}}
  BY DEF PageOf, Body, EmptyBody
<1>4. s = OnItems(yaml, seen, body, items)
  BY <1>1, <1>2, <1>3 DEF OnAnswer
<1>5. /\ DOMAIN seen = RunFields /\ seen.pages = run.pages
      /\ seen.left = run.left /\ seen.raised = run.raised /\ seen.records = run.records
  BY DEF RunOK, RunFields
<1>6. items = IF n \in DOMAIN pages THEN pages[n] ELSE <<>>
  BY <1>2 DEF PageOf, Body, EmptyBody
<1>7. items = <<>> <=> n \notin DOMAIN pages
  BY <1>6 DEF Covers
<1> HIDE DEF seen, items, body
<1>8. s = IF items = <<>> THEN Break(seen, {}) ELSE Take(yaml, seen, body, items)
  BY <1>4 DEF OnItems, Covers
<1>9. ASSUME n \in DOMAIN pages
      PROVE  /\ s.pages = n /\ s.left = run.left
             /\ s.raised = run.raised
             /\ s.records = run.records \o Records(found)
  <2>1. s = Take(yaml, seen, body, pages[n])
    BY <1>6, <1>7, <1>8, <1>9
  <2> HIDE DEF s
  <2>2. /\ s.pages = seen.pages + 1
        /\ s.records = seen.records \o Records(found)
        /\ s.left = seen.left
        /\ s.raised = seen.raised
    BY <1>5, <2>1 DEF Take, RunFields
  <2> HIDE DEF found
  <2> QED BY <1>5, <2>2
<1>10. ASSUME n \notin DOMAIN pages
       PROVE  /\ s.pages = run.pages /\ s.left = TRUE
              /\ s.raised = run.raised /\ s.records = run.records
  <2>1. s = Break(seen, {})
    BY <1>7, <1>8, <1>10
  <2> HIDE DEF s
  <2> QED BY <1>5, <2>1 DEF Break, RunFields
<1> HIDE DEF s
<1>11. CoveredTurn(yaml, site, run, s)
  BY <1>9, <1>10 DEF CoveredTurn, body
<1> QED BY <1>11 DEF s

\* Under a mapping that fits, a posting has the id of its item.
LEMMA CoveredIds ==
    ASSUME site \in Sites, NEW cfg, Covers(cfg, site),
           NEW n \in DOMAIN site.pages, NEW i \in DOMAIN site.pages[n]
    PROVE  Posting(cfg, PageOf(site, n), site.pages[n][i]).external_id = site.pages[n][i].id
<1>1. site.pages[n] # <<>>
  BY DEF Covers
<1>2. PageOf(site, n).id = site.layout.id
  BY <1>1 DEF PageOf, Body
<1> QED BY <1>2 DEF Posting, Pick, Covers

LEMMA FetchLists == ASSUME HealingInv, TypeInv, ListingInv, Fetch PROVE ListingInv'
<1> SUFFICES ASSUME steady', Covers(yaml, site)
             PROVE  Reading(site, run')
  BY DEF ListingInv, Fetch, Step, world
<1>1. /\ pc = "fetch" /\ More(yaml, run) /\ run' = OnAnswer(yaml, run, Answer) /\ steady
      /\ site \in Sites /\ RunOK(run) /\ run.records \in Seq(Postings)
  BY DEF Fetch, Step, TypeInv, HealingInv, LoopOK
<1>2. Reading(site, run)
  BY <1>1 DEF ListingInv
<1> DEFINE n == run.pages + 1
           pages == site.pages
           found == [i \in DOMAIN pages[n] |-> Posting(yaml, PageOf(site, n), pages[n][i])]
<1>3. CoveredTurn(yaml, site, run, run')
  BY <1>1, <1>2, TurnCovered DEF Reading
<1>4. pages \in Seq(Seq(Items))
  BY <1>1, SelfHealingAssumption
<1>5. DOMAIN pages = 1..Len(pages) /\ Len(pages) \in Nat /\ run.pages \in Nat
  BY <1>1, <1>4 DEF RunOK
<1>6. ~run.left
  BY <1>1 DEF More
<1>7. CASE n \in DOMAIN pages
  <2>1. pages[n] \in Seq(Items)
    BY <1>4, <1>7
  <2>2. found \in Seq(Postings)
    BY <2>1, FoundType
  <2>3. DOMAIN found = DOMAIN pages[n] /\ \A i \in DOMAIN found : found[i].external_id = pages[n][i].id
    BY <1>1, <1>7, CoveredIds
  <2>4. /\ run'.pages = n
        /\ run'.left = run.left
        /\ run'.raised = run.raised
        /\ run'.records = run.records \o Records(found)
    BY <1>3, <1>7 DEF CoveredTurn
  <2>5. Lists(pages, n - 1, run.records)
    BY <1>2, <1>5 DEF Reading
  <2> HIDE DEF found
  <2>6. Lists(pages, n, run.records \o Records(found))
    BY <1>1, <1>4, <1>7, <2>2, <2>3, <2>5, ListPage
  <2>7. ~run'.left /\ ~run'.raised
    BY <1>2, <1>6, <2>4 DEF Reading
  <2>8. run'.pages <= Len(pages)
    BY <1>2, <1>5, <1>7, <2>4 DEF Reading
  <2> QED BY <2>4, <2>6, <2>7, <2>8 DEF Reading
<1>8. CASE n \notin DOMAIN pages
  <2>1. /\ run'.pages = run.pages /\ run'.records = run.records
        /\ run'.raised = run.raised
    BY <1>3, <1>8 DEF CoveredTurn
  <2>2. run.pages = Len(pages)
    BY <1>2, <1>5, <1>8 DEF Reading
  <2> QED BY <1>2, <2>1, <2>2 DEF Reading
<1> QED BY <1>7, <1>8

LEMMA StoreLists == ASSUME HealingInv, TypeInv, ListingInv, Store PROVE ListingInv'
<1> SUFFICES ASSUME steady', Covers(yaml, site)
             PROVE  Reading(site, run) /\ run.pages = Len(site.pages)
  BY DEF ListingInv, Store, world
<1>1. /\ pc = "fetch" /\ ~More(yaml, run) /\ steady
      /\ site \in Sites /\ RunOK(run)
  BY DEF Store, Step, TypeInv, HealingInv
<1>2. Reading(site, run)
  BY <1>1 DEF ListingInv
<1>3. site.pages \in Seq(Seq(Items)) /\ MaxPages(yaml) \in Int
  BY <1>1, SelfHealingAssumption DEF HealingInv, Valid
<1>4. Len(site.pages) \in Nat /\ run.pages \in Nat /\ Len(site.pages) <= MaxPages(yaml)
  BY <1>1, <1>3 DEF RunOK, Covers
<1> QED BY <1>1, <1>2, <1>3, <1>4 DEF Reading, More

LEMMA BeginLists ==
    ASSUME TypeInv, NEW by, NEW id, BeginRun(by, id), site' = site PROVE ListingInv'
<1>1. pc' = "fetch" /\ run' = Begun
  BY DEF BeginRun, Step
<1>2. site.pages \in Seq(Seq(Items))
  BY SelfHealingAssumption DEF TypeInv
<1>3. Begun.pages = 0 /\ Begun.records = <<>> /\ ~Begun.left /\ ~Begun.raised
  BY DEF Begun
<1>4. Lists(site.pages, Begun.pages, Begun.records)
  BY <1>2, <1>3, ListStart
<1>5. Reading(site, Begun)
  BY <1>2, <1>3, <1>4 DEF Reading
<1> QED BY <1>1, <1>5 DEF ListingInv

LEMMA ListingNext == HealingInv /\ TypeInv /\ ListingInv /\ [Next]_vars => ListingInv'
<1> SUFFICES ASSUME HealingInv, TypeInv, ListingInv, [Next]_vars PROVE ListingInv'
  OBVIOUS
<1>1. CASE Fetch
  BY <1>1, FetchLists
<1>2. CASE Store
  BY <1>2, StoreLists
<1>3. CASE Skip \/ Other
  BY <1>3 DEF Skip, ForPostings, Other, Step, Covers, world, ListingInv
<1>4. CASE Collect \/ \E id \in 1..MaxRequest : Approve(id)
  BY <1>4, BeginLists DEF Collect, Approve, world
<1>5. CASE Raise \/ Close \/ LlmFails \/ TryCandidate \/ Keep \/ Rollback
  BY <1>5 DEF Raise, Close, LlmFails, TryCandidate, Keep, Rollback, Over, Step, ListingInv
<1>6. CASE Propose \/ AskAgain \/ \E id \in 1..MaxRequest : Regenerate(id)
  BY <1>6 DEF Propose, AskAgain, Regenerate, Step, ListingInv
<1>7. CASE \E id \in 1..MaxRequest : ApproveUnfit(id) \/ Reject(id)
  BY <1>7 DEF ApproveUnfit, Reject, ListingInv
<1>8. CASE Redesign
  BY <1>8 DEF Redesign, ListingInv
<1>9. CASE UNCHANGED vars
  BY <1>9 DEF vars, ListingInv
<1> QED BY <1>1, <1>2, <1>3, <1>4, <1>5, <1>6, <1>7, <1>8, <1>9 DEF Next, Proceed, Command

\* A run whose config covers the site, from its first page to its last, has read
\* every posting of the listing that has an id, once and in the order of the
\* site, if nothing has changed meanwhile (collectors/api_jobs.py, the page loop).
THEOREM ListingComplete == Spec => []CompleteListing
<1>1. Init => ListingInv
  BY DEF Init, ListingInv
<1>2. TypeInv /\ ListingInv => CompleteListing
  <2> SUFFICES ASSUME TypeInv, ListingInv, pc \in {"other", "close"}, steady,
                      Covers(yaml, site)
               PROVE  /\ Len(run.records) = Cardinality(Places(site.pages))
                      /\ \A p \in Places(site.pages) :
                            run.records[Cardinality(UpTo(site.pages, p))].external_id
                               = site.pages[p[1]][p[2]].id
    BY DEF CompleteListing
  <2>1. Lists(site.pages, Len(site.pages), run.records)
    BY DEF ListingInv, Reading
  <2>2. site.pages \in Seq(Seq(Items))
    BY SelfHealingAssumption DEF TypeInv
  <2>3. \A p \in Places(site.pages) : p[1] \in 1..Len(site.pages)
    BY <2>2, PlaceAt
  <2>4. Before(site.pages, Len(site.pages)) = Places(site.pages)
    BY <2>2, <2>3 DEF Before
  <2> QED BY <2>1, <2>4 DEF Lists
<1> QED BY <1>1, <1>2, ListingNext, HealingInvariant, TypeInvariant, PTL DEF Spec
=============================================================================
