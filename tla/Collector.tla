----------------------------- MODULE Collector -----------------------------
(***************************************************************************)
(* The page loop of app/collectors/api_jobs.py, one answer at a time, so   *)
(* that a live run can be interrupted between two pages and the dry run    *)
(* can replay the same steps on a stored sample.                           *)
(*                                                                         *)
(* What a collector sees of an answer is the body of a page: the path at   *)
(* which its items are, the paths at which something else is, and the      *)
(* attributes under which an item keeps its id and its title.              *)
(***************************************************************************)
EXTENDS Integers, Sequences, FiniteSets, SequencesExt

CONSTANTS
    BadPath,      \* the paths that are no jmespath expressions, and the templates
                  \* that are none
    Nothing,      \* the value of an attribute that is not there
    DefaultPages  \* PaginationConfig.max_pages

\* The path of the whole answer, and of nothing.
Root == "@"
Nowhere == "-"

\* {}, which is also what `json or {}` makes of an answer that is no JSON
\* and of an empty list.
EmptyBody == [at |-> Nowhere, others |-> {}, id |-> Nowhere, title |-> Nowhere,
              items |-> <<>>]

Body(layout, items) ==
    IF layout.at = Root /\ items = <<>> THEN EmptyBody
    ELSE [at |-> layout.at, others |-> layout.others, id |-> layout.id,
          title |-> layout.title, items |-> items]

\* What fetch returns: blocked stands for a status of 400 or more as well.
Blocked == [blocked |-> TRUE, body |-> EmptyBody]
Page(body) == [blocked |-> FALSE, body |-> body]

\* A collector's config: the keys the yaml gives it, the rest by default.
Setting(cfg, key, default) == IF key \in DOMAIN cfg THEN cfg[key] ELSE default
MaxPages(cfg) == Setting(cfg, "max_pages", DefaultPages)
Required(cfg) == Setting(cfg, "required_fields", {})
Purpose(cfg) == Setting(cfg, "purpose", "postings")

\* What the mapping evaluates on every item (of a site with no path for links).
ItemKeys == {"external_id", "title", "link_template"}
Unreadable(cfg) == \E key \in ItemKeys \cap DOMAIN cfg : cfg[key] \in BadPath

\* _extract: an attribute of an item, by the path the mapping gives for it.
Pick(cfg, field, body, item) ==
    LET path == Setting(cfg, field, Nowhere) IN
    CASE path = body.id /\ path # Nowhere -> item.id
      [] path = body.title /\ path \notin {body.id, Nowhere} -> item.title
      [] OTHER -> Nothing

Posting(cfg, body, item) ==
    [external_id |-> Pick(cfg, "external_id", body, item),
     title |-> Pick(cfg, "title", body, item)]

Identified(posting) == posting.external_id # Nothing

\* The loop over the items of a page: those without an id are left out.
Records(found) ==
    LET upTo[n \in 0..Len(found)] ==
          IF n = 0 THEN <<>>
          ELSE IF Identified(found[n]) THEN Append(upTo[n - 1], found[n]) ELSE upTo[n - 1]
    IN upTo[Len(found)]

-----------------------------------------------------------------------------

\* The local variables of run: pages_done, what has been collected, and whether
\* the loop has been left, by a break or by an exception.
Begun == [pages |-> 0, records |-> <<>>, issues |-> {},
          sample |-> Nothing, left |-> FALSE, raised |-> FALSE]

\* The condition of the loop.
More(cfg, run) == ~run.left /\ run.pages < MaxPages(cfg)

\* The page parameter, which is set only if the config has its name.
PageParam(cfg) ==
    IF Setting(cfg, "type", "none") = "page" THEN Setting(cfg, "param", Nowhere) ELSE Nowhere

\* Variant to be refuted: the first page is number 1.
AskedFromOne(cfg, run) ==
    [request |-> cfg["request"], param |-> PageParam(cfg),
     page |-> IF PageParam(cfg) = Nowhere THEN 0 ELSE 1 + run.pages]

\* What the site is asked for: the request (its url, method, headers and params
\* in one), the page parameter and its value.  The page is counted up together
\* with pages_done.
Asked(cfg, run) ==
    [request |-> cfg["request"], param |-> PageParam(cfg),
     page |-> IF PageParam(cfg) = Nowhere THEN 0 ELSE Setting(cfg, "start", 1) + run.pages]

Issue(found, code) == IF found THEN {code} ELSE {}

Break(run, codes) == [run EXCEPT !.left = TRUE, !.issues = @ \cup codes]

\* The items of a page: one record for each that has an id.
Take(cfg, run, body, items) ==
    LET found == [i \in DOMAIN items |-> Posting(cfg, body, items[i])] IN
    [run EXCEPT !.records = @ \o Records(found),
                !.issues = @ \cup Issue(\E i \in DOMAIN found : ~Identified(found[i]),
                                       "missing_external_id"),
                !.pages = @ + 1]

\* jmespath.search and str.format raise, and the run is lost.
Raised(run) == [run EXCEPT !.left = TRUE, !.raised = TRUE]

\* Variant to be refuted: an empty page is not counted.
OnItemsUncounted(cfg, run, body, items) ==
    IF items # <<>> THEN Take(cfg, run, body, items)
    ELSE IF Setting(cfg, "stop_condition", "empty_items") = "empty_items"
    THEN Break(run, {})
    ELSE run

\* Variant to be refuted: a path that cannot be evaluated finds nothing.
OnItemsUnread(cfg, run, body, items) ==
    IF items = <<>> /\ Setting(cfg, "stop_condition", "empty_items") = "empty_items"
    THEN Break(run, {})
    ELSE Take(cfg, run, body, items)

\* An empty page ends the loop unless the config asks for fixed_pages; it does
\* not show whether the mapping can be read.
OnItems(cfg, run, body, items) ==
    CASE items = <<>> /\ Setting(cfg, "stop_condition", "empty_items") = "empty_items"
           -> Break(run, {})
      [] items # <<>> /\ Unreadable(cfg) -> Raised(run)
      [] OTHER -> Take(cfg, run, body, items)

\* One turn of the loop, from the answer on.
OnAnswer(cfg, run, answer) ==
    LET path == cfg["items_path"]
        body == answer.body
        seen == IF run.pages = 0 THEN [run EXCEPT !.sample = body] ELSE run IN
    CASE answer.blocked -> Break(run, {"fetch_failed"})
      [] ~answer.blocked /\ path \in BadPath -> Raised(seen)
      [] ~answer.blocked /\ path \in body.others \ BadPath -> Break(seen, {"items_path_not_list"})
      [] OTHER -> OnItems(cfg, seen, body, IF path = body.at THEN body.items ELSE <<>>)
=============================================================================
