--------------------------- MODULE MCSelfHealing ---------------------------
(***************************************************************************)
(* An instance of SelfHealing for TLC, around the config of catch.co.kr.   *)
(***************************************************************************)
EXTENDS SelfHealing, TLC

\* The items at recruitData, moved below it, or at the top of the answer.
Flat == [at |-> "recruitData", others |-> {Root}, id |-> "RecruitID", title |-> "Title"]
Nested == [at |-> "recruitData.list", others |-> {Root, "recruitData"},
           id |-> "RecruitID", title |-> "Title"]
Renamed == [at |-> "recruitData", others |-> {Root}, id |-> "JobNo", title |-> "Title"]
Listed == [at |-> Root, others |-> {}, id |-> "RecruitID", title |-> "Title"]

Item(i) == [id |-> i, title |-> "t"]
MCItems == {Item("p1"), Item("p2"), Item(Nothing)}

\* An address that is not there, and one that answers with a notice.
NotFound == Blocked
Notice == Page([EmptyBody EXCEPT !.others = {Root}])

Two == <<<<Item("p1")>>, <<Item("p2")>>>>

List(layout, pages, elsewhere, other) ==
    [layout |-> layout, pages |-> pages, request |-> "list", param |-> "curpage",
     first |-> 1, elsewhere |-> elsewhere, other |-> other]

\* The listing at another address, with pages that are numbered from 0.
Moved(other) ==
    [List(Flat, Two, Notice, other) EXCEPT
        !.request = "v2", !.param = "page", !.first = 0]

MCSites ==
    UNION {{List(Flat, Two, NotFound, other), List(Flat, <<>>, Notice, other),
            List(Nested, Two, NotFound, other), Moved(other)} : other \in BOOLEAN}
    \cup {List(Flat, <<<<Item(Nothing)>>, <<Item("p1")>>>>, Notice, FALSE),
          List(Flat, <<<<>>, <<Item("p2")>>>>, NotFound, FALSE),
          List(Renamed, Two, NotFound, FALSE),
          List(Listed, <<<<Item("p1")>>>>, NotFound, FALSE)}

Catch == "request" :> "list" @@ "param" :> "curpage" @@ "type" :> "page"
         @@ "items_path" :> "recruitData" @@ "external_id" :> "RecruitID"
         @@ "title" :> "Title" @@ "max_pages" :> 3
         @@ "required_fields" :> {"external_id", "title"}
MCFirstConfigs == {Catch}

MCKey == {"purpose", "request", "type", "param", "start", "max_pages", "stop_condition",
          "items_path", "external_id", "title", "link_template", "required_fields", "typo"}

Op(op, path, new) == [op |-> op, path |-> path, new |-> new]
MCCandidates ==
    {[changes |-> c, forbidden |-> FALSE] : c \in {
        <<>>,
        <<Op("replace", "items_path", "recruitData.list")>>,
        <<Op("replace", "items_path", "recruitData.list"), Op("add", "start", 9)>>,
        <<Op("replace", "items_path", Root), Op("add", "max_pages", 0)>>,
        <<Op("replace", "items_path", "[")>>,
        <<Op("replace", "items_path", "["), Op("add", "max_pages", 0)>>,
        <<Op("replace", "external_id", "JobNo"), Op("add", "stop_condition", "fixed_pages")>>,
        <<Op("replace", "external_id", "Title"), Op("remove", "param", Nothing)>>,
        <<Op("add", "link_template", "{")>>,
        <<Op("replace", "request", "v2"), Op("replace", "param", "page"), Op("add", "start", 0)>>,
        <<Op("add", "purpose", "diagnostics")>>,
        <<Op("remove", "items_path", Nothing)>>,
        <<Op("replace", "stop_condition", "empty_items")>>}}
    \cup {[changes |-> <<Op("add", "type", "page")>>, forbidden |-> TRUE]}

\* What the second collector gets: records, records and an issue, nothing, a refusal.
MCOtherResults ==
    {[records |-> TRUE, issues |-> {}],
     [records |-> TRUE, issues |-> {"missing_required_field"}],
     [records |-> FALSE, issues |-> {"empty_results"}],
     [records |-> FALSE, issues |-> {"fetch_failed", "empty_results"}]}
=============================================================================
