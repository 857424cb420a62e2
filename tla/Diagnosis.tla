----------------------------- MODULE Diagnosis -----------------------------
(***************************************************************************)
(* What is wrong with the records of a collector (app/validators), and     *)
(* which kind of failure the issues of a run amount to (app/diagnosis).    *)
(***************************************************************************)
EXTENDS Collector

CONSTANTS
    DropNum, DropDen  \* 1 - max_volume_drop_ratio, as a fraction

ASSUME DropAssumption == DropNum \in Nat /\ DropDen \in Nat \ {0}

\* Variant to be refuted: min_items_per_page alone, which is 0 by default.
NoItemsUnlessAsked(records) == Len(records) < 0

\* max(min_items_per_page, 1), and no items all the same.
NoItems(records) == records = <<>>

\* validate_postings: previous is the number of postings the database has of
\* the site, from all its runs.
Validate(cfg, records, previous) ==
    LET lacking(posting) == \E field \in Required(cfg) : posting[field] = Nothing IN
    UNION {Issue(NoItems(records), "empty_results"),
           Issue(\E i \in DOMAIN records : lacking(records[i]), "missing_required_field"),
           Issue(/\ previous > 0 /\ records # <<>>
                 /\ Len(records) * DropDen < previous * DropNum, "volume_drop")}

CategoryByCode(code) ==
    CASE code = "fetch_failed" -> "network_blocked"
      [] code \in {"items_path_not_list", "missing_external_id"} -> "schema_change"
      [] code = "missing_required_field" -> "missing_fields"
      [] code = "volume_drop" -> "volume_drop"
      [] code = "empty_results" -> "empty_results"

\* Variant to be refuted: a changed schema before a blocked network.
PrioritySchemaFirst == <<"schema_change", "network_blocked", "missing_fields",
                         "volume_drop", "empty_results">>

Priority == <<"network_blocked", "schema_change", "missing_fields",
              "volume_drop", "empty_results">>

\* classify_failure: the first category, by priority, that some issue is in.
Classify(codes) ==
    LET seen == {CategoryByCode(code) : code \in codes}
        ranks == {i \in DOMAIN Priority : Priority[i] \in seen} IN
    IF codes = {} THEN "none" ELSE Priority[CHOOSE i \in ranks : \A j \in ranks : i <= j]

\* HEALABLE_CATEGORIES
Healable == {"schema_change", "empty_results"}
=============================================================================
