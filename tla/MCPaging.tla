------------------------------ MODULE MCPaging ------------------------------
(***************************************************************************)
(* Lists of two and four rows, pages of one and two, two changes.          *)
(***************************************************************************)
EXTENDS Paging

MCSizes == {0, 2, 3}

Call(tool, view, all, paged) ==
  [tool |-> tool, view |-> view, all |-> all, paged |-> paged]

MCArguments ==
  {Call(t, v, a, p) : t \in {"list_specs", "list_tests"},
                      v \in {"detail", "identity", "other"},
                      a \in BOOLEAN, p \in BOOLEAN}
  \cup {Call("list_releases", "", FALSE, FALSE)}
  \cup {Call("list_test_runs", "", FALSE, p) : p \in BOOLEAN}
  \cup {Call("get_run_results", v, FALSE, FALSE) : v \in {"", "cases", "combos", "overview"}}

(* The loops over specs and tests read the largest pages.                  *)
MCDefaultSize == [r \in Readings |-> IF r \in {"allSpecs", "allTests"} THEN 2 ELSE 1]

MCServers ==
  [list : {<<1, 2>>, <<1, 2, 3, 4>>}, quirk : {"none", "ignoresToken", "sendsTwice"}]
  \cup [list : {<<1, 2>>},
        quirk : {"ignoresView", "ignoresSize", "endless", "foreignRow"}]
=============================================================================
