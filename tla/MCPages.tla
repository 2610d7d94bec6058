------------------------------- MODULE MCPages -------------------------------
(***************************************************************************)
(* The pages of the web client for TLC.                                    *)
(***************************************************************************)
EXTENDS Pages

CONSTANTS g1, n1, n2  \* a GPU, usernames

(* The administrator's lists once with one row and every filter but the    *)
(* user's, once with two rows, two pages and the user's filter.            *)
RowOf(x) == [user |-> x, server |-> x, gpu |-> x, category |-> x]
By(columns) ==
  [column \in {"user", "server", "gpu", "category"} |->
     IF column \in columns THEN {1} ELSE {}]
OneRowTwoRows == [filtered |-> {1}, paged |-> {1, 2}]
EntriesOfRows == [filtered |-> <<RowOf(1)>>, paged |-> <<RowOf(1), RowOf(2)>>]
FiltersOffered ==
  [filtered |-> By({"server", "gpu", "category"}), paged |-> By({"user"})]

(* Servers 1, with GPU 11, and 2, which has none and stays.                *)
OnServer1 == [g \in Gpus |-> 1]

WithoutAccess == {[name |-> 1, access |-> {}]}
=============================================================================
