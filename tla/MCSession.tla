------------------------------ MODULE MCSession ------------------------------
(***************************************************************************)
(* The browser of a lab that is already running: its bootstrap             *)
(* administrator has created one more account, which is then switched on   *)
(* and off, promoted and demoted while the browser is used.  Restarts and  *)
(* accounts that come and go are the subject of MCPages.                   *)
(***************************************************************************)
EXTENDS Session

CONSTANTS n1, n2, t1, t2

MCInit ==
  /\ users = [i \in Ids |-> [name |-> IF i = 1 THEN n1 ELSE n2,
                             admin |-> i = 1, active |-> TRUE]]
  /\ boot = n1
  /\ ClientInit

MCServerNext ==
  \/ \E on \in BOOLEAN : SetActive(1, 2, on) /\ UNCHANGED sessionVars
  \/ \E on \in BOOLEAN : SetAdmin(1, 2, on) /\ UNCHANGED sessionVars
  \/ Expire
  \/ \E c \in calls : Serve(c)

MCNext == MCServerNext \/ (\E t \in Tabs : TabNext(t)) \/ AnswerNext
MCSpec == MCInit /\ [][MCNext]_vars /\ Fairness
=============================================================================
