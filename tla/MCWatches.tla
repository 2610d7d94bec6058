------------------------------ MODULE MCWatches ------------------------------
(***************************************************************************)
(* Two instances of Watches in one run, over one GPU of one unit of RAM.   *)
(* Everybody: every kind of request, one student with one watch, a grid    *)
(* that half of the windows miss and a regulation under which rounding     *)
(* dies; what the student books takes the first id, what the polls book    *)
(* the others.  Rivals: two students who book, cancel, watch and leave the *)
(* lab, so that one books while the poll is about to, and a poll fails on  *)
(* the one after it has booked for the other.                              *)
(***************************************************************************)
EXTENDS Watches, TLC

CONSTANTS s1, g1, u1, u2

OneGpu == [g \in {g1} |-> s1]

Coarse == [slot |-> 2, maxDuration |-> 3, horizon |-> 3, maxRam |-> 1,
           maxActive |-> 2, delay |-> 1]
Broken == [Coarse EXCEPT !.slot = 0]
Fine == [Coarse EXCEPT !.slot = 1]
AllRegulations == {Coarse, Broken, Fine}

VARIABLE regime
regimeVars == <<watchVars, regime>>

Alone ==
  /\ reg \in {Coarse, Broken} /\ watches[2] = NoRow
  /\ \A r \in Rows : res[r].user = u1
  /\ \A w \in Wids : IsWatch(w) => watches[w].user = u1
  /\ access[u2] = Servers
TakesFirstId == \A r \in Rids : ~IsRow(r) /\ res'[r] # NoRow => r = 1

RivalRequests ==
  /\ ~Locked /\ UNCHANGED poll
  /\ \/ /\ \/ \E u \in Users : CreateReservation(u, g1, 0, 1, 1)
           \/ \E r \in Rids : CancelReservation(r)
        /\ UNCHANGED watches
     \/ \E u \in Users : /\ access[u] = Servers
                         /\ DeleteUser(u) /\ watches' = Without(WatchesOf(u))
RivalsNext ==
  \/ \E u \in Users : CreateWatch(u, g1, 0, 1, 1)
  \/ \E w \in Wids : CancelWatch(w)
  \/ RivalRequests
  \/ PollNext

RegimeInit ==
  /\ WatchesInit
  /\ \/ regime = "everybody" /\ Alone
     \/ regime = "rivals" /\ reg = Fine
RegimeNext ==
  /\ \/ /\ regime = "everybody"
        /\ WatchesNext /\ Alone' /\ (PollNext \/ TakesFirstId)
     \/ regime = "rivals" /\ RivalsNext
  /\ UNCHANGED regime
RegimeSpec == RegimeInit /\ [][RegimeNext]_regimeVars /\ WF_regimeVars(PollNext /\ UNCHANGED regime)
=============================================================================
