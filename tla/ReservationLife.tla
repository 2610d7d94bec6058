--------------------------- MODULE ReservationLife ---------------------------
(***************************************************************************)
(* What the lab promises about the life of a reservation, without times,   *)
(* RAM, access or regulations: it is booked on a GPU that can be used,     *)
(* paused when the GPU goes off, booked again as soon as the GPU can be    *)
(* used again, and cancelled or forgotten for good.  Booking implements it.*)
(***************************************************************************)
CONSTANTS
  Rids,   \* reservation ids
  Users,
  Gpus,
  NoRow   \* an id with no reservation

VARIABLES
  life,   \* per id: whose reservation it is, where, and its status
  usable  \* the GPUs that can be used

lifeVars == <<life, usable>>

Booked(r) == life[r] # NoRow /\ life[r].status = "ACTIVE"
Paused(r) == life[r] # NoRow /\ life[r].status = "SUSPENDED"
On(G) == {r \in Rids : life[r] # NoRow /\ life[r].gpu \in G}

Now(S, status) ==
  [r \in Rids |-> IF r \in S THEN [life[r] EXCEPT !.status = status]
                  ELSE life[r]]

Book(r, u, g) ==
  /\ life[r] = NoRow
  /\ g \in usable
  /\ life' = [life EXCEPT ![r] = [user |-> u, gpu |-> g, status |-> "ACTIVE"]]
  /\ UNCHANGED usable

Cancel(S) ==
  /\ \A r \in S : Booked(r) \/ Paused(r)
  /\ life' = Now(S, "CANCELLED")
  /\ UNCHANGED usable

(* What has ended by then may stay booked.                                 *)
SwitchOff(G, S) ==
  /\ \A r \in S : Booked(r)
  /\ S \subseteq On(G)
  /\ usable' = usable \ G
  /\ life' = Now(S, "SUSPENDED")

(* Everything paused on them comes back.                                   *)
SwitchOn(G) ==
  /\ usable' = usable \cup G
  /\ life' = Now({r \in On(G) : Paused(r)}, "ACTIVE")

(* Everything held on them goes.                                           *)
Retire(G) ==
  /\ usable' = usable \ G
  /\ life' = Now({r \in On(G) : Booked(r) \/ Paused(r)}, "CANCELLED")

Forget(u) ==
  /\ life' = [r \in Rids |-> IF life[r] # NoRow /\ life[r].user = u THEN NoRow
                             ELSE life[r]]
  /\ UNCHANGED usable

LifeInit ==
  /\ life = [r \in Rids |-> NoRow]
  /\ usable \in SUBSET Gpus

LifeNext ==
  \/ \E r \in Rids, u \in Users, g \in Gpus : Book(r, u, g)
  \/ \E S \in SUBSET Rids : Cancel(S)
  \/ \E G \in SUBSET Gpus, S \in SUBSET Rids : SwitchOff(G, S)
  \/ \E G \in SUBSET Gpus : SwitchOn(G) \/ Retire(G)
  \/ \E u \in Users : Forget(u)

LifeSpec == LifeInit /\ [][LifeNext]_lifeVars
==============================================================================
