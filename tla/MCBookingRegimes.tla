-------------------------- MODULE MCBookingRegimes --------------------------
(***************************************************************************)
(* Two instances of BookingRace and one of Notifications in one run.       *)
(***************************************************************************)
EXTENDS MCBookingRace, Notifications

(* Three regimes, as every kind of request at once with two students and     *)
(* three rows is too much.  Students: two of them book one or two units of *)
(* RAM and cancel, each with a limit of one reservation.  Everybody: every *)
(* kind of request, by one student who books one unit and by the admin.    *)
(* Notices: the requests one after another, and what is told of them to    *)
(* two students, one of whom keeps the access and is away; there is one    *)
(* reservation at a time.                                                  *)
VARIABLE regime

regimeVars == <<raceVars, inbox, regime>>

Small ==
  /\ reg = Grid /\ res[3] = NoRow
  /\ \A p \in Requests :
       /\ "user" \in DOMAIN req[p] => req[p].user = u1
       /\ "ram" \in DOMAIN req[p] => req[p].ram = 1

StudentsNext ==
  \/ \E p \in Requests : CreateSteps(p) \/ CancelSteps(p) \/ Fail(p)
  \/ RaceTick

OneAway ==
  /\ reg = Grid /\ access[u2] = Servers /\ Undismissed(u2) = DOMAIN inbox[u2]
  /\ res[2] = NoRow /\ res[3] = NoRow

RegimeInit ==
  /\ RaceInit /\ NotesInit
  /\ \/ regime = "students" /\ reg.maxActive = 1
     \/ regime = "everybody" /\ Small
     \/ regime = "notices" /\ OneAway
RegimeNext ==
  /\ \/ regime = "students" /\ StudentsNext /\ UNCHANGED inbox
     \/ regime = "everybody" /\ RaceNext /\ Small' /\ UNCHANGED inbox
     \/ regime = "notices" /\ NotesNext /\ OneAway' /\ UNCHANGED req
  /\ UNCHANGED regime
RegimeSpec == RegimeInit /\ [][RegimeNext]_regimeVars

(* However two bookings, or a booking and a cancellation, interleave: a    *)
(* GPU is overfilled by one booking at most, a student's limit exceeded by *)
(* one reservation at most.                                                *)
StudentsOverfillIsBounded == regime = "students" => OverfillIsBounded
StudentsCountIsBounded == regime = "students" => CountIsBounded

(* PausesAreTold, where there are notices: no pause and no end of a pause  *)
(* goes without a word to the owner of the reservation.                    *)
NoticesAreTold == [][regime = "notices" => ToldStep]_regimeVars
=============================================================================
