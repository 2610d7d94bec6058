-------------------------------- MODULE MCLive --------------------------------
(***************************************************************************)
(* What the web client has running by itself, for TLC: the session of a    *)
(* browser and the overview of the reserve page.  A behaviour is of one of *)
(* them, chosen at the start, for they share no state.                     *)
(***************************************************************************)
EXTENDS MCSession

CONSTANT FleetGpus  \* the GPUs of the overview

VARIABLES subject, mounted, fleet, servers, selected, failed, asked

Overview == INSTANCE Glance WITH Gpus <- FleetGpus
overviewVars == <<mounted, fleet, servers, selected, failed, asked>>
liveVars == <<vars, subject, overviewVars>>

OfOverview == subject = "overview"

LiveInit ==
  /\ subject \in {"session", "overview"}
  /\ MCInit
  /\ IF OfOverview THEN Overview!Init
     ELSE /\ fleet = [g \in FleetGpus |-> "on"]
          /\ mounted = FALSE /\ asked = {} /\ Overview!Blank

LiveNext ==
  /\ UNCHANGED subject
  /\ \/ subject = "session" /\ MCNext /\ UNCHANGED overviewVars
     \/ OfOverview /\ Overview!Next /\ UNCHANGED vars

(* A tab and a page that are not opened owe nothing.                       *)
LiveSpec ==
  LiveInit /\ [][LiveNext]_liveVars /\ Fairness /\ Overview!Fairness

-----------------------------------------------------------------------------
(* Glance: no GPU is selected that the overview shows as switched off.     *)
SelectedIsUsable == OfOverview => Overview!SelectedIsUsable
(* Glance: a GPU that stays switched off leaves the form for good.         *)
OffIsNoticed == OfOverview => Overview!OffIsNoticed
=============================================================================
