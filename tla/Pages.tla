-------------------------------- MODULE Pages --------------------------------
(***************************************************************************)
(* The pages of the web client and the accounts they are for, in one       *)
(* specification: a behaviour follows one of them, chosen at the start.    *)
(* The pages share no state, so they share the variables r1 to r8, which   *)
(* each of them names as its module does; what a page does not use is      *)
(* None.                                                                   *)
(***************************************************************************)
EXTENDS Accounts, Integers, FiniteSets

CONSTANTS
  None,          \* nothing selected, loaded, answered
  MaxCalls,      \* bound: requests of a page under way
  PageSize,      \* rows on a page of a list
  FormGpus, Slot, Hour, Day, Offset, Horizon, Durations, MaxTime,
  MineRows,      \* the student's reservations or watches
  All,           \* a filter that lets everything through
  Tables,        \* names for the administrator's tables
  TableRows, TableEntry, TableFilters,
  Servers, Gpus, ServerOf,
  Kept,          \* bound: servers that nobody deletes
  Persons, Grantable, PersonNames, Drafts

(* Slots divide neither days nor hours of necessity; they are no longer.   *)
ASSUME FormAssumption ==
  /\ Slot \in Nat \ {0} /\ Hour \in Nat /\ Day \in Nat /\ Offset \in Int
  /\ Slot <= Hour /\ Slot <= Day /\ Horizon \in Nat /\ MaxTime \in Nat

ASSUME ListsAssumption ==
  /\ MineRows \in SUBSET Nat /\ IsFiniteSet(MineRows)
  /\ PageSize \in Nat \ {0}

ASSUME TablesAssumption ==
  Tables \cap {"form", "mine", "fleet", "users", "accounts"} = {}
ASSUME FleetAssumption ==
  Servers \cap Gpus = {} /\ ServerOf \in [Gpus -> Servers] /\ None \notin Servers
ASSUME NoneAssumption ==
  /\ None \notin {"ok", "refused", "revoke"}
  /\ \A b \in BOOLEAN : None # [ok |-> b, rows |-> None]

VARIABLES page, r1, r2, r3, r4, r5, r6, r7, r8
registers == <<r1, r2, r3, r4, r5, r6, r7, r8>>
pageVars == <<accountVars, page, registers>>

Form == INSTANCE BookingForm WITH
  Gpus <- FormGpus,
  now <- r1, form <- r2, offered <- r3, free <- r4, calls <- r5, latest <- r6

Mine == INSTANCE MyReservations WITH
  Ids <- MineRows,
  list <- r1, held <- r2, items <- r3, page <- r4, pending <- r5, calls <- r6,
  latest <- r7, told <- r8

Lists(table) == INSTANCE AdminLists WITH
  Rows <- TableRows[table], Entry <- TableEntry[table],
  FilterBy <- TableFilters[table],
  list <- r1, live <- r2, filters <- r3, page <- r4, shown <- r5, pending <- r6,
  calls <- r7, latest <- r8

Fleet == INSTANCE AdminServers WITH
  fleet <- r1, servers <- r2, selected <- r3, gpus <- r4, dialog <- r5,
  calls <- r6, latest <- r7

Users == INSTANCE AdminUsers WITH
  Users <- Persons, Servers <- Grantable, UserNames <- PersonNames,
  rows <- r1, users <- r2, selected <- r3, form <- r4, dialog <- r5, calls <- r6,
  told <- r7

-----------------------------------------------------------------------------
NoPage ==
  /\ r1 = None /\ r2 = None /\ r3 = None /\ r4 = None
  /\ r5 = None /\ r6 = None /\ r7 = None /\ r8 = None
NoAccounts == users = [i \in Ids |-> NoUser] /\ boot = CHOOSE n \in Names : TRUE

Init ==
  \/ page = "form" /\ Form!Init /\ NoAccounts /\ r7 = None /\ r8 = None
  \/ page = "mine" /\ Mine!Init /\ NoAccounts
  \/ \E table \in Tables : page = table /\ Lists(table)!Init /\ NoAccounts
  \/ page = "fleet" /\ Fleet!Init /\ NoAccounts /\ r8 = None
  \/ page = "users" /\ Users!Init /\ NoAccounts /\ r8 = None
  \/ page = "accounts" /\ AccountsInit /\ NoPage

Next ==
  /\ \/ page = "form" /\ Form!Next /\ UNCHANGED <<r7, r8>>
     \/ page = "mine" /\ Mine!Next
     \/ \E table \in Tables : page = table /\ Lists(table)!Next
     \/ /\ page = "fleet" /\ Fleet!Next /\ UNCHANGED r8
        /\ \A s \in Kept : r1'[s] = "on"
     \/ page = "users" /\ Users!Next /\ UNCHANGED r8
     \/ page = "accounts" /\ AccountsNext /\ UNCHANGED registers
  /\ page # "accounts" => UNCHANGED accountVars
  /\ UNCHANGED page
Spec == Init /\ [][Next]_pageVars

-----------------------------------------------------------------------------
(* What the pages' modules promise, for the page that is followed.         *)

(* BookingForm: the start the form submits lies on the slot grid.          *)
StartOnGrid == page = "form" => Form!StartOnGrid
(* BookingForm: the free RAM shown is that of the window in the form once  *)
(* the newest question is the last answered.                               *)
FreeRamFits == page = "form" => Form!FreeRamFits
(* MyReservations: no empty page while the list has rows.                  *)
NeverAnEmptyPage == page = "mine" => Mine!NeverAnEmptyPage
(* MyReservations: what was said to be cancelled is off the list once the  *)
(* newest load is the last answered.                                       *)
CancelledIsGone == page = "mine" => Mine!CancelledIsGone
(* AdminLists: the rows shown are those of the filters and the page.       *)
ListFits == \A table \in Tables : page = table => Lists(table)!ListFits
(* AdminServers: the card lists the GPUs of its own server once the newest *)
(* load is the last answered, unless that was the load after a change.     *)
GpusFit == page = "fleet" => Fleet!GpusFit
(* AdminServers: the card shows what the page's own changes have made.     *)
OwnChangesShown == page = "fleet" => Fleet!OwnChangesShown
(* AdminUsers: a save is only said to have succeeded when all of it has.   *)
SavedMeansAllApplied == page = "users" => Users!SavedMeansAllApplied
=============================================================================
