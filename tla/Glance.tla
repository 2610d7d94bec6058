-------------------------------- MODULE Glance --------------------------------
(***************************************************************************)
(* "Available now" and the GPU it selects for the booking form             *)
(* (web/frontend/src/components/AvailabilityGlance.tsx and handlePick,     *)
(* handleServersUpdate of pages/ReservePage.tsx).                          *)
(*                                                                         *)
(* The overview is loaded when the page opens and after every booking, and *)
(* asked for again by a timer.  Its answers may overtake each other or be  *)
(* lost; only a load that a later load has superseded is ignored.          *)
(***************************************************************************)
EXTENDS Naturals, FiniteSets

CONSTANTS
  Gpus,
  MaxCalls,  \* bound: requests under way
  None       \* no GPU, no overview yet

(* What the overview says of a GPU: usable, switched off, on a server that *)
(* is switched off, or not listed (deleted, or access revoked).            *)
Conditions == {"on", "off", "server off", "unlisted"}

VARIABLES
  mounted,   \* the reserve page is on screen
  fleet,     \* the server's side: the condition of each GPU
  servers,   \* the overview the tiles are drawn from
  selected,  \* the GPU of the booking form
  failed,    \* "Could not load live availability." is shown
  asked      \* requests under way: timer or load, superseded, the answer

vars == <<mounted, fleet, servers, selected, failed, asked>>

-----------------------------------------------------------------------------
Inactive(overview, g) == overview[g] \in {"off", "server off"}

(* handleServersUpdate: a selected GPU that is listed as inactive is       *)
(* dropped; of one that is not listed nothing is said.                     *)
UnlessSwitchedOff(overview, g) ==  \* a slip: the server's switch forgotten
  IF g # None /\ overview[g] = "off" THEN None ELSE g
StillSelected(overview, g) ==
  IF g # None /\ Inactive(overview, g) THEN None ELSE g

Question(kind) == [kind |-> kind, superseded |-> FALSE, answer |-> None]
Ask(kind, others) ==
  /\ Cardinality(others \cup {Question(kind)}) <= MaxCalls
  /\ asked' = others \cup {Question(kind)}

(* Every 20 seconds, whatever else is under way.                           *)
PollNever == FALSE  \* a slip: never started
Poll ==
  /\ mounted
  /\ Ask("timer", asked)
  /\ UNCHANGED <<mounted, fleet, servers, selected, failed>>

(* A booking or a watch bumps reloadSignal.                                *)
Reload ==
  /\ mounted
  /\ failed' = FALSE
  /\ Ask("load", {[c EXCEPT !.superseded = c.kind = "load"] : c \in asked})
  /\ UNCHANGED <<mounted, fleet, servers, selected>>

(* Leaving the page drops the card, its timer, whatever is under way and   *)
(* the form; opening the page starts anew.                                 *)
Open ==
  /\ ~mounted
  /\ mounted' = TRUE
  /\ Ask("load", {})
  /\ UNCHANGED <<fleet, servers, selected, failed>>
Leave ==
  /\ mounted
  /\ mounted' = FALSE
  /\ servers' = None /\ selected' = None /\ failed' = FALSE /\ asked' = {}
  /\ UNCHANGED fleet

(* The tile of an inactive GPU is disabled.                                *)
HandlePick(g) ==
  /\ servers # None /\ servers[g] = "on"
  /\ selected' = g
  /\ UNCHANGED <<mounted, fleet, servers, failed, asked>>

Serve(c) ==
  /\ c.answer = None
  /\ asked' = (asked \ {c}) \cup {[c EXCEPT !.answer = fleet]}
  /\ UNCHANGED <<mounted, fleet, servers, selected, failed>>

Arrive(c) ==
  /\ c.answer # None
  /\ asked' = asked \ {c}
  /\ IF c.superseded THEN UNCHANGED <<servers, selected>>
     ELSE /\ servers' = c.answer
          /\ selected' = StillSelected(c.answer, selected)
  /\ UNCHANGED <<mounted, fleet, failed>>

(* A lost poll is not mentioned.                                           *)
Lose(c) ==
  /\ asked' = asked \ {c}
  /\ failed' = (failed \/ (c.kind = "load" /\ ~c.superseded))
  /\ UNCHANGED <<mounted, fleet, servers, selected>>

(* Administrators switch, delete, register, grant and revoke.              *)
Switch(g, condition) ==
  /\ condition # fleet[g]
  /\ fleet' = [fleet EXCEPT ![g] = condition]
  /\ UNCHANGED <<mounted, servers, selected, failed, asked>>

-----------------------------------------------------------------------------
Blank == servers = None /\ selected = None /\ failed = FALSE
Init ==
  /\ fleet \in [Gpus -> Conditions]
  /\ mounted = FALSE /\ asked = {} /\ Blank

Next ==
  \/ Open \/ Leave
  \/ Poll \/ Reload
  \/ \E g \in Gpus : HandlePick(g)
  \/ \E c \in asked : Serve(c) \/ Arrive(c) \/ Lose(c)
  \/ \E g \in Gpus, condition \in Conditions : Switch(g, condition)

(* setInterval goes on; the server answers; the network does not lose      *)
(* every one of the polls.  Poll waits while MaxCalls are under way.       *)
Polls == {c \in asked : c.kind = "timer"}
Fairness ==
  /\ SF_vars(Poll)
  /\ SF_vars(\E c \in Polls : Serve(c))
  /\ SF_vars(\E c \in Polls : Arrive(c))
  /\ WF_vars(\E c \in asked : Arrive(c) \/ Lose(c))
Spec == Init /\ [][Next]_vars /\ Fairness

-----------------------------------------------------------------------------
(* Properties                                                              *)

(* The form never holds a GPU that the overview on screen shows as         *)
(* inactive, whichever answer drew it.                                     *)
SelectedIsUsable ==
  selected # None => servers # None /\ ~Inactive(servers, selected)

(* A GPU that stays switched off, or whose server does, leaves the form    *)
(* for good without the student doing anything.                            *)
OffIsNoticed ==
  \A g \in Gpus :
    <>[](fleet[g] \in {"off", "server off"}) => <>[](selected # g)
=============================================================================
