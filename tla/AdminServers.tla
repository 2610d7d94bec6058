---------------------------- MODULE AdminServers ----------------------------
(***************************************************************************)
(* The administrator's page of servers and their GPUs                      *)
(* (web/frontend/src/pages/admin/AdminServersPage.tsx).                    *)
(*                                                                         *)
(* The servers are loaded when the page opens and after every change of    *)
(* one; the GPUs of a server when its card is opened and after every       *)
(* change of a GPU, then for the server that was open when the change was  *)
(* sent.  Until they arrive the card lists the GPUs of the card before.    *)
(* Names and sizes are sent as typed, a server's switch as the opposite of *)
(* what is listed, and left out: of a server only that it is there, of a   *)
(* GPU that and its switch.  Answers may overtake each other or be lost.   *)
(***************************************************************************)
EXTENDS Integers, Sequences, SequencesExt, FiniteSetsExt

CONSTANTS
  Servers, Gpus,
  ServerOf,  \* GPU -> its server
  MaxCalls,  \* bound: requests under way
  None       \* nothing loaded, selected or asked yet

VARIABLES
  fleet,     \* the server's side: a server is "on" or "gone", a GPU may be
             \* "off" too
  servers,   \* the servers listed
  selected,  \* selectedId: its card is open while it is listed
  gpus,      \* the GPUs listed: of which server, their switches; after: who
             \* asked, the card or a finished change
  dialog,    \* delete server, delete or rename a GPU
  calls,     \* requests under way, in the order they were sent
  latest     \* the newest load of GPUs: under way, answered last; or lost,
             \* overwritten, or out of date by a change from elsewhere

vars == <<fleet, servers, selected, gpus, dialog, calls, latest>>

-----------------------------------------------------------------------------
Things == Servers \cup Gpus
GpusOf(s) == {g \in Gpus : ServerOf[g] = s}
Present(S) == {x \in S : fleet[x] # "gone"}
Switches(S) == [x \in Present(S) |-> fleet[x]]

CardOpen == selected \in DOMAIN servers
UnderWay(kinds) == {i \in DOMAIN calls : calls[i].kind \in kinds}
Changes == {"create", "edit", "switch", "delete"}
DialogBusy == \E i \in DOMAIN calls : calls[i].dialog

(* x: what is changed or listed (None: the list of servers); to: a         *)
(* switch's new position; open: the card that is open as it is sent.       *)
Request(kind, x, to) ==
  [kind |-> kind, x |-> x, to |-> to,
   open |-> IF x \in Gpus /\ CardOpen THEN selected ELSE None,
   dialog |-> dialog # None, reply |-> None]
ListGpus(s, after) ==
  [kind |-> "list", x |-> s, to |-> after, open |-> None, dialog |-> FALSE, reply |-> None]
ListServers == ListGpus(None, "servers")
Send(request) ==
  /\ Len(calls) < MaxCalls
  /\ calls' = Append(calls, request)
  /\ UNCHANGED <<fleet, servers, selected, gpus, dialog, latest>>

-----------------------------------------------------------------------------
(* The buttons of the lists and of the card, beneath no dialog.  Created   *)
(* is only what is not listed.                                             *)
SelectStale(s) ==  \* a slip: asks for the card that is still open
  /\ dialog = None /\ s \in DOMAIN servers /\ Len(calls) < MaxCalls
  /\ selected' = s
  /\ calls' = Append(calls, ListGpus(IF CardOpen THEN selected ELSE s, "card"))
  /\ latest' = "asked"
  /\ UNCHANGED <<fleet, servers, gpus, dialog>>
SelectServer(s) ==
  /\ dialog = None /\ s \in DOMAIN servers /\ Len(calls) < MaxCalls
  /\ selected' = s
  /\ calls' = Append(calls, ListGpus(s, "card"))
  /\ latest' = "asked"
  /\ UNCHANGED <<fleet, servers, gpus, dialog>>

Flip(position) == IF position = "on" THEN "off" ELSE "on"
HandleCreateServer(s) ==
  dialog = None /\ s \notin DOMAIN servers /\ Send(Request("create", s, "on"))
(* Renamed, switched on or switched off.                                   *)
HandleEdit == dialog = None /\ CardOpen /\ Send(Request("edit", selected, None))
HandleAddGpu(g) ==
  /\ dialog = None /\ CardOpen /\ g \in GpusOf(selected) \ DOMAIN gpus.rows
  /\ Send(Request("create", g, "on"))
HandleToggleGpuActive(g) ==
  /\ dialog = None /\ CardOpen /\ g \in DOMAIN gpus.rows
  /\ Send(Request("switch", g, Flip(gpus.rows[g])))

(* The dialogs of a GPU keep its row; that of the server only that it is   *)
(* open.  They can be dismissed while their request is under way.          *)
OpenDialog(kind, x) ==
  /\ dialog = None /\ CardOpen /\ x \in DOMAIN gpus.rows \cup {None}
  /\ dialog' = [kind |-> kind, x |-> x]
  /\ UNCHANGED <<fleet, servers, selected, gpus, calls, latest>>
Dismiss ==
  /\ dialog # None
  /\ dialog' = None
  /\ UNCHANGED <<fleet, servers, selected, gpus, calls, latest>>
HandleDeleteServer ==
  /\ dialog = [kind |-> "delete", x |-> None] /\ CardOpen /\ ~DialogBusy
  /\ Send(Request("delete", selected, "gone"))
HandleDeleteGpu ==
  /\ dialog # None /\ dialog.kind = "delete" /\ dialog.x # None /\ ~DialogBusy
  /\ Send(Request("delete", dialog.x, "gone"))
(* Enter in the rename dialog sends again while a request is under way.    *)
HandleRenameGpu ==
  dialog # None /\ dialog.kind = "edit" /\ Send(Request("edit", dialog.x, None))

-----------------------------------------------------------------------------
(* The server.  A server takes its GPUs with it and does not bring them    *)
(* back; creating what was deleted revives its row.                        *)
Moved(x, to) ==
  [y \in Things |-> IF y = x \/ (to = "gone" /\ y \in Gpus /\ ServerOf[y] = x)
                    THEN to ELSE fleet[y]]
(* A name may be taken, a GPU's row be there already.                      *)
Accepted(c) ==
  CASE c.kind = "create" -> fleet[c.x] = "gone" /\ (c.x \in Gpus => fleet[ServerOf[c.x]] # "gone")
    [] OTHER -> fleet[c.x] # "gone"
Listed(s) == Switches(IF s = None THEN Servers ELSE GpusOf(s))

Serve(i) ==
  LET c == calls[i]
      Reply(ok, rows) == calls' = [calls EXCEPT ![i].reply = [ok |-> ok, rows |-> rows]]
  IN  /\ c.reply = None
      /\ \/ /\ c.kind = "list" /\ UNCHANGED fleet
            /\ Reply(c.x = None \/ fleet[c.x] # "gone", Listed(c.x))
         \/ c.kind = "edit" /\ UNCHANGED fleet /\ Reply(Accepted(c), None)
         \/ c.kind = "edit" /\ c.x \in Servers /\ UNCHANGED fleet /\ Reply(FALSE, None)
         \/ /\ c.kind \in {"create", "switch", "delete"}
            /\ Reply(Accepted(c), None)
            /\ fleet' = IF Accepted(c) THEN Moved(c.x, c.to) ELSE fleet
      /\ UNCHANGED <<servers, selected, gpus, dialog, latest>>

(* Another administrator deletes.                                          *)
Elsewhere(x) ==
  /\ fleet[x] # "gone"
  /\ fleet' = Moved(x, "gone")
  /\ latest' = "unsure"
  /\ UNCHANGED <<servers, selected, gpus, dialog, calls>>

-----------------------------------------------------------------------------
(* Answers                                                                 *)

GpuLists == {i \in UnderWay({"list"}) : calls[i].x # None}
Newest(i) == i = Max(GpuLists)

ShowServers(i) ==
  /\ servers' = calls[i].reply.rows
  /\ calls' = RemoveAt(calls, i)
  /\ UNCHANGED <<fleet, selected, gpus, dialog, latest>>
ShowGpus(i) ==
  /\ calls[i].reply.ok
  /\ gpus' = [of |-> calls[i].x, rows |-> calls[i].reply.rows, after |-> calls[i].to]
  /\ calls' = RemoveAt(calls, i)
  /\ latest' = CASE latest = "asked" /\ Newest(i) -> "answered"
                 [] latest = "answered" -> "unsure"
                 [] OTHER -> latest
  /\ UNCHANGED <<fleet, servers, selected, dialog>>

(* A change of a server is followed by a load of the servers, one of a GPU *)
(* by a load of the GPUs of the card that was open; what a dialog asked    *)
(* for closes the dialog of its kind, and deleting a server closes the     *)
(* card that is open by then.                                              *)
Closes(c) ==
  /\ dialog # None /\ c.dialog /\ dialog.kind = c.kind
  /\ (dialog.x = None) <=> (c.x \in Servers)
ReloadServersOnly(c) ==  \* a slip: a switched GPU is not loaded again
  IF c.x \in Servers \/ c.kind = "switch" THEN <<ListServers>>
  ELSE <<ListGpus(c.open, "change")>>
Reload(c) ==
  IF c.x \in Servers THEN <<ListServers>>
  ELSE IF c.open = None THEN <<>> ELSE <<ListGpus(c.open, "change")>>
Changed(i) ==
  LET c == calls[i]
  IN  /\ calls' = RemoveAt(calls, i) \o Reload(c)
      /\ dialog' = IF Closes(c) THEN None ELSE dialog
      /\ selected' = IF c.kind = "delete" /\ c.x \in Servers THEN None ELSE selected
      /\ latest' = IF c.x \in Servers THEN latest
                   ELSE IF Reload(c) = <<>> THEN "unsure" ELSE "asked"
      /\ UNCHANGED <<fleet, servers, gpus>>

(* An error is a toast.                                                    *)
Lost(i) == i \in GpuLists /\ latest = "asked" /\ Newest(i)
Lose(i) ==
  /\ calls' = RemoveAt(calls, i)
  /\ latest' = IF Lost(i) \/ (calls[i].kind \in Changes /\ calls[i].reply # None)
               THEN "unsure" ELSE latest
  /\ UNCHANGED <<fleet, servers, selected, gpus, dialog>>
Refused(i) ==
  /\ ~calls[i].reply.ok
  /\ calls' = RemoveAt(calls, i)
  /\ latest' = IF Lost(i) THEN "unsure" ELSE latest
  /\ UNCHANGED <<fleet, servers, selected, gpus, dialog>>
Arrive(i) ==
  /\ calls[i].reply # None
  /\ \/ i \in UnderWay({"list"}) \ GpuLists /\ ShowServers(i)
     \/ i \in GpuLists /\ ShowGpus(i)
     \/ i \in UnderWay(Changes) /\ calls[i].reply.ok /\ Changed(i)
     \/ Refused(i)

-----------------------------------------------------------------------------
Init ==
  /\ fleet = [x \in Things |-> "on"]
  /\ servers = <<>> /\ selected = None
  /\ gpus = [of |-> None, rows |-> <<>>, after |-> "card"]
  /\ dialog = None
  /\ calls = <<ListServers>> /\ latest = "unsure"

Next ==
  \/ \E s \in Servers : SelectServer(s) \/ HandleCreateServer(s)
  \/ HandleEdit
  \/ \E g \in Gpus : HandleAddGpu(g) \/ HandleToggleGpuActive(g)
  \/ OpenDialog("delete", None)
  \/ \E g \in Gpus : OpenDialog("delete", g) \/ OpenDialog("edit", g)
  \/ Dismiss
  \/ HandleDeleteServer \/ HandleDeleteGpu \/ HandleRenameGpu
  \/ \E i \in DOMAIN calls : Serve(i) \/ Arrive(i) \/ Lose(i)
  \/ \E x \in Things : Elsewhere(x)
Spec == Init /\ [][Next]_vars

-----------------------------------------------------------------------------
(* Properties                                                              *)

(* The GPUs listed in an open card are the GPUs of its server once the     *)
(* newest load is the last to have been answered; only the load after a    *)
(* change can be of a card left meanwhile.                                 *)
GpusFit ==
  latest = "answered" /\ CardOpen => gpus.of = selected \/ gpus.after = "change"

(* Then the list also shows what this page's own changes have made of      *)
(* them, as soon as none is under way: no change leaves its card showing   *)
(* the GPUs as they were before.                                           *)
OwnChangesShown ==
  latest = "answered" /\ CardOpen /\ UnderWay(Changes) = {} =>
    gpus.rows = Switches(GpusOf(gpus.of))
=============================================================================
