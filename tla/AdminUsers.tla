----------------------------- MODULE AdminUsers -----------------------------
(***************************************************************************)
(* The administrator's page of users                                       *)
(* (web/frontend/src/pages/admin/AdminUsersPage.tsx,                       *)
(* components/ServerAccessChips.tsx).                                      *)
(*                                                                         *)
(* Saving a user's card sends one request per field that differs from the  *)
(* row on screen, all at once; "Changes saved." waits for all of them, an  *)
(* error for the first that fails while the others go on.  A save that     *)
(* takes servers away asks first and names them.  The row on screen is as  *)
(* old as the last list that arrived, and lists may overtake each other.   *)
(* The name stands for the three fields that are typed; who may press the  *)
(* buttons is in Accounts.                                                 *)
(***************************************************************************)
EXTENDS Integers, Sequences, SequencesExt, FiniteSets

CONSTANTS
  Users, Servers,
  UserNames, \* what a user may be renamed to
  Drafts,    \* the profiles users are created with
  MaxCalls,  \* bound: requests under way
  None       \* nobody selected, no dialog, no answer yet

VARIABLES
  rows,      \* the server's side: name and access of every user there is
  users,     \* the users listed
  selected,  \* selectedId: the card is open while the user is listed
  form,      \* what the card's fields hold
  dialog,    \* None, "revoke" or "delete"
  calls,     \* requests under way, in the order they were sent
  told       \* of the newest save: the fields sent, those the server has
             \* changed, and whether "Changes saved." has been said

vars == <<rows, users, selected, form, dialog, calls, told>>

-----------------------------------------------------------------------------
Fields == {"name", "access"}
Profile == [name : UserNames, access : SUBSET Servers]
CardOpen == selected \in DOMAIN users
Row == users[selected]

(* joined: one of the requests the save under way waits for.               *)
Request(kind, u, value) ==
  [kind |-> kind, user |-> u, value |-> value, joined |-> FALSE, reply |-> None]
Listing == Request("list", None, None)
UnderWay(kinds) == {i \in DOMAIN calls : calls[i].kind \in kinds}
Joined == {i \in DOMAIN calls : calls[i].joined}
DetailsBusy == Joined # {}

Send(requests) ==
  /\ Len(calls) + Len(requests) <= MaxCalls
  /\ calls' = calls \o requests

-----------------------------------------------------------------------------
(* The card                                                                *)

SelectUser(u) ==
  /\ dialog = None /\ u \in DOMAIN users
  /\ selected' = u /\ form' = users[u]
  /\ UNCHANGED <<rows, users, dialog, calls, told>>

Type(n) ==
  /\ dialog = None /\ CardOpen
  /\ form' = [form EXCEPT !.name = n]
  /\ UNCHANGED <<rows, users, selected, dialog, calls, told>>
ToggleServer(s) ==
  /\ dialog = None /\ CardOpen
  /\ form' = [form EXCEPT !.access = (@ \ {s}) \cup ({s} \ @)]
  /\ UNCHANGED <<rows, users, selected, dialog, calls, told>>

RevokedServerIds == IF CardOpen THEN Row.access \ form.access ELSE {}

Differs == {f \in Fields : form[f] # Row[f]}
Tasks ==
  SetToSeq({[Request(f, selected, form[f]) EXCEPT !.joined = TRUE] : f \in Differs})
HandleSaveDetails ==
  /\ CardOpen /\ Differs # {}
  /\ Send(Tasks)
  /\ told' = [sent |-> Differs, applied |-> {}, saved |-> FALSE]
  /\ UNCHANGED <<rows, users, selected, form>>

HandleSaveClick ==
  /\ dialog = None /\ ~DetailsBusy
  /\ \/ /\ RevokedServerIds # {}
        /\ dialog' = "revoke"
        /\ UNCHANGED <<rows, users, selected, form, calls, told>>
     \/ RevokedServerIds = {} /\ HandleSaveDetails /\ UNCHANGED dialog
(* Also when a list that arrived behind the dialog has changed the row.    *)
ConfirmRevokeAndSave ==
  /\ dialog = "revoke" /\ dialog' = None
  /\ \/ HandleSaveDetails
     \/ ~(CardOpen /\ Differs # {}) /\ UNCHANGED <<rows, users, selected, form, calls, told>>

(* Deactivating, granting administration; the row is loaded again.         *)
HandleToggle ==
  /\ dialog = None /\ CardOpen
  /\ Send(<<Request("toggle", selected, None)>>)
  /\ UNCHANGED <<rows, users, selected, form, dialog, told>>
AskDelete ==
  /\ dialog = None /\ CardOpen
  /\ dialog' = "delete"
  /\ UNCHANGED <<rows, users, selected, form, calls, told>>
HandleDelete ==
  /\ dialog = "delete" /\ CardOpen /\ UnderWay({"delete"}) = {}
  /\ Send(<<Request("delete", selected, None)>>)
  /\ UNCHANGED <<rows, users, selected, form, dialog, told>>
Dismiss ==
  /\ dialog # None /\ dialog' = None
  /\ UNCHANGED <<rows, users, selected, form, calls, told>>

(* The other card: a user with the servers ticked.                         *)
HandleCreate(u, profile) ==
  /\ dialog = None /\ UnderWay({"create"}) = {}
  /\ Send(<<Request("create", u, profile)>>)
  /\ UNCHANGED <<rows, users, selected, form, dialog, told>>

-----------------------------------------------------------------------------
(* The server, and another administrator meanwhile                         *)

Accepted(c) ==
  CASE c.kind = "create" -> c.user \notin DOMAIN rows
    [] c.kind = "list" -> TRUE
    [] OTHER -> c.user \in DOMAIN rows
Effect(c) ==
  CASE c.kind = "create" -> [u \in DOMAIN rows \cup {c.user} |->
                               IF u = c.user THEN c.value ELSE rows[u]]
    [] c.kind = "delete" -> [u \in DOMAIN rows \ {c.user} |-> rows[u]]
    [] c.kind \in Fields -> [rows EXCEPT ![c.user][c.kind] = c.value]
    [] OTHER -> rows
Serve(i) ==
  LET c == calls[i]
  IN  /\ c.reply = None
      /\ calls' = [calls EXCEPT ![i].reply = [ok |-> Accepted(c), rows |->
                     IF c.kind = "list" THEN rows ELSE None]]
      /\ rows' = IF Accepted(c) THEN Effect(c) ELSE rows
      /\ told' = IF Accepted(c) /\ c.joined
                 THEN [told EXCEPT !.applied = @ \cup {c.kind}] ELSE told
      /\ UNCHANGED <<users, selected, form, dialog>>

Grants(u, access) ==
  /\ u \in DOMAIN rows /\ access # rows[u].access
  /\ rows' = [rows EXCEPT ![u].access = access]
  /\ UNCHANGED <<users, selected, form, dialog, calls, told>>
Deletes(u) ==
  /\ u \in DOMAIN rows
  /\ rows' = [v \in DOMAIN rows \ {u} |-> rows[v]]
  /\ UNCHANGED <<users, selected, form, dialog, calls, told>>

-----------------------------------------------------------------------------
(* Answers                                                                 *)

Rest(i) == RemoveAt(calls, i)
Failed(i) ==
  /\ calls' = IF calls[i].joined
              THEN [j \in DOMAIN Rest(i) |-> [Rest(i)[j] EXCEPT !.joined = FALSE]]
              ELSE Rest(i)
  /\ UNCHANGED <<rows, users, selected, form, dialog, told>>

FirstAnswered(i) == TRUE  \* a slip: not all are waited for
LastAnswered(i) == Joined = {i}
Saved(i) ==
  /\ IF LastAnswered(i)
     THEN /\ calls' = Append([j \in DOMAIN Rest(i) |-> [Rest(i)[j] EXCEPT !.joined = FALSE]],
                             Listing)
          /\ told' = [told EXCEPT !.saved = TRUE]
     ELSE calls' = Rest(i) /\ UNCHANGED told
  /\ UNCHANGED <<rows, users, selected, form, dialog>>

(* A field kept apart from a failed save is not waited for any more.       *)
Arrived(i) ==
  LET c == calls[i]
  IN  CASE c.kind = "list" -> /\ users' = c.reply.rows /\ calls' = Rest(i)
                              /\ UNCHANGED <<rows, selected, form, dialog, told>>
        [] c.kind \in Fields /\ c.joined -> Saved(i)
        [] c.kind \in Fields /\ ~c.joined ->
             /\ calls' = Rest(i)
             /\ UNCHANGED <<rows, users, selected, form, dialog, told>>
        [] OTHER -> /\ calls' = Append(Rest(i), Listing)
                    /\ selected' = IF c.kind = "delete" THEN None ELSE selected
                    /\ dialog' = IF c.kind = "delete" /\ dialog = "delete"
                                 THEN None ELSE dialog
                    /\ UNCHANGED <<rows, users, form, told>>
Arrive(i) ==
  /\ calls[i].reply # None
  /\ IF calls[i].reply.ok THEN Arrived(i) ELSE Failed(i)
Lose(i) == Failed(i)

-----------------------------------------------------------------------------
Init ==
  /\ rows \in [Users -> Profile] /\ users = <<>>
  /\ selected = None /\ dialog = None
  /\ form = [name |-> CHOOSE n \in UserNames : TRUE, access |-> {}]
  /\ calls = <<Listing>>
  /\ told = [sent |-> {}, applied |-> {}, saved |-> FALSE]

Next ==
  \/ \E u \in Users : SelectUser(u)
  \/ \E n \in UserNames : Type(n)
  \/ \E s \in Servers : ToggleServer(s)
  \/ HandleSaveClick \/ ConfirmRevokeAndSave
  \/ HandleToggle \/ AskDelete \/ HandleDelete \/ Dismiss
  \/ \E u \in Users, profile \in Drafts : HandleCreate(u, profile)
  \/ \E u \in Users : Deletes(u) \/ \E access \in SUBSET Servers : Grants(u, access)
  \/ \E i \in DOMAIN calls : Serve(i) \/ Arrive(i) \/ Lose(i)
Spec == Init /\ [][Next]_vars

-----------------------------------------------------------------------------
(* Properties                                                              *)

(* "Changes saved." is only said of a save every part of which the server  *)
(* has made, whichever requests fail, are lost or answered late.           *)
SavedMeansAllApplied == told.saved => told.applied = told.sent
=============================================================================
