---------------------------- MODULE Notifications ----------------------------
(***************************************************************************)
(* The notifications students find when they come back                     *)
(* (dml_core/services/notification_service.py, the switches of             *)
(* server_service.py, dml_web/routers/notifications.py), over Booking.     *)
(*                                                                         *)
(* Switching a server or a GPU writes one notification for everyone who    *)
(* may use the server, in the transaction that pauses or resumes their     *)
(* reservations.  No other request writes any, and only a dismissal ever   *)
(* changes one.  Of the wording only what it says is kept.                 *)
(***************************************************************************)
EXTENDS Booking, Sequences

CONSTANT MaxNotes  \* bound: notifications addressed to one id

ASSUME NotesAssumption == MaxNotes \in Nat

(* off: "paused"; resumed: "your paused reservations have resumed";        *)
(* on: "is active again" and no more.                                      *)
News == {"off", "resumed", "on"}
Note == [about : Servers \cup Gpus, news : News, dismissed : BOOLEAN]

VARIABLE inbox  \* user_notifications by user_id, in the order of created_at

noteVars == <<vars, inbox>>

-----------------------------------------------------------------------------
Undismissed(u) == {i \in DOMAIN inbox[u] : ~inbox[u][i].dismissed}

WithUpcoming(s) ==  \* a slip: only those who hold something to come
  {u \in Users : s \in access[u] /\ UpcomingOn(u, {s}) # {}}
WithAccess(s) == {u \in Users : s \in access[u]}

NotifyServerAccessUsers(s, about, news) ==
  /\ \A u \in WithAccess(s) : Len(inbox[u]) < MaxNotes
  /\ inbox' = [u \in Users |->
       IF u \in WithAccess(s)
       THEN Append(inbox[u], [about |-> about, news |-> news, dismissed |-> FALSE])
       ELSE inbox[u]]

(* What is said of GPUs G coming back: it does not matter whose            *)
(* reservations they resume.                                               *)
BackNews(G) ==
  IF \E r \in Rows : res[r].gpu \in G /\ res[r].status = "SUSPENDED"
  THEN "resumed" ELSE "on"

(* Nothing is said of a GPU whose server is off.                           *)
SwitchGpu(g, on) ==
  LET s == ServerOf[g]
      up == on /\ servers[s].active
  IN  /\ SetGpuActive(g, on)
      /\ \/ Effective(g) /\ ~up /\ NotifyServerAccessUsers(s, g, "off")
         \/ ~Effective(g) /\ up /\ NotifyServerAccessUsers(s, g, BackNews({g}))
         \/ (Effective(g) <=> up) /\ UNCHANGED inbox
SwitchServer(s, on) ==
  /\ SetServerActive(s, on)
  /\ \/ servers[s].active /\ ~on /\ NotifyServerAccessUsers(s, s, "off")
     \/ /\ ~servers[s].active /\ on
        /\ NotifyServerAccessUsers(s, s, BackNews(ActiveGpusOf(s)))
     \/ servers[s].active = on /\ UNCHANGED inbox

Dismiss(u, i) ==
  /\ i \in Undismissed(u)
  /\ inbox' = [inbox EXCEPT ![u][i].dismissed = TRUE]
  /\ UNCHANGED vars

(* Whatever else is asked of Booking.  delete_user does not think of       *)
(* notifications, and foreign keys are not enforced: those of a deleted    *)
(* account stay, and the next account with its id finds them.              *)
SilentNext ==
  /\ \/ StudentNext \/ ReservationAdminNext \/ Tick
     \/ \E s \in Servers : CreateServer(s) \/ DeleteServer(s)
     \/ \E g \in Gpus, m \in GpuRams : AddGpu(g, m)
     \/ \E g \in Gpus : DeleteGpu(g)
     \/ \E u \in Users : DeleteUser(u)
     \/ \E u \in Users, S \in SUBSET Servers : SetServerAccess(u, S)
     \/ \E u \in Users, n \in GpuLimits : SetMaxConcurrentGpus(u, n)
     \/ \E rg \in Regulations : UpdateRegulation(rg)
  /\ UNCHANGED inbox

NotesInit == Init /\ inbox = [u \in Users |-> <<>>]
NotesNext ==
  \/ \E g \in Gpus, on \in BOOLEAN : SwitchGpu(g, on)
  \/ \E s \in Servers, on \in BOOLEAN : SwitchServer(s, on)
  \/ \E u \in Users : \E i \in DOMAIN inbox[u] : Dismiss(u, i)
  \/ SilentNext
NotesSpec == NotesInit /\ [][NotesNext]_noteVars

-----------------------------------------------------------------------------
(* Properties                                                              *)

(* The table keeps its schema.                                             *)
InboxOK == inbox \in [Users -> Seq(Note)]

Newest(box) == box[Len(box)]
ToldIn(box, r, news) ==
  /\ box # <<>>
  /\ LET n == Newest(box)
     IN  /\ n.news = news /\ ~n.dismissed
         /\ n.about \in {res[r].gpu, ServerOf[res[r].gpu]}

Turned(r, from, to) == res[r].status = from /\ res'[r].status = to
Told(r, news) ==
  LET u == res[r].user
  IN  Len(inbox'[u]) > Len(inbox[u]) /\ ToldIn(inbox'[u], r, news)
(* "So it's never missed": the request that pauses or resumes a            *)
(* reservation leaves its owner a notification that says so.  The          *)
(* recipients are those who may use the server, not those who hold         *)
(* something on it, and the window may have passed meanwhile.              *)
ToldStep ==
  \A r \in Rids :
    IsRow(r) /\ res'[r] # NoRow =>
      /\ Turned(r, "ACTIVE", "SUSPENDED") => Told(r, "off")
      /\ Turned(r, "SUSPENDED", "ACTIVE") => Told(r, "resumed")
PausesAreTold == [][ToldStep]_noteVars
=============================================================================
