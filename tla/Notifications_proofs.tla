------------------------- MODULE Notifications_proofs -------------------------
(***************************************************************************)
(* Proofs about Notifications, for every fleet, every set of students and  *)
(* any number of notifications.  A step of Notifications is one of Booking *)
(* or none, so Booking's invariants hold of it.                            *)
(***************************************************************************)
EXTENDS Notifications, Booking_proofs, SequenceTheorems

LEMMA StepOfBooking == [NotesNext]_noteVars => [Next]_vars
  BY DEF NotesNext, noteVars, SwitchGpu, SwitchServer, Dismiss,
         SilentNext, Next, FleetNext, UserAdminNext, UserSettings

LEMMA NotesBooking == NotesSpec => Spec
<1>1. NotesInit => Init
  BY DEF NotesInit
<1> QED
  BY <1>1, StepOfBooking, PTL DEF NotesSpec, Spec

-----------------------------------------------------------------------------
(***************************************************************************)
(* The schema of the table.                                                *)
(***************************************************************************)
LEMMA NotifyKeepsInbox ==
  ASSUME InboxOK, NEW s, NEW about \in Servers \cup Gpus, NEW news \in News,
         NotifyServerAccessUsers(s, about, news)
  PROVE  InboxOK'
<1> DEFINE note == [about |-> about, news |-> news, dismissed |-> FALSE]
<1>1. note \in Note
  BY DEF Note
<1>2. \A u \in Users : Append(inbox[u], note) \in Seq(Note)
  <2> HIDE DEF note
  <2> QED
    BY <1>1 DEF InboxOK
<1> QED
  BY <1>2 DEF NotifyServerAccessUsers, InboxOK

(* Replacing notes by notes.                                               *)
LEMMA RewrittenInbox ==
  ASSUME InboxOK, NEW u \in Users, NEW f,
         f = [i \in DOMAIN inbox[u] |-> f[i]],
         \A i \in DOMAIN inbox[u] : f[i] \in Note
  PROVE  f \in Seq(Note)
<1>1. inbox[u] \in Seq(Note)
  BY DEF InboxOK
<1>2. Len(inbox[u]) \in Nat /\ DOMAIN inbox[u] = 1..Len(inbox[u])
  BY <1>1
<1> QED
  BY <1>2, IsASeq

LEMMA DismissKeepsInbox ==
  ASSUME InboxOK, NEW u \in Users, NEW i, Dismiss(u, i)
  PROVE  InboxOK'
<1> DEFINE f == [inbox[u] EXCEPT ![i].dismissed = TRUE]
<1>1. inbox[u] \in Seq(Note)
  BY DEF InboxOK
<1>2. \A j \in DOMAIN inbox[u] : inbox[u][j] \in Note
  BY <1>1
<1>3. f = [j \in DOMAIN inbox[u] |-> f[j]]
  BY <1>1
<1>4. \A j \in DOMAIN inbox[u] : f[j] \in Note
  BY <1>2 DEF Note
<1>5. f \in Seq(Note)
  <2> HIDE DEF f
  <2> QED
    BY <1>3, <1>4, RewrittenInbox
<1>6. inbox' = [inbox EXCEPT ![u] = f]
  BY DEF Dismiss
<1> QED
  BY <1>5, <1>6 DEF InboxOK

LEMMA InboxStep == InboxOK /\ [NotesNext]_noteVars => InboxOK'
<1> SUFFICES ASSUME InboxOK, [NotesNext]_noteVars PROVE InboxOK'
  OBVIOUS
<1>1. ASSUME NEW g \in Gpus, NEW on \in BOOLEAN, SwitchGpu(g, on)
      PROVE  InboxOK'
  <2>1. BackNews({g}) \in News /\ "off" \in News
    BY DEF BackNews, News
  <2> QED
    BY <1>1, <2>1, NotifyKeepsInbox DEF SwitchGpu, InboxOK
<1>2. ASSUME NEW s \in Servers, NEW on \in BOOLEAN, SwitchServer(s, on)
      PROVE  InboxOK'
  <2>1. BackNews(ActiveGpusOf(s)) \in News /\ "off" \in News
    BY DEF BackNews, News
  <2> QED
    BY <1>2, <2>1, NotifyKeepsInbox DEF SwitchServer, InboxOK
<1>3. ASSUME UNCHANGED inbox PROVE InboxOK'
  BY <1>3 DEF InboxOK
<1> QED
  BY <1>1, <1>2, <1>3, DismissKeepsInbox
  DEF NotesNext, SilentNext, noteVars

(* Every account's notifications are a list of notifications.              *)
THEOREM InboxTyped == NotesSpec => []InboxOK
<1>1. NotesInit => InboxOK
  BY DEF NotesInit, InboxOK
<1> QED
  BY <1>1, InboxStep, PTL DEF NotesSpec

-----------------------------------------------------------------------------
(***************************************************************************)
(* Whose reservation is paused or resumed may use the server, and so is    *)
(* among the recipients.                                                   *)
(***************************************************************************)
LEMMA OwnerIsTold ==
  ASSUME TypeOK, HeldOnlyWithAccess, InboxOK,
         NEW r \in Rids, IsRow(r), Live(r),
         NEW about, about \in {res[r].gpu, ServerOf[res[r].gpu]},
         NEW news, NotifyServerAccessUsers(ServerOf[res[r].gpu], about, news)
  PROVE  Told(r, news)
<1> DEFINE u == res[r].user
           note == [about |-> about, news |-> news, dismissed |-> FALSE]
<1>1. u \in Users /\ ServerOf[res[r].gpu] \in access[u]
  BY RowRange DEF HeldOnlyWithAccess
<1>2. inbox'[u] = Append(inbox[u], note)
  BY <1>1 DEF NotifyServerAccessUsers, WithAccess
<1>3. inbox[u] \in Seq(Note)
  BY <1>1 DEF InboxOK
<1>4. /\ note.news = news /\ note.about = about /\ note.dismissed = FALSE
  OBVIOUS
<1> HIDE DEF note
<1>5. /\ Len(inbox'[u]) = Len(inbox[u]) + 1 /\ Len(inbox[u]) \in Nat
      /\ inbox'[u][Len(inbox'[u])] = note
  BY <1>2, <1>3
<1>6. inbox'[u] # <<>>
  BY <1>5
<1> QED
  BY <1>4, <1>5, <1>6 DEF Told, ToldIn, Newest

(* A step that pauses or resumes nothing owes nobody a word.               *)
LEMMA CancelTurnsNothing ==
  ASSUME TypeOK, NEW S \in SUBSET Rows, res' = Cancelled(S)
  PROVE  ToldStep
<1> SUFFICES ASSUME NEW r \in Rids, IsRow(r)
             PROVE  res'[r].status \in {res[r].status, "CANCELLED"}
  BY DEF ToldStep, Turned
<1> QED
  BY CancelledRow

LEMMA SameTurnsNothing ==
  ASSUME \A r \in Rids : IsRow(r) /\ res'[r] # NoRow => res'[r] = res[r]
  PROVE  ToldStep
  BY DEF ToldStep, Turned

LEMMA SilentTurnsNothing ==
  ASSUME TypeOK, SilentNext \/ UNCHANGED res
  PROVE  ToldStep
<1>1. ASSUME NEW u \in Users, NEW g \in Gpus, NEW start \in 0..MaxTime,
             NEW end \in 0..MaxTime, NEW ram \in Rams,
             CreateReservation(u, g, start, end, ram)
      PROVE  ToldStep
  <2>1. PICK q \in Rids :
          /\ IsNextId(q)
          /\ res' = [res EXCEPT ![q] =
                       [user |-> u, gpu |-> g, start |-> start, end |-> end,
                        ram |-> ram, status |-> "ACTIVE"]]
    BY <1>1 DEF CreateReservation
  <2>2. q \in Int
    BY <2>1 DEF Rids
  <2>3. ~IsRow(q)
    BY <2>1, <2>2 DEF IsNextId
  <2>4. \A r \in Rids : r # q => res'[r] = res[r]
    BY <2>1 DEF TypeOK
  <2> QED
    BY <2>3, <2>4, SameTurnsNothing
<1>2. ASSUME NEW r \in Rids, CancelReservation(r) PROVE ToldStep
  <2>1. {r} \in SUBSET Rows
    BY <1>2 DEF CancelReservation, Rows
  <2> QED
    BY <1>2, <2>1, CancelTurnsNothing DEF CancelReservation
<1>3. ASSUME NEW u \in Users, CancelForUser(u) PROVE ToldStep
  <2>1. HeldUpcoming(u) \in SUBSET Rows
    BY DEF HeldUpcoming
  <2> QED
    BY <1>3, <2>1, CancelTurnsNothing DEF CancelForUser
<1>4. CASE CancelAll
  BY <1>4, CancelTurnsNothing DEF CancelAll
<1>5. ASSUME NEW G, RetireGpus(G) PROVE ToldStep
  <2>1. LiveOn(G) \in SUBSET Rows
    BY DEF LiveOn
  <2> QED
    BY <1>5, <2>1, CancelTurnsNothing DEF RetireGpus
<1>6. ASSUME NEW u \in Users, NEW S \in SUBSET Servers, SetServerAccess(u, S)
      PROVE  ToldStep
  BY <1>6, CancelTurnsNothing DEF SetServerAccess, HeldOn
<1>7. ASSUME NEW u \in Users, DeleteUser(u) PROVE ToldStep
  BY <1>7, SameTurnsNothing DEF DeleteUser
<1>8. ASSUME res' = res PROVE ToldStep
  BY <1>8, SameTurnsNothing
<1> QED
  BY <1>1, <1>2, <1>3, <1>4, <1>5, <1>6, <1>7, <1>8
  DEF SilentNext, StudentNext, ReservationAdminNext, CreateServer, AddGpu,
      DeleteGpu, DeleteServer, SetMaxConcurrentGpus, UpdateRegulation, Tick

LEMMA GpuSwitchIsTold ==
  ASSUME TypeOK, FleetInv, InboxOK,
         NEW g \in Gpus, NEW on \in BOOLEAN, SwitchGpu(g, on)
  PROVE  ToldStep
<1>1. SetGpuActive(g, on)
  BY DEF SwitchGpu
<1> DEFINE up == on /\ servers[ServerOf[g]].active
<1>2. CASE Effective(g) /\ ~up
  <2>1. res' = Suspended({g}) /\ NotifyServerAccessUsers(ServerOf[g], g, "off")
    BY <1>1, <1>2 DEF SetGpuActive, SwitchGpu
  <2> SUFFICES ASSUME NEW r \in Rids, IsRow(r), res'[r] # res[r]
               PROVE  res[r].status = "ACTIVE" /\ Told(r, "off")
    BY DEF ToldStep, Turned
  <2>2. res[r].gpu = g /\ res[r].status = "ACTIVE"
    BY <2>1, SuspendedRow
  <2> QED
    BY <2>1, <2>2, OwnerIsTold DEF Live, FleetInv
<1>3. CASE ~Effective(g) /\ up
  <2>1. res' = Resumed({g}) /\ NotifyServerAccessUsers(ServerOf[g], g, BackNews({g}))
    BY <1>1, <1>3 DEF SetGpuActive, SwitchGpu
  <2> SUFFICES ASSUME NEW r \in Rids, IsRow(r), res'[r] # res[r]
               PROVE  res[r].status = "SUSPENDED" /\ Told(r, "resumed")
    BY DEF ToldStep, Turned
  <2>2. res[r].gpu = g /\ res[r].status = "SUSPENDED"
    BY <2>1, ResumedRow
  <2>3. BackNews({g}) = "resumed"
    BY <2>2 DEF BackNews, Rows
  <2> QED
    BY <2>1, <2>2, <2>3, OwnerIsTold DEF Live, FleetInv
<1>4. CASE (Effective(g) /\ up) \/ (~Effective(g) /\ ~up)
  <2>1. res' = res
    BY <1>1, <1>4 DEF SetGpuActive
  <2> QED
    BY <2>1, SilentTurnsNothing
<1> QED
  BY <1>2, <1>3, <1>4

LEMMA ServerSwitchIsTold ==
  ASSUME TypeOK, FleetInv, InboxOK,
         NEW s \in Servers, NEW on \in BOOLEAN, SwitchServer(s, on)
  PROVE  ToldStep
<1>1. SetServerActive(s, on)
  BY DEF SwitchServer
<1>2. CASE servers[s].active /\ ~on
  <2>1. res' = Suspended(GpusOf(s)) /\ NotifyServerAccessUsers(s, s, "off")
    BY <1>1, <1>2 DEF SetServerActive, SwitchServer
  <2> SUFFICES ASSUME NEW r \in Rids, IsRow(r), res'[r] # res[r]
               PROVE  res[r].status = "ACTIVE" /\ Told(r, "off")
    BY DEF ToldStep, Turned
  <2>2. ServerOf[res[r].gpu] = s /\ res[r].status = "ACTIVE"
    BY <2>1, SuspendedRow DEF GpusOf
  <2> QED
    BY <2>1, <2>2, OwnerIsTold DEF Live, FleetInv
<1>3. CASE ~servers[s].active /\ on
  <2>1. /\ res' = Resumed(ActiveGpusOf(s))
        /\ NotifyServerAccessUsers(s, s, BackNews(ActiveGpusOf(s)))
    BY <1>1, <1>3 DEF SetServerActive, SwitchServer, ActiveGpusOf
  <2> SUFFICES ASSUME NEW r \in Rids, IsRow(r), res'[r] # res[r]
               PROVE  res[r].status = "SUSPENDED" /\ Told(r, "resumed")
    BY DEF ToldStep, Turned
  <2>2. res[r].gpu \in ActiveGpusOf(s) /\ res[r].status = "SUSPENDED"
    BY <2>1, ResumedRow
  <2>3. BackNews(ActiveGpusOf(s)) = "resumed"
    BY <2>2 DEF BackNews, Rows
  <2>4. ServerOf[res[r].gpu] = s
    BY <2>2 DEF ActiveGpusOf, GpusOf
  <2> QED
    BY <2>1, <2>2, <2>3, <2>4, OwnerIsTold DEF Live, FleetInv
<1>4. CASE (servers[s].active /\ on) \/ (~servers[s].active /\ ~on)
  <2>1. res' = res
    BY <1>1, <1>4 DEF SetServerActive
  <2> QED
    BY <2>1, SilentTurnsNothing
<1> QED
  BY <1>2, <1>3, <1>4

(* Nobody's reservation is paused or resumed without a word to its owner.  *)
THEOREM OwnersAreTold == NotesSpec => PausesAreTold
<1>1. TypeOK /\ FleetInv /\ InboxOK /\ [NotesNext]_noteVars => [ToldStep]_noteVars
  BY GpuSwitchIsTold, ServerSwitchIsTold, SilentTurnsNothing
  DEF NotesNext, Dismiss, vars
<1> QED
  BY <1>1, NotesBooking, TypeCorrect, FleetInvariant, InboxTyped, PTL
  DEF NotesSpec, PausesAreTold

(* Telling the owners changes nothing in what a reservation may do: with   *)
(* the notifications written in the same transaction, the program still    *)
(* takes a reservation only through the life of ReservationLife.           *)
THEOREM NotesImplementLife == NotesSpec => Spec /\ ImplementsLife
  BY NotesBooking, BookingImplementsLife
===============================================================================
