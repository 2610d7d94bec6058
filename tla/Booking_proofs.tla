---------------------------- MODULE Booking_proofs ----------------------------
(***************************************************************************)
(* Proofs about Booking for every fleet, every set of students, every      *)
(* bound on rows and time.                                                 *)
(***************************************************************************)
EXTENDS Booking, PeakRam_proofs

(***************************************************************************)
(* The bulk updates keep the table well typed.                             *)
(***************************************************************************)
LEMMA CancelledType ==
  ASSUME TypeOK, NEW S \in SUBSET Rows
  PROVE  Cancelled(S) \in [Rids -> Row \cup {NoRow}]
<1> SUFFICES ASSUME NEW r \in Rids, r \in S
             PROVE  [res[r] EXCEPT !.status = "CANCELLED"] \in Row
  BY DEF Cancelled, TypeOK
<1>1. res[r] \in Row
  BY DEF TypeOK, Rows, IsRow
<1> QED
  BY <1>1 DEF Row, Status

LEMMA SuspendedType ==
  ASSUME TypeOK, NEW G
  PROVE  Suspended(G) \in [Rids -> Row \cup {NoRow}]
<1> SUFFICES ASSUME NEW r \in Rids, IsRow(r)
             PROVE  [res[r] EXCEPT !.status = "SUSPENDED"] \in Row
  BY DEF Suspended, TypeOK
<1>1. res[r] \in Row
  BY DEF TypeOK, IsRow
<1> QED
  BY <1>1 DEF Row, Status

LEMMA ResumedType ==
  ASSUME TypeOK, NEW G
  PROVE  Resumed(G) \in [Rids -> Row \cup {NoRow}]
<1> DEFINE back(r) ==
      [res[r] EXCEPT !.start = now + reg.delay,
                     !.end = now + reg.delay + (res[r].end - res[r].start),
                     !.status = "ACTIVE"]
<1> SUFFICES ASSUME NEW r \in Rids, IsRow(r)
             PROVE  back(r) \in Row
  BY DEF Resumed, TypeOK
<1>1. res[r] \in Row
  BY DEF TypeOK, IsRow
<1>2. now \in Nat /\ reg.delay \in Nat
  BY RegulationsAssumption DEF TypeOK
<1>3. /\ res[r].start \in Nat /\ res[r].end \in Nat
      /\ res[r].start < res[r].end
  BY <1>1 DEF Row
<1> DEFINE from == now + reg.delay
           to == now + reg.delay + (res[r].end - res[r].start)
<1>4. from \in Nat /\ to \in Nat /\ from < to
  BY <1>2, <1>3
<1>5. [res[r] EXCEPT !.start = from, !.end = to, !.status = "ACTIVE"] \in Row
  <2> HIDE DEF from, to
  <2> QED
    BY <1>1, <1>4 DEF Row, Status
<1> QED
  BY <1>5

LEMMA TypeInit == Init => TypeOK
  BY RamsAssumption, LimitsAssumption DEF Init, TypeOK

LEMMA TypeStep == TypeOK /\ [Next]_vars => TypeOK'
<1> SUFFICES ASSUME TypeOK, [Next]_vars PROVE TypeOK'
  OBVIOUS
<1>1. ASSUME NEW u \in Users, NEW g \in Gpus, NEW start \in 0..MaxTime,
             NEW end \in 0..MaxTime, NEW ram \in Rams,
             CreateReservation(u, g, start, end, ram)
      PROVE  TypeOK'
  <2> DEFINE new == [user |-> u, gpu |-> g, start |-> start, end |-> end,
                     ram |-> ram, status |-> "ACTIVE"]
  <2>1. new \in Row
    BY <1>1, RamsAssumption, TimeAssumption
    DEF CreateReservation, CanBook, CanBookUnder, Row, Status
  <2>2. res' \in [Rids -> Row \cup {NoRow}]
    BY <1>1, <2>1 DEF CreateReservation, TypeOK
  <2> QED
    BY <1>1, <2>2 DEF CreateReservation, TypeOK
<1>2. ASSUME NEW r \in Rids, CancelReservation(r) PROVE TypeOK'
  <2>1. {r} \in SUBSET Rows
    BY <1>2 DEF CancelReservation, Rows
  <2> QED
    BY <1>2, <2>1, CancelledType DEF CancelReservation, TypeOK
<1>3. ASSUME NEW u \in Users, CancelForUser(u) PROVE TypeOK'
  <2>1. HeldUpcoming(u) \in SUBSET Rows
    BY DEF HeldUpcoming
  <2> QED
    BY <1>3, <2>1, CancelledType DEF CancelForUser, TypeOK
<1>4. CASE CancelAll
  BY <1>4, CancelledType DEF CancelAll, TypeOK
<1>5. ASSUME NEW g \in Gpus, NEW on \in BOOLEAN, SetGpuActive(g, on)
      PROVE  TypeOK'
  <2>1. res' \in {Suspended({g}), Resumed({g}), res}
    BY <1>5 DEF SetGpuActive
  <2>2. res' \in [Rids -> Row \cup {NoRow}]
    BY <2>1, SuspendedType, ResumedType DEF TypeOK
  <2> QED
    BY <1>5, <2>2 DEF SetGpuActive, TypeOK
<1>6. ASSUME NEW s \in Servers, NEW on \in BOOLEAN, SetServerActive(s, on)
      PROVE  TypeOK'
  <2> DEFINE G == {g \in GpusOf(s) : gpus[g].active}
  <2>1. res' \in {Suspended(GpusOf(s)), Resumed(G), res}
    BY <1>6 DEF SetServerActive
  <2>2. res' \in [Rids -> Row \cup {NoRow}]
    BY <2>1, SuspendedType, ResumedType DEF TypeOK
  <2> QED
    BY <1>6, <2>2 DEF SetServerActive, TypeOK
<1>7. ASSUME NEW s \in Servers, CreateServer(s) PROVE TypeOK'
  BY <1>7 DEF CreateServer, TypeOK
<1>8. ASSUME NEW g \in Gpus, NEW m \in GpuRams, AddGpu(g, m) PROVE TypeOK'
  BY <1>8, RamsAssumption DEF AddGpu, TypeOK
<1>9. ASSUME NEW G \in SUBSET Gpus, RetireGpus(G)
      PROVE  /\ res' \in [Rids -> Row \cup {NoRow}]
             /\ gpus' \in [Gpus -> [present : BOOLEAN, active : BOOLEAN,
                                    ram : Int]]
  <2>1. LiveOn(G) \in SUBSET Rows
    BY DEF LiveOn
  <2> QED
    BY <1>9, <2>1, CancelledType DEF RetireGpus, TypeOK
<1>10. ASSUME NEW g \in Gpus, DeleteGpu(g) PROVE TypeOK'
  BY <1>10, <1>9 DEF DeleteGpu, TypeOK
<1>11. ASSUME NEW s \in Servers, DeleteServer(s) PROVE TypeOK'
  <2>1. PresentGpusOf(s) \in SUBSET Gpus
    BY DEF PresentGpusOf, GpusOf
  <2> QED
    BY <1>11, <2>1, <1>9 DEF DeleteServer, TypeOK
<1>12. ASSUME NEW u \in Users, NEW S \in SUBSET Servers, SetServerAccess(u, S)
       PROVE  TypeOK'
  BY <1>12, CancelledType DEF SetServerAccess, HeldOn, TypeOK
<1>13. ASSUME NEW u \in Users, NEW n \in GpuLimits, SetMaxConcurrentGpus(u, n)
       PROVE  TypeOK'
  BY <1>13, LimitsAssumption DEF SetMaxConcurrentGpus, TypeOK
<1>14. ASSUME NEW u \in Users, DeleteUser(u) PROVE TypeOK'
  BY <1>14 DEF DeleteUser, TypeOK
<1>15. ASSUME NEW rg \in Regulations, UpdateRegulation(rg) PROVE TypeOK'
  BY <1>15 DEF UpdateRegulation, TypeOK
<1>16. CASE Tick
  BY <1>16 DEF Tick, TypeOK
<1>17. CASE UNCHANGED vars
  BY <1>17 DEF vars, TypeOK
<1> QED
  BY <1>1, <1>2, <1>3, <1>4, <1>5, <1>6, <1>7, <1>8, <1>10, <1>11, <1>12,
     <1>13, <1>14, <1>15, <1>16, <1>17
  DEF Next, StudentNext, ReservationAdminNext, FleetNext, UserAdminNext,
      UserSettings

(* Every table keeps its schema, whatever is requested and in whatever     *)
(* order.                                                                  *)
THEOREM TypeCorrect == Spec => []TypeOK
  BY TypeInit, TypeStep, PTL DEF Spec

-----------------------------------------------------------------------------
(***************************************************************************)
(* What a bulk update does to one row.                                     *)
(***************************************************************************)
SameTerms(new, r) ==
  /\ new.user = res[r].user /\ new.gpu = res[r].gpu /\ new.ram = res[r].ram

LEMMA CancelledRow ==
  ASSUME TypeOK, NEW S \in SUBSET Rows, NEW r \in Rids
  PROVE  /\ ~IsRow(r) => Cancelled(S)[r] = NoRow
         /\ IsRow(r) => /\ Cancelled(S)[r] # NoRow
                        /\ SameTerms(Cancelled(S)[r], r)
                        /\ Cancelled(S)[r].start = res[r].start
                        /\ Cancelled(S)[r].end = res[r].end
         /\ r \in S => Cancelled(S)[r].status = "CANCELLED"
         /\ r \notin S => Cancelled(S)[r] = res[r]
<1>1. CASE r \notin S
  BY <1>1 DEF Cancelled, IsRow, SameTerms
<1>2. CASE r \in S
  <2>1. res[r] \in Row /\ IsRow(r)
    BY <1>2 DEF Rows, TypeOK, IsRow
  <2>2. Cancelled(S)[r] = [res[r] EXCEPT !.status = "CANCELLED"]
    BY <1>2 DEF Cancelled
  <2>3. Cancelled(S)[r] \in Row
    BY <2>1, <2>2 DEF Row, Status
  <2> QED
    BY <1>2, <2>1, <2>2, <2>3, NoRowAssumption DEF Row, SameTerms
<1> QED
  BY <1>1, <1>2

LEMMA SuspendedRow ==
  ASSUME TypeOK, NEW G, NEW r \in Rids
  PROVE  /\ ~IsRow(r) => Suspended(G)[r] = NoRow
         /\ IsRow(r) => /\ Suspended(G)[r] # NoRow
                        /\ SameTerms(Suspended(G)[r], r)
                        /\ Suspended(G)[r].start = res[r].start
                        /\ Suspended(G)[r].end = res[r].end
         /\ IsRow(r) /\ res[r].gpu \in G /\ res[r].status = "ACTIVE"
              /\ res[r].end > now => Suspended(G)[r].status = "SUSPENDED"
         /\ ~(IsRow(r) /\ res[r].gpu \in G /\ res[r].status = "ACTIVE"
              /\ res[r].end > now) => Suspended(G)[r] = res[r]
<1> DEFINE hit == /\ IsRow(r) /\ res[r].gpu \in G
                  /\ res[r].status = "ACTIVE" /\ res[r].end > now
<1>1. CASE ~hit
  BY <1>1 DEF Suspended, IsRow, SameTerms
<1>2. CASE hit
  <2>1. res[r] \in Row
    BY <1>2 DEF TypeOK, IsRow
  <2>2. Suspended(G)[r] = [res[r] EXCEPT !.status = "SUSPENDED"]
    BY <1>2 DEF Suspended
  <2>3. Suspended(G)[r] \in Row
    BY <2>1, <2>2 DEF Row, Status
  <2> QED
    BY <1>2, <2>1, <2>2, <2>3, NoRowAssumption DEF Row, SameTerms
<1> QED
  BY <1>1, <1>2

LEMMA ResumedRow ==
  ASSUME TypeOK, NEW G, NEW r \in Rids
  PROVE  /\ ~IsRow(r) => Resumed(G)[r] = NoRow
         /\ IsRow(r) => /\ Resumed(G)[r] # NoRow
                        /\ SameTerms(Resumed(G)[r], r)
                        /\ Resumed(G)[r].end - Resumed(G)[r].start
                             = res[r].end - res[r].start
         /\ IsRow(r) /\ res[r].gpu \in G /\ res[r].status = "SUSPENDED" =>
              /\ Resumed(G)[r].status = "ACTIVE"
              /\ Resumed(G)[r].start >= now
         /\ ~(IsRow(r) /\ res[r].gpu \in G /\ res[r].status = "SUSPENDED") =>
              Resumed(G)[r] = res[r]
<1> DEFINE hit == IsRow(r) /\ res[r].gpu \in G /\ res[r].status = "SUSPENDED"
<1>1. CASE ~hit
  BY <1>1 DEF Resumed, IsRow, SameTerms
<1>2. CASE hit
  <2> DEFINE from == now + reg.delay
             to == now + reg.delay + (res[r].end - res[r].start)
  <2>1. res[r] \in Row
    BY <1>2 DEF TypeOK, IsRow
  <2>2. /\ res[r].start \in Nat /\ res[r].end \in Nat
        /\ now \in Nat /\ reg.delay \in Nat
    BY <2>1, RegulationsAssumption DEF Row, TypeOK
  <2>3. Resumed(G)[r] = [res[r] EXCEPT !.start = from, !.end = to,
                                       !.status = "ACTIVE"]
    BY <1>2 DEF Resumed
  <2>4. to - from = res[r].end - res[r].start /\ from >= now
    BY <2>2
  <2>5. Resumed(G)[r] \in Row
    <3>1. Resumed(G)[r] \in Row \cup {NoRow}
      BY ResumedType
    <3>2. from \in Nat /\ to \in Nat /\ from < to
      BY <2>1, <2>2 DEF Row
    <3> HIDE DEF from, to
    <3> QED
      BY <2>1, <2>3, <3>2 DEF Row, Status
  <2> HIDE DEF from, to
  <2>6. /\ Resumed(G)[r].start = from /\ Resumed(G)[r].end = to
        /\ Resumed(G)[r].status = "ACTIVE"
        /\ SameTerms(Resumed(G)[r], r)
    BY <2>1, <2>3 DEF Row, SameTerms
  <2> QED
    BY <1>2, <2>4, <2>5, <2>6, NoRowAssumption DEF IsRow
<1> QED
  BY <1>1, <1>2

-----------------------------------------------------------------------------
(***************************************************************************)
(* The invariants of the fleet.  None is inductive alone: switching a GPU  *)
(* on needs DeletedIsOff and LiveOnlyOnPresent to know that a revived one  *)
(* holds nothing, and deleting a server needs LiveOnlyOnPresent to know    *)
(* that the GPUs it skips hold nothing.                                    *)
(***************************************************************************)
FleetCore ==
  /\ DeletedIsOff
  /\ PausedOnlyWhileOff
  /\ LiveOnlyOnPresent
FleetInv == FleetCore /\ RunningOnlyWhileOn /\ HeldOnlyWithAccess

(* What every request does for them: the core needs nothing else, the      *)
(* other two need the core.                                                *)
FleetKept ==
  /\ FleetCore'
  /\ RunningOnlyWhileOn => RunningOnlyWhileOn'
  /\ HeldOnlyWithAccess => HeldOnlyWithAccess'

LEMMA FleetInit == Init => FleetInv
<1> SUFFICES ASSUME Init PROVE FleetInv
  OBVIOUS
<1>1. \A r \in Rids : ~IsRow(r)
  BY DEF Init, IsRow
<1>2. DeletedIsOff
  BY ServerOfAssumption DEF Init, DeletedIsOff
<1> QED
  BY <1>1, <1>2
  DEF FleetInv, FleetCore, PausedOnlyWhileOff, RunningOnlyWhileOn,
      LiveOnlyOnPresent, HeldOnlyWithAccess

(* Where a row points.                                                     *)
LEMMA RowRange ==
  ASSUME TypeOK, NEW r \in Rids, IsRow(r)
  PROVE  /\ res[r].user \in Users /\ res[r].gpu \in Gpus
         /\ ServerOf[res[r].gpu] \in Servers
         /\ res[r].start \in Nat /\ res[r].end \in Nat
         /\ res[r].start < res[r].end
         /\ res[r].status \in Status
  BY ServerOfAssumption DEF TypeOK, IsRow, Row

(* Cancelling rows disturbs nothing else.                                  *)
LEMMA CancelKeepsFleet ==
  ASSUME TypeOK, FleetCore, NEW S \in SUBSET Rows, res' = Cancelled(S),
         UNCHANGED <<now, servers, gpus, access>>
  PROVE  FleetKept
<1>1. ASSUME NEW r \in Rids, IsRow(r)'
      PROVE  /\ IsRow(r) /\ SameTerms(res'[r], r) /\ res'[r].end = res[r].end
             /\ res'[r].status # "CANCELLED" => res'[r].status = res[r].status
  BY <1>1, CancelledRow DEF IsRow
<1> QED
  BY <1>1, RowRange
  DEF FleetCore, FleetKept, DeletedIsOff, PausedOnlyWhileOff,
      RunningOnlyWhileOn, LiveOnlyOnPresent, HeldOnlyWithAccess, Effective, SameTerms, Live, Status

(* So does a booking of a GPU that works, on a server its user may use.    *)
LEMMA BookedKeepsFleet ==
  ASSUME TypeOK, FleetCore, NEW u, NEW g \in Gpus, NEW start, NEW end, NEW ram,
         NEW q \in Rids,
         res' = [res EXCEPT ![q] = [user |-> u, gpu |-> g, start |-> start,
                                    end |-> end, ram |-> ram,
                                    status |-> "ACTIVE"]],
         Effective(g), ServerOf[g] \in access[u],
         UNCHANGED <<now, servers, gpus, access>>
  PROVE  FleetKept
<1>1. /\ res'[q].user = u /\ res'[q].gpu = g /\ res'[q].status = "ACTIVE"
      /\ \A r \in Rids : r # q => res'[r] = res[r]
  BY DEF TypeOK
<1>2. gpus[g].present
  BY DEF FleetCore, DeletedIsOff, Effective
<1> QED
  BY <1>1, <1>2
  DEF FleetCore, FleetKept, DeletedIsOff, PausedOnlyWhileOff,
      RunningOnlyWhileOn, LiveOnlyOnPresent, HeldOnlyWithAccess, Effective, IsRow, Live

(* Pausing exactly the GPUs that go down, resuming exactly those that come *)
(* up.                                                                     *)
Follows ==
  \A r \in Rids : IsRow(r)' =>
    IsRow(r) /\ SameTerms(res'[r], r) /\ (Live(r)' => Live(r))
SwitchKept ==
  /\ PausedOnlyWhileOff' /\ Follows
  /\ RunningOnlyWhileOn => RunningOnlyWhileOn'

LEMMA PauseFollowsSwitch ==
  ASSUME TypeOK, FleetCore, NEW G, res' = Suspended(G), now' = now,
         \A h \in Gpus : Effective(h)' <=> Effective(h) /\ h \notin G
  PROVE  SwitchKept
<1>1. ASSUME NEW r \in Rids, IsRow(r)'
      PROVE  /\ IsRow(r) /\ SameTerms(res'[r], r)
             /\ Live(r)' => Live(r)
             /\ res'[r].status = "SUSPENDED" => ~Effective(res[r].gpu)'
             /\ RunningOnlyWhileOn =>
                  (res'[r].status = "ACTIVE" /\ res'[r].end > now =>
                     Effective(res[r].gpu)')
  <2>1. IsRow(r) /\ SameTerms(res'[r], r) /\ res'[r].end = res[r].end
    BY <1>1, SuspendedRow DEF IsRow
  <2>2. Effective(res[r].gpu)' <=> Effective(res[r].gpu) /\ res[r].gpu \notin G
    BY <2>1, RowRange DEF SameTerms
  <2>3. CASE res[r].gpu \in G /\ res[r].status = "ACTIVE" /\ res[r].end > now
    <3>1. res'[r].status = "SUSPENDED"
      BY <2>1, <2>3, SuspendedRow
    <3> QED
      BY <2>1, <2>2, <2>3, <3>1 DEF Live
  <2>4. CASE ~(/\ res[r].gpu \in G /\ res[r].status = "ACTIVE"
               /\ res[r].end > now)
    <3>1. res'[r] = res[r]
      BY <2>4, SuspendedRow
    <3> QED
      BY <2>1, <2>2, <2>4, <3>1
      DEF Live, FleetCore, PausedOnlyWhileOff, RunningOnlyWhileOn
  <2> QED
    BY <2>3, <2>4
<1> QED
  BY <1>1
  DEF SwitchKept, PausedOnlyWhileOff, RunningOnlyWhileOn, Follows, SameTerms

LEMMA ResumeFollowsSwitch ==
  ASSUME TypeOK, FleetCore, NEW G, res' = Resumed(G), now' = now,
         \A h \in Gpus : Effective(h)' <=> Effective(h) \/ h \in G
  PROVE  SwitchKept
<1>1. ASSUME NEW r \in Rids, IsRow(r)'
      PROVE  /\ IsRow(r) /\ SameTerms(res'[r], r)
             /\ Live(r)' => Live(r)
             /\ res'[r].status = "SUSPENDED" => ~Effective(res[r].gpu)'
             /\ RunningOnlyWhileOn =>
                  (res'[r].status = "ACTIVE" /\ res'[r].end > now =>
                     Effective(res[r].gpu)')
  <2>1. IsRow(r) /\ SameTerms(res'[r], r)
    BY <1>1, ResumedRow DEF IsRow
  <2>2. Effective(res[r].gpu)' <=> Effective(res[r].gpu) \/ res[r].gpu \in G
    BY <2>1, RowRange DEF SameTerms
  <2>3. CASE res[r].gpu \in G /\ res[r].status = "SUSPENDED"
    <3>1. res'[r].status = "ACTIVE"
      BY <2>1, <2>3, ResumedRow
    <3> QED
      BY <2>1, <2>2, <2>3, <3>1 DEF Live
  <2>4. CASE ~(res[r].gpu \in G /\ res[r].status = "SUSPENDED")
    <3>1. res'[r] = res[r]
      BY <2>4, ResumedRow
    <3> QED
      BY <2>1, <2>2, <2>4, <3>1
      DEF Live, FleetCore, PausedOnlyWhileOff, RunningOnlyWhileOn
  <2> QED
    BY <2>3, <2>4
<1> QED
  BY <1>1
  DEF SwitchKept, PausedOnlyWhileOff, RunningOnlyWhileOn, Follows, SameTerms

(* Nothing about the rows or about what is usable changes.                 *)
LEMMA RowsStay ==
  ASSUME TypeOK, FleetCore, res' = res, now' = now,
         \A h \in Gpus : Effective(h)' <=> Effective(h)
  PROVE  SwitchKept
<1>1. \A r \in Rids : IsRow(r)' => IsRow(r) /\ (Live(r)' <=> Live(r))
  BY DEF IsRow, Live
<1>2. \A r \in Rids :
        IsRow(r) => (Effective(res[r].gpu)' <=> Effective(res[r].gpu))
  BY RowRange
<1> QED
  BY <1>1, <1>2
  DEF SwitchKept, FleetCore, PausedOnlyWhileOff, RunningOnlyWhileOn, Follows,
      SameTerms

(* The rows follow the switches, and the fleet only gains GPUs and grants. *)
LEMMA FollowsKeepsPlace ==
  ASSUME TypeOK, FleetCore, Follows,
         \A h \in Gpus : gpus[h].present => gpus'[h].present,
         access' = access
  PROVE  LiveOnlyOnPresent' /\ (HeldOnlyWithAccess => HeldOnlyWithAccess')
  BY RowRange
  DEF Follows, FleetCore, LiveOnlyOnPresent, HeldOnlyWithAccess, SameTerms

LEMMA SetGpuKeepsFleet ==
  ASSUME TypeOK, FleetCore, NEW g \in Gpus, NEW on \in BOOLEAN,
         SetGpuActive(g, on)
  PROVE  FleetKept
<1> DEFINE up == on /\ servers[ServerOf[g]].active
<1>1. /\ gpus[g].present
      /\ UNCHANGED <<now, servers, access>>
      /\ gpus'[g].active = on /\ gpus'[g].present = gpus[g].present
      /\ \A h \in Gpus : h # g => gpus'[h] = gpus[h]
  BY DEF SetGpuActive, TypeOK
<1>2. DeletedIsOff'
  BY <1>1 DEF FleetCore, DeletedIsOff
<1>3. \A h \in Gpus : Effective(h)' <=> IF h = g THEN up ELSE Effective(h)
  BY <1>1, ServerOfAssumption DEF Effective
<1>4. SwitchKept
  <2>1. CASE Effective(g) /\ ~up
    <3>1. res' = Suspended({g})
      BY <2>1 DEF SetGpuActive
    <3> QED
      BY <1>1, <1>3, <2>1, <3>1, PauseFollowsSwitch
  <2>2. CASE ~Effective(g) /\ up
    <3>1. res' = Resumed({g})
      BY <2>2 DEF SetGpuActive
    <3> QED
      BY <1>1, <1>3, <2>2, <3>1, ResumeFollowsSwitch
  <2>3. CASE ~(Effective(g) /\ ~up) /\ ~(~Effective(g) /\ up)
    <3>1. res' = res
      BY <2>3 DEF SetGpuActive
    <3> QED
      BY <1>1, <1>3, <2>3, <3>1, RowsStay DEF Effective
  <2> QED
    BY <2>1, <2>2, <2>3
<1>5. \A h \in Gpus : gpus[h].present => gpus'[h].present
  BY <1>1
<1> QED
  BY <1>1, <1>2, <1>4, <1>5, FollowsKeepsPlace
  DEF SwitchKept, FleetCore, FleetKept

LEMMA SetServerKeepsFleet ==
  ASSUME TypeOK, FleetCore, NEW s \in Servers, NEW on \in BOOLEAN,
         SetServerActive(s, on)
  PROVE  FleetKept
<1> DEFINE G == {g \in GpusOf(s) : gpus[g].active}
<1>1. /\ servers[s].present
      /\ UNCHANGED <<now, gpus, access>>
      /\ servers'[s].active = on /\ servers'[s].present = servers[s].present
      /\ \A t \in Servers : t # s => servers'[t] = servers[t]
  BY DEF SetServerActive, TypeOK
<1>2. DeletedIsOff'
  BY <1>1, ServerOfAssumption DEF FleetCore, DeletedIsOff
<1>3. \A g \in Gpus : Effective(g)' <=> IF ServerOf[g] = s
                                       THEN gpus[g].active /\ on
                                       ELSE Effective(g)
  BY <1>1, ServerOfAssumption DEF Effective
<1>4. SwitchKept
  <2>1. CASE servers[s].active /\ ~on
    <3>1. res' = Suspended(GpusOf(s))
      BY <2>1 DEF SetServerActive
    <3>2. \A g \in Gpus : Effective(g)' <=> Effective(g) /\ g \notin GpusOf(s)
      BY <1>3, <2>1 DEF GpusOf
    <3> QED
      BY <1>1, <3>1, <3>2, PauseFollowsSwitch
  <2>2. CASE ~servers[s].active /\ on
    <3>1. res' = Resumed(G)
      BY <2>2 DEF SetServerActive
    <3>2. \A g \in Gpus : Effective(g)' <=> Effective(g) \/ g \in G
      BY <1>3, <2>2 DEF GpusOf, Effective
    <3> QED
      BY <1>1, <3>1, <3>2, ResumeFollowsSwitch
  <2>3. CASE ~(servers[s].active /\ ~on) /\ ~(~servers[s].active /\ on)
    <3>1. res' = res
      BY <2>3 DEF SetServerActive
    <3>2. \A g \in Gpus : Effective(g)' <=> Effective(g)
      BY <1>3, <2>3 DEF Effective
    <3> QED
      BY <1>1, <3>1, <3>2, RowsStay
  <2> QED
    BY <2>1, <2>2, <2>3
<1> QED
  BY <1>1, <1>2, <1>4, FollowsKeepsPlace
  DEF SwitchKept, FleetCore, FleetKept

(* What is registered again comes back empty.                              *)
LEMMA CreateServerKeepsFleet ==
  ASSUME TypeOK, FleetCore, NEW s \in Servers, CreateServer(s)
  PROVE  FleetKept
<1>1. /\ UNCHANGED <<now, gpus, res, access>>
      /\ servers'[s].present
      /\ \A t \in Servers : t # s => servers'[t] = servers[t]
  BY DEF CreateServer, TypeOK
<1>2. \A g \in Gpus : ServerOf[g] = s => ~gpus[g].active
  BY DEF CreateServer, FleetCore, DeletedIsOff
<1>3. \A g \in Gpus : Effective(g)' <=> Effective(g)
  BY <1>1, <1>2, ServerOfAssumption DEF Effective
<1>4. DeletedIsOff'
  BY <1>1, ServerOfAssumption DEF FleetCore, DeletedIsOff
<1> QED
  BY <1>1, <1>3, <1>4, RowsStay, FollowsKeepsPlace
  DEF SwitchKept, FleetCore, FleetKept

LEMMA AddGpuKeepsFleet ==
  ASSUME TypeOK, FleetCore, NEW g \in Gpus, NEW m \in GpuRams, AddGpu(g, m)
  PROVE  FleetKept
<1>1. /\ UNCHANGED <<now, servers, res, access>>
      /\ servers[ServerOf[g]].present /\ ~gpus[g].present
      /\ gpus'[g].present /\ gpus'[g].active
      /\ \A h \in Gpus : h # g => gpus'[h] = gpus[h]
  BY DEF AddGpu, TypeOK
<1>2. \A r \in Rids : IsRow(r) /\ Live(r) =>
        res[r].gpu # g /\ gpus'[res[r].gpu] = gpus[res[r].gpu]
  BY <1>1, RowRange DEF FleetCore, LiveOnlyOnPresent
<1>3. DeletedIsOff'
  BY <1>1 DEF FleetCore, DeletedIsOff
<1> QED
  BY <1>1, <1>2, <1>3
  DEF FleetCore, FleetKept, PausedOnlyWhileOff, RunningOnlyWhileOn,
      LiveOnlyOnPresent, HeldOnlyWithAccess, Effective, IsRow, Live

(* Retiring GPUs cancels at least what is live on them.                    *)
Retires(G) ==
  /\ \E S \in SUBSET Rows : LiveOn(G) \subseteq S /\ res' = Cancelled(S)
  /\ gpus' = [g \in Gpus |->
                IF g \in G THEN [gpus[g] EXCEPT !.present = FALSE,
                                                !.active = FALSE]
                ELSE gpus[g]]

LEMMA RetireRetires == \A G : RetireGpus(G) => Retires(G)
<1>1. \A G : LiveOn(G) \in SUBSET Rows
  BY DEF LiveOn
<1> QED
  BY <1>1 DEF RetireGpus, Retires

(* A retired GPU holds nothing live; what is still live is as it was.      *)
LEMMA RetiredRow ==
  ASSUME TypeOK, NEW G \in SUBSET Gpus, Retires(G), NEW r \in Rids, IsRow(r)'
  PROVE  /\ IsRow(r) /\ SameTerms(res'[r], r)
         /\ Live(r)' => res'[r] = res[r] /\ res[r].gpu \notin G
<1>1. PICK S \in SUBSET Rows : LiveOn(G) \subseteq S /\ res' = Cancelled(S)
  BY DEF Retires
<1>2. IsRow(r) /\ SameTerms(res'[r], r)
  BY <1>1, CancelledRow DEF IsRow
<1>3. CASE r \in S
  BY <1>1, <1>2, <1>3, CancelledRow DEF Live
<1>4. CASE r \notin S
  <2>1. res'[r] = res[r]
    BY <1>1, <1>4, CancelledRow
  <2> QED
    BY <1>1, <1>2, <1>4, <2>1 DEF Live, LiveOn, Rows
<1> QED
  BY <1>3, <1>4

LEMMA DeleteGpuKeepsFleet ==
  ASSUME TypeOK, FleetCore, NEW g \in Gpus, Retires({g}),
         UNCHANGED <<now, servers, access>>
  PROVE  FleetKept
<1>1. Retires({g}) /\ UNCHANGED <<now, servers, access>>
  OBVIOUS
<1>2. /\ ~gpus'[g].present /\ ~gpus'[g].active
      /\ \A h \in Gpus : h # g => gpus'[h] = gpus[h]
  BY DEF Retires, TypeOK
<1>3. DeletedIsOff'
  BY <1>1, <1>2 DEF FleetCore, DeletedIsOff
<1>4. \A r \in Rids : IsRow(r)' /\ Live(r)' =>
        /\ IsRow(r) /\ res'[r] = res[r]
        /\ res[r].gpu \in Gpus /\ gpus'[res[r].gpu] = gpus[res[r].gpu]
  BY <1>1, <1>2, RetiredRow, RowRange
<1> QED
  BY <1>1, <1>3, <1>4
  DEF FleetCore, FleetKept, PausedOnlyWhileOff, RunningOnlyWhileOn,
      LiveOnlyOnPresent, HeldOnlyWithAccess, Effective, Live

(* The GPUs a deleted server leaves out were deleted before, so nothing    *)
(* live is on them.                                                        *)
LEMMA DeleteServerKeepsFleet ==
  ASSUME TypeOK, FleetCore, NEW s \in Servers, Retires(PresentGpusOf(s)),
         now' = now, access' = [u \in Users |-> access[u] \ {s}],
         servers' = [servers EXCEPT ![s] = [present |-> FALSE, active |-> FALSE]]
  PROVE  FleetKept
<1> DEFINE G == PresentGpusOf(s)
<1>1. /\ G \in SUBSET Gpus /\ Retires(G)
      /\ now' = now
      /\ access' = [u \in Users |-> access[u] \ {s}]
      /\ ~servers'[s].active /\ ~servers'[s].present
      /\ \A t \in Servers : t # s => servers'[t] = servers[t]
  BY DEF PresentGpusOf, GpusOf, TypeOK
<1>2. /\ \A h \in G : ~gpus'[h].present /\ ~gpus'[h].active
      /\ \A h \in Gpus : h \notin G => gpus'[h] = gpus[h]
  BY <1>1 DEF Retires, TypeOK
<1>3. \A h \in Gpus : gpus'[h].present =>
        gpus'[h] = gpus[h] /\ ServerOf[h] # s
  BY <1>2 DEF PresentGpusOf, GpusOf
<1>4. \A h \in Gpus : h \notin G => gpus'[h].active = gpus[h].active
  BY <1>2
<1>5. DeletedIsOff'
  <2>1. \A h \in Gpus : gpus'[h].active => gpus'[h].present
    BY <1>2 DEF FleetCore, DeletedIsOff
  <2>2. \A h \in Gpus : gpus'[h].present => servers'[ServerOf[h]].present
    BY <1>1, <1>3, ServerOfAssumption DEF FleetCore, DeletedIsOff
  <2> QED
    BY <1>1, <2>1, <2>2 DEF FleetCore, DeletedIsOff
<1>6. ASSUME NEW r \in Rids, IsRow(r)', Live(r)'
      PROVE  /\ IsRow(r) /\ Live(r) /\ res'[r] = res[r]
             /\ res[r].gpu \in Gpus /\ res[r].user \in Users
             /\ gpus'[res[r].gpu] = gpus[res[r].gpu]
             /\ ServerOf[res[r].gpu] # s /\ ServerOf[res[r].gpu] \in Servers
  <2>1. IsRow(r) /\ res'[r] = res[r] /\ res[r].gpu \notin G
    BY <1>1, <1>6, RetiredRow
  <2>2. Live(r)
    BY <1>6, <2>1 DEF Live
  <2>3. gpus[res[r].gpu].present
    BY <2>1, <2>2 DEF FleetCore, LiveOnlyOnPresent
  <2> QED
    BY <1>2, <2>1, <2>2, <2>3, RowRange DEF PresentGpusOf, GpusOf
<1> QED
  BY <1>1, <1>5, <1>6
  DEF FleetCore, FleetKept, PausedOnlyWhileOff, RunningOnlyWhileOn,
      LiveOnlyOnPresent, HeldOnlyWithAccess, Effective, Live

LEMMA SetAccessKeepsFleet ==
  ASSUME TypeOK, FleetCore, NEW u \in Users, NEW S \in SUBSET Servers,
         SetServerAccess(u, S)
  PROVE  FleetKept
<1> DEFINE C == HeldOn(u, access[u] \ S)
<1>1. /\ UNCHANGED <<now, servers, gpus>>
      /\ res' = Cancelled(C) /\ C \in SUBSET Rows
      /\ access'[u] = S
      /\ \A v \in Users : v # u => access'[v] = access[v]
  BY DEF SetServerAccess, HeldOn, TypeOK
<1>2. ASSUME NEW r \in Rids, IsRow(r)', Live(r)'
      PROVE  IsRow(r) /\ Live(r) /\ res'[r] = res[r] /\ r \notin C
  <2>1. IsRow(r)
    BY <1>1, <1>2, CancelledRow DEF IsRow
  <2>2. r \notin C
    BY <1>1, <1>2, CancelledRow DEF Live
  <2>3. res'[r] = res[r]
    BY <1>1, <2>2, CancelledRow
  <2> QED
    BY <1>2, <2>1, <2>2, <2>3 DEF Live
<1>3. ASSUME HeldOnlyWithAccess PROVE HeldOnlyWithAccess'
  <2> SUFFICES ASSUME NEW r \in Rids, IsRow(r)', Live(r)'
               PROVE  ServerOf[res'[r].gpu] \in access'[res'[r].user]
    BY DEF HeldOnlyWithAccess
  <2>1. ServerOf[res[r].gpu] \in access[res[r].user] /\ res[r].user \in Users
    BY <1>2, <1>3, RowRange DEF HeldOnlyWithAccess
  <2>2. res[r].user = u => ServerOf[res[r].gpu] \in S
    BY <1>2, <2>1 DEF HeldOn, Rows
  <2> QED
    BY <1>1, <1>2, <2>1, <2>2
<1> QED
  BY <1>1, <1>2, <1>3
  DEF FleetCore, FleetKept, DeletedIsOff, PausedOnlyWhileOff,
      RunningOnlyWhileOn, LiveOnlyOnPresent, Effective, Live

LEMMA DeleteUserKeepsFleet ==
  ASSUME TypeOK, FleetCore, NEW u \in Users, DeleteUser(u)
  PROVE  FleetKept
<1>1. /\ UNCHANGED <<now, servers, gpus>>
      /\ \A v \in Users : v # u => access'[v] = access[v]
  BY DEF DeleteUser, TypeOK
<1>2. \A r \in Rids : IsRow(r)' =>
        IsRow(r) /\ res'[r] = res[r] /\ res[r].user # u
  BY DEF DeleteUser, IsRow
<1> QED
  BY <1>1, <1>2, RowRange
  DEF FleetCore, FleetKept, DeletedIsOff, PausedOnlyWhileOff,
      RunningOnlyWhileOn, LiveOnlyOnPresent, HeldOnlyWithAccess, Effective, Live

(* Time only ends reservations.                                            *)
LEMMA QuietKeepsFleet ==
  ASSUME TypeOK, FleetCore, UNCHANGED <<servers, gpus, res, access>>,
         now' \in Nat, now' >= now
  PROVE  FleetKept
<1>1. \A r \in Rids :
        IsRow(r)' => IsRow(r) /\ (res'[r].end > now' => res[r].end > now)
  BY RowRange DEF IsRow, TypeOK
<1> QED
  BY <1>1
  DEF FleetCore, FleetKept, DeletedIsOff, PausedOnlyWhileOff,
      RunningOnlyWhileOn, LiveOnlyOnPresent, HeldOnlyWithAccess, Effective, Live

LEMMA CoreStep == TypeOK /\ FleetCore /\ [Next]_vars => FleetKept
<1> SUFFICES ASSUME TypeOK, FleetCore, [Next]_vars PROVE FleetKept
  OBVIOUS
<1>1. ASSUME NEW r \in Rids, CancelReservation(r) PROVE FleetKept
  <2>1. {r} \in SUBSET Rows
    BY <1>1 DEF CancelReservation, Rows
  <2> QED
    BY <1>1, <2>1, CancelKeepsFleet DEF CancelReservation
<1>2. ASSUME NEW u \in Users, CancelForUser(u) PROVE FleetKept
  <2>1. HeldUpcoming(u) \in SUBSET Rows
    BY DEF HeldUpcoming
  <2> QED
    BY <1>2, <2>1, CancelKeepsFleet DEF CancelForUser
<1>3. CASE CancelAll
  BY <1>3, CancelKeepsFleet DEF CancelAll
<1>4. ASSUME NEW u \in Users, NEW g \in Gpus, NEW start, NEW end, NEW ram,
             CreateReservation(u, g, start, end, ram)
      PROVE  FleetKept
  BY <1>4, BookedKeepsFleet DEF CreateReservation, CanBook
<1>5. ASSUME \/ \E g \in Gpus : DeleteGpu(g)
             \/ \E s \in Servers : DeleteServer(s)
      PROVE  FleetKept
  BY <1>5, RetireRetires, DeleteGpuKeepsFleet, DeleteServerKeepsFleet
  DEF DeleteGpu, DeleteServer
<1>6. ASSUME \/ \E u \in Users, n \in GpuLimits : SetMaxConcurrentGpus(u, n)
             \/ \E rg \in Regulations : UpdateRegulation(rg)
             \/ Tick
             \/ UNCHANGED vars
      PROVE  FleetKept
  <2>1. /\ UNCHANGED <<servers, gpus, res, access>>
        /\ now' \in Nat /\ now' >= now
    BY <1>6 DEF SetMaxConcurrentGpus, UpdateRegulation, Tick, vars, TypeOK
  <2> QED
    BY <2>1, QuietKeepsFleet
<1> QED
  BY <1>1, <1>2, <1>3, <1>4, <1>5, <1>6, SetGpuKeepsFleet,
     SetServerKeepsFleet, CreateServerKeepsFleet, AddGpuKeepsFleet,
     SetAccessKeepsFleet, DeleteUserKeepsFleet
  DEF Next, StudentNext, ReservationAdminNext, FleetNext, UserAdminNext,
      UserSettings

LEMMA FleetStep == TypeOK /\ FleetInv /\ [Next]_vars => FleetInv'
  BY CoreStep DEF FleetInv, FleetKept

(* What is deleted stays off whatever the reservations are: nothing but    *)
(* the fleet's own requests is at work.                                    *)
LEMMA DeletedStep == TypeOK /\ DeletedIsOff /\ [Next]_vars => DeletedIsOff'
<1> SUFFICES ASSUME TypeOK, DeletedIsOff, [Next]_vars PROVE DeletedIsOff'
  OBVIOUS
<1>1. ASSUME UNCHANGED <<servers, gpus>> PROVE DeletedIsOff'
  BY <1>1 DEF DeletedIsOff
<1>2. ASSUME NEW g \in Gpus, NEW on \in BOOLEAN, SetGpuActive(g, on)
      PROVE  DeletedIsOff'
  BY <1>2 DEF SetGpuActive, TypeOK, DeletedIsOff
<1>3. ASSUME NEW s \in Servers, NEW on \in BOOLEAN, SetServerActive(s, on)
      PROVE  DeletedIsOff'
  BY <1>3, ServerOfAssumption DEF SetServerActive, TypeOK, DeletedIsOff
<1>4. ASSUME NEW s \in Servers, CreateServer(s) PROVE DeletedIsOff'
  BY <1>4, ServerOfAssumption DEF CreateServer, TypeOK, DeletedIsOff
<1>5. ASSUME NEW g \in Gpus, NEW m \in GpuRams, AddGpu(g, m)
      PROVE  DeletedIsOff'
  BY <1>5, ServerOfAssumption DEF AddGpu, TypeOK, DeletedIsOff
<1>6. ASSUME NEW g \in Gpus, DeleteGpu(g) PROVE DeletedIsOff'
  BY <1>6 DEF DeleteGpu, RetireGpus, TypeOK, DeletedIsOff
<1>7. ASSUME NEW s \in Servers, DeleteServer(s) PROVE DeletedIsOff'
  <2>1. /\ RetireGpus(PresentGpusOf(s))
        /\ ~servers'[s].active /\ ~servers'[s].present
        /\ \A v \in Servers : v # s => servers'[v] = servers[v]
    BY <1>7 DEF DeleteServer, TypeOK
  <2>2. \A h \in Gpus :
          IF h \in PresentGpusOf(s)
          THEN ~gpus'[h].present /\ ~gpus'[h].active
          ELSE gpus'[h] = gpus[h]
    BY <2>1 DEF RetireGpus, TypeOK
  <2> QED
    BY <2>1, <2>2, ServerOfAssumption DEF DeletedIsOff, PresentGpusOf, GpusOf
<1> QED
  BY <1>1, <1>2, <1>3, <1>4, <1>5, <1>6, <1>7
  DEF Next, StudentNext, ReservationAdminNext, FleetNext, UserAdminNext,
      UserSettings, CreateReservation, CancelReservation, CancelForUser,
      CancelAll, SetServerAccess, SetMaxConcurrentGpus, DeleteUser,
      UpdateRegulation, Tick, vars

LEMMA FleetInvariant == Spec => []FleetInv
  BY FleetInit, FleetStep, TypeCorrect, PTL DEF Spec

(* Soft deletion always switches off, so is_active alone is the gate.      *)
THEOREM DeletedStaysOff == Spec => []DeletedIsOff
<1>1. FleetInv => DeletedIsOff
  BY DEF FleetInv, FleetCore
<1> QED
  BY <1>1, FleetInvariant, PTL

(* No paused reservation is stranded on a GPU that works again.            *)
THEOREM NobodyStranded == Spec => []PausedOnlyWhileOff
<1>1. FleetInv => PausedOnlyWhileOff
  BY DEF FleetInv, FleetCore
<1> QED
  BY <1>1, FleetInvariant, PTL

(* No reservation runs, or is about to, on a GPU that is switched off.     *)
THEOREM NothingRunsWhileOff == Spec => []RunningOnlyWhileOn
<1>1. FleetInv => RunningOnlyWhileOn
  BY DEF FleetInv, FleetCore
<1> QED
  BY <1>1, FleetInvariant, PTL

(* Removing a GPU removes what was live on it.                             *)
THEOREM RemovedHoldsNothing == Spec => []LiveOnlyOnPresent
<1>1. FleetInv => LiveOnlyOnPresent
  BY DEF FleetInv, FleetCore
<1> QED
  BY <1>1, FleetInvariant, PTL

(* What a student holds is on servers the student may use.                 *)
THEOREM AccessIsKept == Spec => []HeldOnlyWithAccess
<1>1. FleetInv => HeldOnlyWithAccess
  BY DEF FleetInv, FleetCore
<1> QED
  BY <1>1, FleetInvariant, PTL

-----------------------------------------------------------------------------
(***************************************************************************)
(* What a request may do to a row, and which rows may vanish.              *)
(***************************************************************************)
LEMMA CancelKeepsTerms ==
  ASSUME TypeOK, NEW S \in SUBSET Rows, \A r \in S : Live(r),
         res' = Cancelled(S)
  PROVE  TermsStep /\ ErasedStep
<1>1. ASSUME NEW r \in Rids, IsRow(r)
      PROVE  res'[r] # NoRow /\ KeepsItsTerms(r)
  <2>1. CASE r \in S
    BY <1>1, <2>1, CancelledRow, RowRange DEF KeepsItsTerms, SameTerms, Live
  <2>2. CASE r \notin S
    BY <1>1, <2>2, CancelledRow DEF KeepsItsTerms, IsRow
  <2> QED
    BY <2>1, <2>2
<1> QED
  BY <1>1 DEF TermsStep, ErasedStep

LEMMA SuspendKeepsTerms ==
  ASSUME TypeOK, NEW G, res' = Suspended(G)
  PROVE  TermsStep /\ ErasedStep
<1>1. ASSUME NEW r \in Rids, IsRow(r)
      PROVE  res'[r] # NoRow /\ KeepsItsTerms(r)
  <2>1. CASE res[r].status = "ACTIVE"
    BY <1>1, <2>1, SuspendedRow DEF KeepsItsTerms, SameTerms
  <2>2. CASE res[r].status # "ACTIVE"
    BY <1>1, <2>2, SuspendedRow DEF KeepsItsTerms, IsRow
  <2> QED
    BY <2>1, <2>2
<1> QED
  BY <1>1 DEF TermsStep, ErasedStep

LEMMA ResumeKeepsTerms ==
  ASSUME TypeOK, NEW G, res' = Resumed(G)
  PROVE  TermsStep /\ ErasedStep
<1>1. ASSUME NEW r \in Rids, IsRow(r)
      PROVE  res'[r] # NoRow /\ KeepsItsTerms(r)
  <2>1. CASE res[r].gpu \in G /\ res[r].status = "SUSPENDED"
    BY <1>1, <2>1, ResumedRow DEF KeepsItsTerms, SameTerms
  <2>2. CASE ~(res[r].gpu \in G /\ res[r].status = "SUSPENDED")
    BY <1>1, <2>2, ResumedRow DEF KeepsItsTerms, IsRow
  <2> QED
    BY <2>1, <2>2
<1> QED
  BY <1>1 DEF TermsStep, ErasedStep

LEMMA SameKeepsTerms ==
  ASSUME \A r \in Rids : IsRow(r) => res'[r] = res[r]
  PROVE  TermsStep /\ ErasedStep
  BY DEF TermsStep, ErasedStep, KeepsItsTerms, IsRow

LEMMA TermsInNext == TypeOK /\ [Next]_vars => TermsStep /\ ErasedStep
<1> SUFFICES ASSUME TypeOK, [Next]_vars PROVE TermsStep /\ ErasedStep
  OBVIOUS
<1>1. ASSUME NEW u \in Users, NEW g \in Gpus, NEW start \in 0..MaxTime,
             NEW end \in 0..MaxTime, NEW ram \in Rams,
             CreateReservation(u, g, start, end, ram)
      PROVE  TermsStep /\ ErasedStep
  <2>1. PICK q \in Rids :
          /\ IsNextId(q)
          /\ res' = [res EXCEPT ![q] =
                       [user |-> u, gpu |-> g, start |-> start, end |-> end,
                        ram |-> ram, status |-> "ACTIVE"]]
    BY <1>1 DEF CreateReservation
  <2>2. q \in Int
    BY <2>1 DEF Rids
  <2>3. ~IsRow(q)
    BY <2>1, <2>2 DEF IsNextId
  <2>4. \A r \in Rids : r # q => res'[r] = res[r]
    BY <2>1 DEF TypeOK
  <2> QED
    BY <2>3, <2>4, SameKeepsTerms
<1>2. ASSUME NEW r \in Rids, CancelReservation(r)
      PROVE  TermsStep /\ ErasedStep
  <2>1. {r} \in SUBSET Rows /\ Live(r)
    BY <1>2, RowRange DEF CancelReservation, Rows, Live, Status
  <2> QED
    BY <1>2, <2>1, CancelKeepsTerms DEF CancelReservation
<1>3. ASSUME NEW u \in Users, CancelForUser(u) PROVE TermsStep /\ ErasedStep
  <2>1. HeldUpcoming(u) \in SUBSET Rows /\ \A r \in HeldUpcoming(u) : Live(r)
    BY DEF HeldUpcoming
  <2> QED
    BY <1>3, <2>1, CancelKeepsTerms DEF CancelForUser
<1>4. CASE CancelAll
  BY <1>4, CancelKeepsTerms DEF CancelAll
<1>5. ASSUME NEW g \in Gpus, NEW on \in BOOLEAN, SetGpuActive(g, on)
      PROVE  TermsStep /\ ErasedStep
  <2>1. res' \in {Suspended({g}), Resumed({g}), res}
    BY <1>5 DEF SetGpuActive
  <2> QED
    BY <2>1, SuspendKeepsTerms, ResumeKeepsTerms, SameKeepsTerms
<1>6. ASSUME NEW s \in Servers, NEW on \in BOOLEAN, SetServerActive(s, on)
      PROVE  TermsStep /\ ErasedStep
  <2> DEFINE G == {g \in GpusOf(s) : gpus[g].active}
  <2>1. res' \in {Suspended(GpusOf(s)), Resumed(G), res}
    BY <1>6 DEF SetServerActive
  <2> QED
    BY <2>1, SuspendKeepsTerms, ResumeKeepsTerms, SameKeepsTerms
<1>7. ASSUME NEW G, RetireGpus(G) PROVE TermsStep /\ ErasedStep
  <2>1. LiveOn(G) \in SUBSET Rows /\ \A r \in LiveOn(G) : Live(r)
    BY DEF LiveOn
  <2> QED
    BY <1>7, <2>1, CancelKeepsTerms DEF RetireGpus
<1>8. ASSUME NEW u \in Users, NEW S \in SUBSET Servers, SetServerAccess(u, S)
      PROVE  TermsStep /\ ErasedStep
  BY <1>8, CancelKeepsTerms DEF SetServerAccess, HeldOn
<1>9. ASSUME NEW u \in Users, DeleteUser(u) PROVE TermsStep /\ ErasedStep
  <2>1. \A r \in Rids : IsRow(r) =>
          res'[r] = IF res[r].user = u THEN NoRow ELSE res[r]
    BY <1>9 DEF DeleteUser
  <2> QED
    BY <2>1 DEF TermsStep, ErasedStep, KeepsItsTerms, IsRow
<1>10. ASSUME res' = res PROVE TermsStep /\ ErasedStep
  BY <1>10, SameKeepsTerms
<1> QED
  BY <1>1, <1>2, <1>3, <1>4, <1>5, <1>6, <1>7, <1>8, <1>9, <1>10
  DEF Next, StudentNext, ReservationAdminNext, FleetNext, UserAdminNext,
      UserSettings,
      CreateServer, AddGpu, DeleteGpu, DeleteServer, SetMaxConcurrentGpus,
      UpdateRegulation, Tick, vars

(* Cancelled is final; a window moves only when a paused row resumes, and  *)
(* keeps its length; the rest of a booking never changes.                  *)
THEOREM BookingsKeepTheirTerms == Spec => TermsAreKept
<1>1. TypeOK /\ [Next]_vars => [TermsStep]_vars
  BY TermsInNext
<1> QED
  BY <1>1, TypeCorrect, PTL DEF Spec, TermsAreKept

(* A row disappears only together with all of its owner's rows.            *)
THEOREM HistoryGoesWithTheAccount == Spec => HistoryIsKept
<1>1. TypeOK /\ [Next]_vars => [ErasedStep]_vars
  BY TermsInNext
<1> QED
  BY <1>1, TypeCorrect, PTL DEF Spec, HistoryIsKept
-----------------------------------------------------------------------------
(***************************************************************************)
(* The two limits of a student.  A step that neither books nor resumes     *)
(* only lets go of what is held.                                           *)
(***************************************************************************)
Fades ==
  /\ now' >= now
  /\ \A r \in Rids : IsRow(r)' /\ Live(r)' =>
       /\ IsRow(r) /\ Live(r) /\ SameTerms(res'[r], r)
       /\ res'[r].start = res[r].start /\ res'[r].end = res[r].end

LEMMA RidsFinite ==
  ASSUME NEW T \in SUBSET Rids, NEW table
  PROVE  IsFiniteSet(T) /\ IsFiniteSet({table[r].gpu : r \in T})
<1>1. IsFiniteSet(T)
  <2>1. MaxRows \in Int /\ 1 \in Int
    BY RowsAssumption
  <2>2. IsFiniteSet(Rids)
    BY <2>1, FS_Interval DEF Rids
  <2> QED
    BY <2>2, FS_Subset
<1> DEFINE G == {table[r].gpu : r \in T}
           f == [r \in T |-> table[r].gpu]
<1>2. f \in Surjection(T, G)
  BY DEF Surjection
<1> QED
  BY <1>1, <1>2, FS_Surjection

LEMMA HeldFinite ==
  ASSUME NEW u, NEW from, NEW to
  PROVE  /\ HeldUpcoming(u) \in SUBSET Rids /\ IsFiniteSet(HeldUpcoming(u))
         /\ IsFiniteSet(ConcurrentGpus(u, from, to))
         /\ IsFiniteSet(GpusHeldAt(u, from))
<1> DEFINE C == {q \in Rows : /\ res[q].user = u /\ Live(q)
                              /\ res[q].start < to /\ res[q].end > from}
           H == {q \in Rows : /\ res[q].user = u /\ Live(q)
                              /\ res[q].start <= from /\ from < res[q].end}
<1>1. /\ C \in SUBSET Rids /\ H \in SUBSET Rids
      /\ HeldUpcoming(u) \in SUBSET Rids
  BY DEF HeldUpcoming, Rows
<1> HIDE DEF C, H
<1>2. /\ IsFiniteSet({res[r].gpu : r \in C})
      /\ IsFiniteSet({res[r].gpu : r \in H})
      /\ IsFiniteSet(HeldUpcoming(u))
  BY <1>1, RidsFinite
<1> QED
  BY <1>1, <1>2 DEF C, H, ConcurrentGpus, GpusHeldAt

LEMMA FadingKeepsLimits ==
  ASSUME TypeOK, now' \in Nat, Fades
  PROVE  LimitStep
<1>1. ASSUME NEW u \in Users
      PROVE  Cardinality(HeldUpcoming(u)') <= Cardinality(HeldUpcoming(u))
  <2>1. HeldUpcoming(u)' \subseteq HeldUpcoming(u)
    <3> SUFFICES ASSUME NEW r \in HeldUpcoming(u)'
                 PROVE  r \in HeldUpcoming(u)
      OBVIOUS
    <3>1. /\ r \in Rids /\ IsRow(r)' /\ Live(r)'
          /\ res'[r].user = u /\ res'[r].end > now'
      BY DEF HeldUpcoming, Rows
    <3>2. /\ IsRow(r) /\ Live(r) /\ res[r].user = u
          /\ res[r].end > now' /\ now' >= now
      BY <3>1 DEF Fades, SameTerms
    <3>3. res[r].end \in Nat /\ now \in Nat
      BY <3>1, <3>2, RowRange DEF TypeOK
    <3>4. res[r].end > now
      BY <3>2, <3>3
    <3> QED
      BY <3>1, <3>2, <3>4 DEF HeldUpcoming, Rows
  <2> QED
    BY <2>1, HeldFinite, FS_Subset
<1>2. ASSUME NEW u \in Users, NEW t \in Instants
      PROVE  Cardinality(GpusHeldAt(u, t)') <= Cardinality(GpusHeldAt(u, t))
  <2>1. GpusHeldAt(u, t)' \subseteq GpusHeldAt(u, t)
    BY DEF GpusHeldAt, Rows, Fades, SameTerms
  <2> QED
    BY <2>1, HeldFinite, FS_Subset
<1> QED
  BY <1>1, <1>2 DEF LimitStep

(* What a booking does to the table, whoever makes it.                     *)
Adds(q, u, g, start, end, ram) ==
  /\ ~IsRow(q) /\ IsRow(q)'
  /\ res'[q].user = u /\ res'[q].gpu = g /\ res'[q].start = start
  /\ res'[q].end = end /\ res'[q].ram = ram /\ res'[q].status = "ACTIVE"
  /\ \A r \in Rids : r # q => res'[r] = res[r]

LEMMA BookedRow ==
  ASSUME TypeOK, NEW u \in Users, NEW g \in Gpus, NEW start \in 0..MaxTime,
         NEW end \in 0..MaxTime, NEW ram \in Rams,
         CreateReservation(u, g, start, end, ram)
  PROVE  \E q \in Rids : Adds(q, u, g, start, end, ram)
<1> DEFINE new == [user |-> u, gpu |-> g, start |-> start, end |-> end,
                   ram |-> ram, status |-> "ACTIVE"]
<1>1. PICK q \in Rids : IsNextId(q) /\ res' = [res EXCEPT ![q] = new]
  BY DEF CreateReservation
<1>2. ~IsRow(q)
  <2>1. q \in Int
    BY DEF Rids
  <2> QED
    BY <1>1, <2>1 DEF IsNextId
<1>3. /\ new \in Row
      /\ new.user = u /\ new.gpu = g /\ new.start = start /\ new.end = end
      /\ new.ram = ram /\ new.status = "ACTIVE"
  BY RamsAssumption, TimeAssumption
  DEF CreateReservation, CanBook, CanBookUnder, Row, Status
<1> HIDE DEF new
<1>4. /\ res'[q] = new /\ new # NoRow
      /\ \A r \in Rids : r # q => res'[r] = res[r]
  BY <1>1, <1>3, NoRowAssumption DEF TypeOK
<1> QED
  BY <1>2, <1>3, <1>4 DEF Adds, IsRow

(* A booking counts for one, and for its student only.                     *)
LEMMA CountOfBooking ==
  ASSUME NEW q \in Rids, NEW u, NEW g, NEW start, NEW end, NEW ram,
         Adds(q, u, g, start, end, ram), now' = now, NEW v
  PROVE  /\ Cardinality(HeldUpcoming(v)) \in Nat
         /\ Cardinality(HeldUpcoming(v)') \in Nat
         /\ Cardinality(HeldUpcoming(v)') <= Cardinality(HeldUpcoming(v)) + 1
         /\ v # u =>
              Cardinality(HeldUpcoming(v)') <= Cardinality(HeldUpcoming(v))
<1> DEFINE O == HeldUpcoming(v)
           N == HeldUpcoming(v)'
<1>1. /\ N \subseteq O \cup {q}
      /\ v # u => N \subseteq O
  BY DEF Adds, HeldUpcoming, Rows, IsRow, Live
<1>2. IsFiniteSet(O)
  BY HeldFinite
<1> HIDE DEF N, O
<1>3. /\ Cardinality(O) \in Nat /\ IsFiniteSet(O \cup {q})
      /\ Cardinality(O \cup {q}) = IF q \in O THEN Cardinality(O)
                                   ELSE Cardinality(O) + 1
  BY <1>2, FS_AddElement, FS_CardinalityType
<1>4. IsFiniteSet(N) /\ Cardinality(N) <= Cardinality(O \cup {q})
  BY <1>1, <1>3, FS_Subset
<1>5. Cardinality(N) \in Nat
  BY <1>4, FS_CardinalityType
<1>6. v # u => Cardinality(N) <= Cardinality(O)
  BY <1>1, <1>2, FS_Subset
<1>7. Cardinality(N) <= Cardinality(O) + 1
  BY <1>3, <1>4, <1>5
<1> QED
  BY <1>3, <1>5, <1>6, <1>7 DEF N, O

(* A booking is counted against both limits.                               *)
LEMMA LimitsOfBooking ==
  ASSUME TypeOK, NEW q \in Rids, NEW u \in Users, NEW g \in Gpus,
         NEW start \in Nat, NEW end \in Nat, NEW ram,
         Adds(q, u, g, start, end, ram),
         Cardinality(HeldUpcoming(u)) < reg.maxActive,
         \/ g \in ConcurrentGpus(u, start, end)
         \/ Cardinality(ConcurrentGpus(u, start, end)) < gpuLimit[u],
         reg.maxActive \in Nat, UNCHANGED <<now, gpuLimit, reg>>
  PROVE  LimitStep
<1> DEFINE new == res'[q]
<1>2. ~IsRow(q)
  BY DEF Adds
<1>3. /\ new.user = u /\ new.gpu = g /\ new.start = start /\ new.end = end
      /\ new.status = "ACTIVE"
  BY DEF Adds
<1>5. /\ res'[q] = new /\ new # NoRow
      /\ \A r \in Rids : r # q => res'[r] = res[r]
  BY DEF Adds, IsRow
<1> HIDE DEF new
<1>6. ASSUME NEW v \in Users
      PROVE  Cardinality(HeldUpcoming(v)') > reg'.maxActive =>
               Cardinality(HeldUpcoming(v)') <= Cardinality(HeldUpcoming(v))
  BY CountOfBooking
<1>7. ASSUME NEW v \in Users, NEW t \in Instants
      PROVE  Cardinality(GpusHeldAt(v, t)') > gpuLimit'[v] =>
               \/ Cardinality(GpusHeldAt(v, t)') <= Cardinality(GpusHeldAt(v, t))
               \/ BooksOnHeldGpu(v)
  <2> DEFINE C == ConcurrentGpus(u, start, end)
  <2>1. t \in Nat
    BY TimeAssumption DEF Instants
  <2>2. CASE ~(v = u /\ start <= t /\ t < end)
    <3>1. GpusHeldAt(v, t)' \subseteq GpusHeldAt(v, t)
      BY <1>3, <1>5, <2>2 DEF GpusHeldAt, Rows, IsRow, Live
    <3> QED
      BY <3>1, HeldFinite, FS_Subset
  <2>3. CASE v = u /\ g \in C
    BY <1>2, <1>3, <1>5, <2>3 DEF BooksOnHeldGpu
  <2>4. CASE v = u /\ start <= t /\ t < end /\ g \notin C
    <3>1. GpusHeldAt(u, t)' \subseteq C \cup {g}
      <4> SUFFICES ASSUME NEW r \in Rids, IsRow(r)', Live(r)',
                          res'[r].user = u, res'[r].start <= t,
                          t < res'[r].end, r # q
                   PROVE  res'[r].gpu \in C
        BY <1>3, <1>5 DEF GpusHeldAt, Rows
      <4>1. res'[r] = res[r] /\ IsRow(r) /\ Live(r)
        BY <1>5 DEF IsRow, Live
      <4>2. res[r].start \in Nat /\ res[r].end \in Nat
        BY <4>1, RowRange
      <4>3. res[r].start < end /\ res[r].end > start
        BY <2>1, <2>4, <4>1, <4>2
      <4> QED
        BY <4>1, <4>3 DEF ConcurrentGpus, Rows
    <3>2. /\ IsFiniteSet(C) /\ Cardinality(C) \in Nat
          /\ IsFiniteSet(C \cup {g})
          /\ Cardinality(C \cup {g}) = Cardinality(C) + 1
      BY <2>4, HeldFinite, FS_AddElement, FS_CardinalityType
    <3>3. /\ Cardinality(C) < gpuLimit[u] /\ gpuLimit[u] \in Nat
          /\ gpuLimit' = gpuLimit
      BY <2>4 DEF TypeOK
    <3> HIDE DEF C
    <3>4. /\ Cardinality(GpusHeldAt(u, t)') <= Cardinality(C) + 1
          /\ Cardinality(GpusHeldAt(u, t)') \in Nat
      <4> DEFINE N == GpusHeldAt(u, t)'
      <4> HIDE DEF N
      <4>1. N \subseteq C \cup {g}
        BY <3>1 DEF N
      <4>2. IsFiniteSet(N) /\ Cardinality(N) <= Cardinality(C \cup {g})
        BY <3>2, <4>1, FS_Subset
      <4> QED
        BY <3>2, <4>2, FS_CardinalityType DEF N
    <3> QED
      BY <2>4, <3>2, <3>3, <3>4
  <2> QED
    BY <2>2, <2>3, <2>4
<1> QED
  BY <1>6, <1>7 DEF LimitStep

LEMMA BookingKeepsLimits ==
  ASSUME TypeOK, NEW u \in Users, NEW g \in Gpus, NEW start \in 0..MaxTime,
         NEW end \in 0..MaxTime, NEW ram \in Rams,
         CreateReservation(u, g, start, end, ram)
  PROVE  LimitStep
<1>1. PICK q \in Rids : Adds(q, u, g, start, end, ram)
  BY BookedRow
<1>2. /\ CanBookUnder(reg, u, g, start, end, ram)
      /\ reg' = reg /\ UNCHANGED <<now, gpuLimit>>
  BY DEF CreateReservation, CanBook
<1>3. start \in Nat /\ end \in Nat
  BY TimeAssumption
<1>4. reg.maxActive \in Nat
  BY RegulationsAssumption DEF TypeOK
<1> QED
  BY <1>1, <1>2, <1>3, <1>4, LimitsOfBooking DEF CanBookUnder

(* Every other step only lets go of what is held, or resumes.              *)
Books ==
  \E u \in Users, g \in Gpus, start, end \in 0..MaxTime, ram \in Rams :
    CreateReservation(u, g, start, end, ram)
OldRows == \A r \in Rids : IsRow(r)' => IsRow(r)
StepKind == Books \/ (OldRows /\ (Fades \/ Resumes))

LEMMA NowStep ==
  ASSUME TypeOK, Next
  PROVE  now \in Nat /\ now' \in Nat /\ now' >= now
<1>1. now \in Nat /\ (now' = now \/ now' = now + 1)
  BY DEF TypeOK, Next, StudentNext, ReservationAdminNext, FleetNext,
         UserAdminNext, UserSettings, CreateReservation, CancelReservation,
         CancelForUser, CancelAll, SetGpuActive, SetServerActive,
         CreateServer, AddGpu, DeleteGpu, DeleteServer, SetServerAccess,
         SetMaxConcurrentGpus, DeleteUser, UpdateRegulation, Tick
<1> QED
  BY <1>1

LEMMA KindOfStep ==
  ASSUME TypeOK, Next
  PROVE  StepKind
<1>0. now \in Nat /\ now' \in Nat /\ now' >= now
  BY NowStep
<1>1. ASSUME NEW S \in SUBSET Rows, res' = Cancelled(S) PROVE StepKind
  <2>1. ASSUME NEW r \in Rids, IsRow(r)', Live(r)'
        PROVE  IsRow(r) /\ Live(r) /\ res'[r] = res[r]
    BY <1>1, <2>1, CancelledRow DEF IsRow, Live
  <2>2. OldRows
    BY <1>1, CancelledRow DEF OldRows, IsRow
  <2> QED
    BY <1>0, <2>1, <2>2 DEF StepKind, Fades, SameTerms
<1>2. ASSUME NEW G, res' = Suspended(G) PROVE StepKind
  <2>1. ASSUME NEW r \in Rids, IsRow(r)', Live(r)'
        PROVE  /\ IsRow(r) /\ Live(r) /\ SameTerms(res'[r], r)
               /\ res'[r].start = res[r].start /\ res'[r].end = res[r].end
    <3>1. IsRow(r)
      BY <1>2, <2>1, SuspendedRow DEF IsRow
    <3>2. CASE res[r].status = "ACTIVE"
      BY <1>2, <3>1, <3>2, SuspendedRow DEF Live
    <3>3. CASE res[r].status # "ACTIVE"
      BY <1>2, <2>1, <3>1, <3>3, SuspendedRow DEF Live, SameTerms
    <3> QED
      BY <3>2, <3>3
  <2>2. OldRows
    BY <1>2, SuspendedRow DEF OldRows, IsRow
  <2> QED
    BY <1>0, <2>1, <2>2 DEF StepKind, Fades
<1>3. ASSUME NEW G, res' = Resumed(G) PROVE StepKind
  <2>0. OldRows
    BY <1>3, ResumedRow DEF OldRows, IsRow
  <2>1. CASE \E r \in Rids : /\ IsRow(r) /\ res[r].gpu \in G
                            /\ res[r].status = "SUSPENDED"
    <3>1. Resumes
      BY <1>3, <2>1, ResumedRow DEF Resumes, Rows
    <3> QED
      BY <2>0, <3>1 DEF StepKind
  <2>2. CASE ~\E r \in Rids : /\ IsRow(r) /\ res[r].gpu \in G
                             /\ res[r].status = "SUSPENDED"
    <3>1. \A r \in Rids : res'[r] = res[r]
      BY <1>3, <2>2, ResumedRow
    <3> QED
      BY <1>0, <2>0, <3>1 DEF StepKind, Fades, SameTerms, IsRow, Live
  <2> QED
    BY <2>1, <2>2
<1>4. ASSUME res' = res PROVE StepKind
  BY <1>0, <1>4 DEF StepKind, OldRows, Fades, SameTerms, IsRow, Live
<1>5. ASSUME NEW r \in Rids, CancelReservation(r) PROVE StepKind
  BY <1>1, <1>5 DEF CancelReservation, Rows
<1>6. ASSUME NEW u \in Users, CancelForUser(u) PROVE StepKind
  BY <1>1, <1>6 DEF CancelForUser, HeldUpcoming
<1>7. CASE CancelAll
  BY <1>1, <1>7 DEF CancelAll
<1>8. ASSUME NEW g \in Gpus, NEW on \in BOOLEAN, SetGpuActive(g, on)
      PROVE  StepKind
  <2>1. res' \in {Suspended({g}), Resumed({g}), res}
    BY <1>8 DEF SetGpuActive
  <2> QED
    BY <1>2, <1>3, <1>4, <2>1
<1>9. ASSUME NEW s \in Servers, NEW on \in BOOLEAN, SetServerActive(s, on)
      PROVE  StepKind
  <2> DEFINE G == {g \in GpusOf(s) : gpus[g].active}
  <2>1. res' \in {Suspended(GpusOf(s)), Resumed(G), res}
    BY <1>9 DEF SetServerActive
  <2> QED
    BY <1>2, <1>3, <1>4, <2>1
<1>10. ASSUME NEW G, RetireGpus(G) PROVE StepKind
  BY <1>1, <1>10 DEF RetireGpus, LiveOn
<1>11. ASSUME NEW u \in Users, NEW S \in SUBSET Servers, SetServerAccess(u, S)
       PROVE  StepKind
  BY <1>1, <1>11 DEF SetServerAccess, HeldOn
<1>12. ASSUME NEW u \in Users, DeleteUser(u) PROVE StepKind
  <2>1. \A r \in Rids : IsRow(r)' => IsRow(r) /\ res'[r] = res[r]
    BY <1>12 DEF DeleteUser, IsRow
  <2> QED
    BY <1>0, <2>1 DEF StepKind, OldRows, Fades, SameTerms, Live
<1> QED
  BY <1>4, <1>5, <1>6, <1>7, <1>8, <1>9, <1>10, <1>11, <1>12
  DEF StepKind, Books, Next, StudentNext, ReservationAdminNext, FleetNext, UserAdminNext,
      UserSettings, CreateServer, AddGpu, DeleteGpu, DeleteServer,
      SetMaxConcurrentGpus, UpdateRegulation, Tick

LEMMA LimitsInNext == TypeOK /\ [Next]_vars => [LimitStep]_vars
<1> SUFFICES ASSUME TypeOK, Next PROVE LimitStep
  OBVIOUS
<1>1. CASE Books
  BY <1>1, BookingKeepsLimits DEF Books
<1>2. CASE Fades
  <2>1. now' \in Nat
    BY NowStep
  <2> QED
    BY <1>2, <2>1, FadingKeepsLimits
<1>3. CASE Resumes
  BY <1>3 DEF LimitStep
<1> QED
  BY <1>1, <1>2, <1>3, KindOfStep DEF StepKind

(* A student's limits on reservations and on GPUs held at one instant give *)
(* way only to a resume, and to a booking on a GPU the student already     *)
(* holds in the window it names.                                           *)
THEOREM LimitsHold == Spec => LimitsGiveWayOnlyThere
<1> QED
  BY LimitsInNext, TypeCorrect, PTL DEF Spec, LimitsGiveWayOnlyThere

-----------------------------------------------------------------------------
(***************************************************************************)
(* The RAM a GPU holds.  What a booking is let in on is the sweep's answer *)
(* for its window, and the sweep is never below what is held in it; every  *)
(* other step that does not resume only lets go.  What a live row asks for *)
(* is more than nothing: fewer rows hold no more.                          *)
(***************************************************************************)
RamsPositive == \A r \in Rids : IsRow(r) /\ Live(r) => res[r].ram > 0

ActiveIn(table, g) ==
  [r \in {q \in {x \in Rids : table[x] # NoRow} :
            table[q].gpu = g /\ table[q].status = "ACTIVE"} |-> table[r]]

LEMMA ActiveInIs ==
  ASSUME NEW table \in [Rids -> Row \cup {NoRow}],
         \A r \in Rids : table[r] # NoRow /\ table[r].status = "ACTIVE"
                          => table[r].ram > 0,
         NEW g
  PROVE  /\ IsList(ActiveIn(table, g))
         /\ \A t : ActiveAt(ActiveIn(table, g), t) =
                     {r \in Rids : /\ table[r] # NoRow /\ table[r].gpu = g
                                   /\ table[r].status = "ACTIVE"
                                   /\ table[r].start <= t /\ t < table[r].end}
         /\ \A r \in DOMAIN ActiveIn(table, g) : ActiveIn(table, g)[r] = table[r]
<1> DEFINE D == {q \in {x \in Rids : table[x] # NoRow} :
                   table[q].gpu = g /\ table[q].status = "ACTIVE"}
           L == ActiveIn(table, g)
<1>1. DOMAIN L = D /\ L = [r \in D |-> table[r]]
  BY DEF ActiveIn
<1>2. D \in SUBSET Rids
  OBVIOUS
<1>3. IsFiniteSet(D)
  BY <1>2, RidsFinite
<1>4. D \subseteq Int
  BY <1>2 DEF Rids
<1>5. ASSUME NEW r \in D
      PROVE  table[r].start \in Int /\ table[r].end \in Int /\ table[r].ram \in Nat
  <2>1. table[r] \in Row
    OBVIOUS
  <2>2. table[r].ram > 0
    OBVIOUS
  <2> QED
    BY <2>1, <2>2 DEF Row
<1>6. \A t : ActiveAt(L, t) =
               {r \in Rids : /\ table[r] # NoRow /\ table[r].gpu = g
                             /\ table[r].status = "ACTIVE"
                             /\ table[r].start <= t /\ t < table[r].end}
  BY <1>1 DEF ActiveAt
<1> HIDE DEF D, L
<1>7. L = [r \in DOMAIN L |-> L[r]] /\ \A r \in DOMAIN L : L[r] = table[r]
  BY <1>1
<1>8. IsList(L)
  BY <1>1, <1>3, <1>4, <1>5, <1>7 DEF IsList
<1> QED
  BY <1>6, <1>7, <1>8 DEF L

LEMMA HeldIs ==
  ASSUME NEW g, NEW t
  PROVE  /\ ActiveRowsOf(g) = ActiveIn(res, g)
         /\ Held(g, t) = UsageAt(ActiveIn(res, g), t)
         /\ Held(g, t)' = UsageAt(ActiveIn(res', g), t)
  BY DEF Held, ActiveRowsOf, ActiveIn, Rows, IsRow

LEMMA FadingKeepsRoom ==
  ASSUME TypeOK, TypeOK', RamsPositive, RamsPositive', Fades, ~Resumes,
         NEW g, NEW t
  PROVE  Held(g, t)' <= Held(g, t)
<1> DEFINE old == ActiveIn(res, g)
           new == ActiveIn(res', g)
<1>1. /\ IsList(old)
      /\ ActiveAt(old, t) = {r \in Rids : /\ res[r] # NoRow /\ res[r].gpu = g
                                          /\ res[r].status = "ACTIVE"
                                          /\ res[r].start <= t /\ t < res[r].end}
      /\ \A r \in DOMAIN old : old[r] = res[r]
  BY ActiveInIs DEF TypeOK, RamsPositive, IsRow, Live
<1>2. /\ IsList(new)
      /\ ActiveAt(new, t) = {r \in Rids : /\ res'[r] # NoRow /\ res'[r].gpu = g
                                          /\ res'[r].status = "ACTIVE"
                                          /\ res'[r].start <= t /\ t < res'[r].end}
      /\ \A r \in DOMAIN new : new[r] = res'[r]
  BY ActiveInIs DEF TypeOK, RamsPositive, IsRow, Live
<1>3. ActiveAt(old, t) \subseteq DOMAIN old /\ ActiveAt(new, t) \subseteq DOMAIN new
  BY DEF ActiveAt
<1> HIDE DEF old, new
<1>4. ASSUME NEW r \in ActiveAt(new, t)
      PROVE  r \in ActiveAt(old, t) /\ new[r].ram = old[r].ram
  <2>1. /\ r \in Rids /\ IsRow(r) /\ Live(r) /\ res'[r].ram = res[r].ram
        /\ res[r].gpu = g /\ res[r].start <= t /\ t < res[r].end
    BY <1>2 DEF Fades, SameTerms, IsRow, Live
  <2>2. res[r].status # "SUSPENDED"
    BY <1>2, <2>1 DEF Resumes, Rows
  <2>3. r \in ActiveAt(old, t)
    BY <1>1, <2>1, <2>2 DEF IsRow, Live
  <2> QED
    BY <1>1, <1>2, <1>3, <2>1, <2>3
<1>5. UsageAt(new, t) <= UsageAt(old, t)
  BY <1>1, <1>2, <1>4, UsageShrinks
<1> QED
  BY <1>5, HeldIs DEF old, new
(* The capacity check looks at no less than what is held in the window.    *)
LEMMA RoomIsSeen ==
  ASSUME TypeOK, RamsPositive, NEW g, NEW start \in Int, NEW end \in Int,
         NEW t \in start..(end - 1)
  PROVE  /\ PeakConcurrentRam(OverlappingActive(g, start, end), start, end) \in Int
         /\ PeakConcurrentRam(OverlappingActive(g, start, end), start, end)
              >= Held(g, t)
<1> DEFINE L == ActiveIn(res, g)
           T == Overlapping(L, start, end)
           part == [r \in T |-> L[r]]
<1>1. IsList(L)
  BY ActiveInIs DEF TypeOK, RamsPositive, IsRow, Live
<1>2. OverlappingActive(g, start, end) = part /\ Held(g, t) = UsageAt(L, t)
  BY HeldIs DEF OverlappingActive
<1>3. T \in SUBSET DOMAIN L
  BY DEF Overlapping
<1>4. ActiveAt(L, t) \subseteq T
  <2> HIDE DEF L
  <2> QED
    BY <1>1 DEF ActiveAt, Overlapping, IsList
<1> HIDE DEF L, T
<1>5. IsList(part) /\ UsageAt(part, t) = UsageAt(L, t)
  BY <1>1, <1>3, <1>4, PartIsList, UsageOfPart
<1> HIDE DEF part
<1>6. /\ PeakConcurrentRam(part, start, end) \in Int
      /\ PeakConcurrentRam(part, start, end) >= UsageAt(part, t)
  BY <1>5, PeakOfEvents, PeakAtLeastUsage
<1> QED
  BY <1>2, <1>5, <1>6

(* A new row adds what it asks for, in its window, on its GPU.             *)
LEMMA BookingAdds ==
  ASSUME TypeOK, TypeOK', RamsPositive, RamsPositive', NEW q \in Rids,
         ~IsRow(q), IsRow(q)', res'[q].status = "ACTIVE",
         \A r \in Rids : r # q => res'[r] = res[r],
         NEW g, NEW t
  PROVE  Held(g, t)' = IF /\ res'[q].gpu = g
                          /\ res'[q].start <= t /\ t < res'[q].end
                       THEN Held(g, t) + res'[q].ram
                       ELSE Held(g, t)
<1> DEFINE old == ActiveIn(res, g)
           new == ActiveIn(res', g)
<1>1. /\ IsList(old)
      /\ ActiveAt(old, t) = {r \in Rids : /\ res[r] # NoRow /\ res[r].gpu = g
                                          /\ res[r].status = "ACTIVE"
                                          /\ res[r].start <= t /\ t < res[r].end}
      /\ \A r \in DOMAIN old : old[r] = res[r]
  BY ActiveInIs DEF TypeOK, RamsPositive, IsRow, Live
<1>2. /\ IsList(new)
      /\ ActiveAt(new, t) = {r \in Rids : /\ res'[r] # NoRow /\ res'[r].gpu = g
                                          /\ res'[r].status = "ACTIVE"
                                          /\ res'[r].start <= t /\ t < res'[r].end}
      /\ \A r \in DOMAIN new : new[r] = res'[r]
  BY ActiveInIs DEF TypeOK, RamsPositive, IsRow, Live
<1>3. ActiveAt(old, t) \subseteq DOMAIN old /\ ActiveAt(new, t) \subseteq DOMAIN new
  BY DEF ActiveAt
<1> HIDE DEF old, new
<1>4. q \notin ActiveAt(old, t)
  BY <1>1 DEF IsRow
<1>5. CASE res'[q].gpu = g /\ res'[q].start <= t /\ t < res'[q].end
  <2>1. ActiveAt(new, t) = ActiveAt(old, t) \cup {q}
    BY <1>1, <1>2, <1>4, <1>5 DEF IsRow
  <2>2. \A r \in ActiveAt(old, t) : new[r].ram = old[r].ram
    <3> SUFFICES ASSUME NEW r \in ActiveAt(old, t)
                 PROVE  new[r] = old[r]
      OBVIOUS
    <3>1. r \in Rids /\ r # q
      BY <1>1, <1>4
    <3>2. r \in ActiveAt(new, t)
      BY <2>1
    <3> QED
      BY <1>1, <1>2, <1>3, <3>1, <3>2
  <2>3. UsageAt(new, t) = UsageAt(old, t) + new[q].ram
    BY <1>1, <1>2, <1>4, <2>1, <2>2, UsageAdds
  <2>4. new[q] = res'[q]
    BY <1>2, <1>3, <2>1
  <2> QED
    BY <1>5, <2>3, <2>4, HeldIs DEF old, new
<1>6. CASE ~(res'[q].gpu = g /\ res'[q].start <= t /\ t < res'[q].end)
  <2>1. ActiveAt(new, t) = ActiveAt(old, t)
    BY <1>1, <1>2, <1>4, <1>6 DEF IsRow
  <2>2. \A r \in ActiveAt(old, t) : new[r].ram = old[r].ram
    <3> SUFFICES ASSUME NEW r \in ActiveAt(old, t)
                 PROVE  new[r] = old[r]
      OBVIOUS
    <3>1. r \in Rids /\ r # q
      BY <1>1, <1>4
    <3>2. r \in ActiveAt(new, t)
      BY <2>1
    <3> QED
      BY <1>1, <1>2, <1>3, <3>1, <3>2
  <2>3. UsageAt(new, t) <= UsageAt(old, t)
    BY <1>1, <1>2, <2>1, <2>2, UsageShrinks
  <2>4. UsageAt(old, t) <= UsageAt(new, t)
    BY <1>1, <1>2, <2>1, <2>2, UsageShrinks
  <2>5. UsageAt(old, t) \in Int /\ UsageAt(new, t) \in Int
    BY <1>1, <1>2, UsageOfActive
  <2>6. UsageAt(new, t) = UsageAt(old, t)
    BY <2>3, <2>4, <2>5
  <2> QED
    BY <1>6, <2>6, HeldIs DEF old, new
<1> QED
  BY <1>5, <1>6

LEMMA PositiveStep ==
  ASSUME TypeOK, RamsPositive, Next
  PROVE  RamsPositive'
<1>1. CASE Books
  <2>1. PICK u \in Users, g \in Gpus, start \in 0..MaxTime, end \in 0..MaxTime,
             ram \in Rams : CreateReservation(u, g, start, end, ram)
    BY <1>1 DEF Books
  <2>2. ram > 0
    BY <2>1, RamsAssumption DEF CreateReservation, CanBook, CanBookUnder
  <2>3. PICK q \in Rids : /\ res'[q].ram = ram
                          /\ \A r \in Rids : r # q => res'[r] = res[r]
    BY <2>1, BookedRow DEF Adds
  <2> QED
    BY <2>2, <2>3 DEF RamsPositive, IsRow, Live
<1>2. CASE Fades
  BY <1>2 DEF Fades, SameTerms, RamsPositive
<1>3. CASE OldRows
  <2> SUFFICES ASSUME NEW r \in Rids, IsRow(r)', Live(r)'
               PROVE  res'[r].ram > 0
    BY DEF RamsPositive
  <2>1. IsRow(r)
    BY <1>3 DEF OldRows
  <2>2. KeepsItsTerms(r)
    BY <2>1, TermsInNext DEF TermsStep, IsRow
  <2>3. Live(r)
    BY <2>1, <2>2, RowRange DEF KeepsItsTerms, Live, Status
  <2> QED
    BY <2>1, <2>2, <2>3 DEF KeepsItsTerms, RamsPositive
<1> QED
  BY <1>1, <1>2, <1>3, KindOfStep DEF StepKind

(* A booking that was let in adds no more than there is room for.          *)
LEMMA RoomOfBooking ==
  ASSUME TypeOK, TypeOK', RamsPositive, RamsPositive', NEW q \in Rids,
         NEW u, NEW g \in Gpus, NEW start \in Int, NEW end \in Int,
         NEW ram \in Int, Adds(q, u, g, start, end, ram),
         PeakConcurrentRam(OverlappingActive(g, start, end), start, end) + ram
           <= gpus[g].ram,
         gpus' = gpus, NEW h \in Gpus, NEW t \in Instants
  PROVE  Held(h, t)' > gpus'[h].ram => Held(h, t)' <= Held(h, t)
<1>1. Held(h, t)' = IF g = h /\ start <= t /\ t < end
                    THEN Held(h, t) + ram
                    ELSE Held(h, t)
  BY BookingAdds DEF Adds
<1>2. Held(h, t) \in Int
  BY ActiveInIs, UsageOfActive, HeldIs DEF TypeOK, RamsPositive, IsRow, Live
<1>3. t \in Int
  BY TimeAssumption DEF Instants
<1>4. CASE ~(g = h /\ start <= t /\ t < end)
  BY <1>1, <1>2, <1>4
<1>5. CASE g = h /\ start <= t /\ t < end
  <2> DEFINE peak == PeakConcurrentRam(OverlappingActive(g, start, end), start, end)
  <2>1. gpus'[h].ram = gpus[g].ram /\ peak + ram <= gpus[g].ram
    BY <1>5
  <2>2. t \in start..(end - 1)
    BY <1>3, <1>5
  <2>3. peak \in Int /\ peak >= Held(g, t)
    BY <2>2, RoomIsSeen
  <2>4. Held(h, t)' = Held(g, t) + ram
    BY <1>1, <1>5
  <2>5. gpus[g].ram \in Int
    BY DEF TypeOK
  <2> HIDE DEF peak
  <2>6. Held(h, t)' <= gpus'[h].ram
    BY <1>2, <1>5, <2>1, <2>3, <2>4, <2>5
  <2>7. Held(h, t)' \in Int /\ gpus'[h].ram \in Int
    BY <1>2, <1>5, <2>1, <2>4, <2>5
  <2> QED
    BY <2>6, <2>7
<1> QED
  BY <1>4, <1>5

LEMMA BookingKeepsRoom ==
  ASSUME TypeOK, TypeOK', RamsPositive, RamsPositive', Books,
         NEW h \in Gpus, NEW t \in Instants
  PROVE  Held(h, t)' > gpus'[h].ram => Held(h, t)' <= Held(h, t)
<1>1. PICK u \in Users, g \in Gpus, start \in 0..MaxTime, end \in 0..MaxTime,
           ram \in Rams : CreateReservation(u, g, start, end, ram)
  BY DEF Books
<1>2. PICK q \in Rids : Adds(q, u, g, start, end, ram)
  BY <1>1, BookedRow
<1>3. CanBookUnder(reg, u, g, start, end, ram) /\ gpus' = gpus
  BY <1>1 DEF CreateReservation, CanBook
<1>4. start \in Int /\ end \in Int /\ ram \in Int
  BY TimeAssumption, RamsAssumption
<1> QED
  BY <1>2, <1>3, <1>4, RoomOfBooking DEF CanBookUnder

LEMMA RoomInNext ==
  ASSUME TypeOK, TypeOK', RamsPositive, RamsPositive', Next
  PROVE  OverfillStep
<1> SUFFICES ASSUME NEW g \in Gpus, NEW t \in Instants
             PROVE  Held(g, t)' > gpus'[g].ram =>
                      Held(g, t)' <= Held(g, t) \/ Resumes
  BY DEF OverfillStep
<1>1. CASE Books
  BY <1>1, BookingKeepsRoom
<1>2. CASE Fades /\ ~Resumes
  BY <1>2, FadingKeepsRoom
<1> QED
  BY <1>1, <1>2, KindOfStep DEF StepKind

(* Only a resume overfills a GPU, or makes an overfull one worse: no       *)
(* booking, no new RAM size and no sequence of other requests does.        *)
THEOREM RoomHolds == Spec => OverfilledOnlyByResume
<1>1. Init => RamsPositive
  BY DEF Init, RamsPositive, IsRow
<1>2. TypeOK /\ RamsPositive /\ [Next]_vars => RamsPositive'
  <2>1. ASSUME RamsPositive, UNCHANGED vars PROVE RamsPositive'
    BY <2>1 DEF vars, RamsPositive, IsRow, Live
  <2> QED
    BY <2>1, PositiveStep
<1>3. TypeOK /\ TypeOK' /\ RamsPositive /\ RamsPositive' /\ [Next]_vars
        => [OverfillStep]_vars
  BY RoomInNext
<1>4. Spec => [][OverfillStep]_vars
  BY <1>1, <1>2, <1>3, TypeCorrect, PTL DEF Spec
<1> QED
  BY <1>4 DEF OverfilledOnlyByResume

(***************************************************************************)
(* The lab where nothing paused comes back: where the resume is the only   *)
(* way past capacity and past the cap on reservations, both hold there.    *)
(***************************************************************************)
LEMMA NothingHeld ==
  ASSUME TypeOK, RamsPositive, NEW g, NEW t,
         \A r \in Rids : IsRow(r) /\ Live(r) => res[r].gpu # g
  PROVE  Held(g, t) = 0
<1> DEFINE L == ActiveIn(res, g)
<1>1. /\ IsList(L)
      /\ ActiveAt(L, t) = {r \in Rids : /\ res[r] # NoRow /\ res[r].gpu = g
                                        /\ res[r].status = "ACTIVE"
                                        /\ res[r].start <= t /\ t < res[r].end}
  BY ActiveInIs DEF TypeOK, RamsPositive, IsRow, Live
<1> HIDE DEF L
<1>2. ActiveAt(L, t) = {}
  BY <1>1 DEF IsRow, Live
<1>3. UsageAt(L, t) = 0
  BY <1>1, <1>2, UsageOfActive, WeightOfNone
<1> QED
  BY <1>3, HeldIs DEF L

(* The RAM of a GPU is written once, when it is registered, and a GPU is   *)
(* registered over a deleted one or none.                                  *)
LEMMA RamStep ==
  ASSUME TypeOK, Next, NEW g \in Gpus
  PROVE  \/ gpus'[g].ram = gpus[g].ram
         \/ ~gpus[g].present /\ res' = res /\ gpus'[g].ram \in GpuRams
<1>1. ASSUME NEW G \in SUBSET Gpus, RetireGpus(G)
      PROVE  gpus'[g].ram = gpus[g].ram
  BY <1>1 DEF RetireGpus, TypeOK
<1>2. ASSUME NEW h \in Gpus, NEW on \in BOOLEAN, SetGpuActive(h, on)
      PROVE  gpus'[g].ram = gpus[g].ram
  BY <1>2 DEF SetGpuActive, TypeOK
<1>3. ASSUME NEW h \in Gpus, NEW m \in GpuRams, AddGpu(h, m)
      PROVE  \/ gpus'[g].ram = gpus[g].ram
             \/ ~gpus[g].present /\ res' = res /\ gpus'[g].ram \in GpuRams
  BY <1>3 DEF AddGpu, TypeOK
<1>4. ASSUME UNCHANGED gpus PROVE gpus'[g].ram = gpus[g].ram
  BY <1>4
<1> QED
  BY <1>1, <1>2, <1>3, <1>4
  DEF Next, StudentNext, ReservationAdminNext, FleetNext, UserAdminNext,
      UserSettings, CreateReservation, CancelReservation, CancelForUser,
      CancelAll, SetServerActive, CreateServer, DeleteGpu, DeleteServer,
      PresentGpusOf, GpusOf, SetServerAccess, SetMaxConcurrentGpus,
      DeleteUser, UpdateRegulation, Tick

LEMMA RoomIsKept ==
  ASSUME TypeOK, TypeOK', RamsPositive, RamsPositive', FleetCore,
         NeverOverfilled, Next, ~Resumes
  PROVE  NeverOverfilled'
<1> SUFFICES ASSUME NEW g \in Gpus, NEW t \in Instants
             PROVE  Held(g, t)' <= gpus'[g].ram
  BY DEF NeverOverfilled, Instants
<1>1. /\ Held(g, t) \in Int /\ Held(g, t)' \in Int
      /\ gpus[g].ram \in Int /\ gpus'[g].ram \in Int
      /\ Held(g, t) <= gpus[g].ram
  <2>1. Held(g, t) \in Int
    BY ActiveInIs, UsageOfActive, HeldIs DEF TypeOK, RamsPositive, IsRow, Live
  <2>2. Held(g, t)' \in Int
    BY ActiveInIs, UsageOfActive, HeldIs DEF TypeOK, RamsPositive, IsRow, Live
  <2> QED
    BY <2>1, <2>2 DEF TypeOK, NeverOverfilled
<1>2. Held(g, t)' > gpus'[g].ram => Held(g, t)' <= Held(g, t)
  BY RoomInNext DEF OverfillStep
<1>3. CASE gpus'[g].ram = gpus[g].ram
  BY <1>1, <1>2, <1>3
<1>4. CASE ~gpus[g].present /\ res' = res /\ gpus'[g].ram \in GpuRams
  <2>1. \A r \in Rids : IsRow(r) /\ Live(r) => res[r].gpu # g
    BY <1>4 DEF FleetCore, LiveOnlyOnPresent
  <2>2. Held(g, t) = 0 /\ Held(g, t)' = Held(g, t)
    BY <1>4, <2>1, NothingHeld, HeldIs
  <2>3. \A m \in GpuRams : m > 0
    BY RamsAssumption
  <2>4. gpus'[g].ram > 0
    BY <1>4, <2>3
  <2> QED
    BY <1>1, <2>2, <2>4
<1> QED
  BY <1>3, <1>4, RamStep

RoomInv == TypeOK /\ RamsPositive /\ FleetCore /\ NeverOverfilled

LEMMA RoomAtInit == Init => RoomInv
<1> SUFFICES ASSUME Init PROVE NeverOverfilled
  BY TypeInit, FleetInit DEF FleetInv, RoomInv, Init, RamsPositive, IsRow
<1> SUFFICES ASSUME NEW g \in Gpus, NEW t \in Instants
             PROVE  Held(g, t) <= gpus[g].ram
  BY DEF NeverOverfilled
<1>1. \A r \in Rids : ~IsRow(r)
  BY DEF Init, IsRow
<1>2. Held(g, t) = 0
  BY <1>1, TypeInit, NothingHeld DEF RamsPositive
<1>3. gpus[g].ram \in GpuRams
  BY DEF Init
<1>4. gpus[g].ram \in Nat
  BY <1>3, RamsAssumption
<1> QED
  BY <1>2, <1>4

LEMMA RoomInvStep ==
  ASSUME RoomInv, [Next]_vars, Resumes => UNCHANGED vars
  PROVE  RoomInv'
<1>1. CASE UNCHANGED vars
  <2>1. TypeOK' /\ FleetCore' /\ RamsPositive'
    BY <1>1, TypeStep, CoreStep
    DEF RoomInv, FleetKept, vars, RamsPositive, IsRow, Live
  <2>2. \A g, t : Held(g, t)' = Held(g, t)
    BY <1>1, HeldIs DEF vars
  <2>3. NeverOverfilled'
    BY <1>1, <2>2 DEF RoomInv, NeverOverfilled, vars, Instants
  <2> QED
    BY <2>1, <2>3 DEF RoomInv
<1>2. CASE Next /\ ~Resumes
  <2>1. TypeOK' /\ FleetCore' /\ RamsPositive'
    BY <1>2, TypeStep, CoreStep, PositiveStep DEF RoomInv, FleetKept
  <2> QED
    BY <1>2, <2>1, RoomIsKept DEF RoomInv
<1> QED
  BY <1>1, <1>2 DEF vars

(* The README's promise that the students who share a GPU never hold more  *)
(* than its RAM is kept as long as nothing paused resumes, whatever else   *)
(* is booked, cancelled, paused, removed or registered anew.               *)
THEOREM RoomWithoutResumes ==
  Spec /\ [][~Resumes]_vars => []NeverOverfilled
<1>1. RoomInv /\ [Next]_vars /\ [~Resumes]_vars => RoomInv'
  BY RoomInvStep
<1>2. RoomInv => NeverOverfilled
  BY DEF RoomInv
<1> QED
  BY <1>1, <1>2, RoomAtInit, PTL DEF Spec

(* No student holds more reservations that have not ended than the         *)
(* regulation allows (count_active_reservations against max_active).       *)
CapKept ==
  \A u \in Users : Cardinality(HeldUpcoming(u)) <= reg.maxActive

LEMMA CapAtInit == Init => CapKept
<1> SUFFICES ASSUME Init, NEW u \in Users
             PROVE  Cardinality(HeldUpcoming(u)) <= reg.maxActive
  BY DEF CapKept
<1>1. HeldUpcoming(u) = {}
  BY DEF Init, HeldUpcoming, Rows, IsRow
<1>2. reg.maxActive \in Nat
  BY TypeInit, RegulationsAssumption DEF TypeOK
<1>3. Cardinality({}) = 0
  BY FS_EmptySet
<1> QED
  BY <1>1, <1>2, <1>3

LEMMA CapStep ==
  ASSUME TypeOK, TypeOK', CapKept, [LimitStep]_vars,
         [~Resumes /\ reg' = reg]_vars
  PROVE  CapKept'
<1>1. ASSUME UNCHANGED vars PROVE CapKept'
  BY <1>1 DEF CapKept, vars, HeldUpcoming, Rows, IsRow, Live
<1>2. ASSUME LimitStep, ~Resumes, reg' = reg, NEW u \in Users
      PROVE  Cardinality(HeldUpcoming(u)') <= reg'.maxActive
  <2>1. Cardinality(HeldUpcoming(u)') > reg'.maxActive =>
          Cardinality(HeldUpcoming(u)') <= Cardinality(HeldUpcoming(u))
    BY <1>2 DEF LimitStep
  <2>2. Cardinality(HeldUpcoming(u)) <= reg.maxActive
    BY DEF CapKept
  <2>3. reg.maxActive \in Nat /\ Cardinality(HeldUpcoming(u)) \in Nat
    BY RegulationsAssumption, HeldFinite, FS_CardinalityType DEF TypeOK
  <2>4. Cardinality(HeldUpcoming(u)') \in Nat
    <3> DEFINE N == HeldUpcoming(u)'
    <3>1. N \subseteq Rids
      BY DEF HeldUpcoming, Rows
    <3> HIDE DEF N
    <3>2. IsFiniteSet(N)
      BY <3>1, RidsFinite
    <3>3. Cardinality(N) \in Nat
      BY <3>2, FS_CardinalityType
    <3> QED
      BY <3>3 DEF N
  <2> QED
    BY <1>2, <2>1, <2>2, <2>3, <2>4
<1> QED
  BY <1>1, <1>2 DEF CapKept

(* The cap on a student's reservations is never exceeded as long as        *)
(* nothing paused resumes and the regulation stays: the bookings and the   *)
(* other switches alone never lead past it.                                *)
THEOREM CapWithoutResumes ==
  Spec /\ [][~Resumes /\ reg' = reg]_vars => []CapKept
<1>1. /\ TypeOK /\ TypeOK' /\ CapKept /\ [Next]_vars
      /\ [~Resumes /\ reg' = reg]_vars
      => CapKept'
  BY LimitsInNext, CapStep
<1> QED
  BY <1>1, CapAtInit, TypeCorrect, PTL DEF Spec

-----------------------------------------------------------------------------
(***************************************************************************)
(* Booking implements ReservationLife: each request is one step of the     *)
(* abstract life of reservations, or none.                                 *)
(***************************************************************************)

(***************************************************************************)
(* Reading the abstract state.                                             *)
(***************************************************************************)
LEMMA LifeRow ==
  ASSUME TypeOK, NEW r \in Rids
  PROVE  /\ ~IsRow(r) => LifeTable[r] = NoRow
         /\ IsRow(r) => /\ LifeTable[r] = LifeOf(res[r])
                        /\ LifeTable[r] # NoRow
                        /\ LifeTable[r].user = res[r].user
                        /\ LifeTable[r].gpu = res[r].gpu
                        /\ LifeTable[r].status = res[r].status
<1>1. CASE ~IsRow(r)
  BY <1>1 DEF LifeTable
<1>2. CASE IsRow(r)
  <2>1. LifeTable[r] = LifeOf(res[r])
    BY <1>2 DEF LifeTable
  <2>2. LifeOf(res[r]) \in [user : Users, gpu : Gpus, status : Status]
    BY <1>2, RowRange DEF LifeOf
  <2> QED
    BY <1>2, <2>1, <2>2, NoLifeAssumption DEF LifeOf
<1> QED
  BY <1>1, <1>2

LEMMA LifeReads ==
  ASSUME TypeOK
  PROVE  /\ \A r \in Rids :
              /\ Life!Booked(r) <=> IsRow(r) /\ res[r].status = "ACTIVE"
              /\ Life!Paused(r) <=> IsRow(r) /\ res[r].status = "SUSPENDED"
         /\ \A G : Life!On(G) = {r \in Rows : res[r].gpu \in G}
  BY LifeRow DEF Life!Booked, Life!Paused, Life!On, Rows

(* What one request may do to a set of rows is what Now does to their life.*)
LEMMA ChangedLife ==
  ASSUME TypeOK, TypeOK', NEW S \in SUBSET Rows, NEW status,
         \A r \in Rids \ S : res'[r] = res[r],
         \A r \in S : /\ res'[r] # NoRow /\ SameTerms(res'[r], r)
                      /\ res'[r].status = status
  PROVE  LifeTable' = Life!Now(S, status)
<1> SUFFICES ASSUME NEW r \in Rids
             PROVE  LifeTable'[r] = IF r \in S
                                    THEN [LifeTable[r] EXCEPT !.status = status]
                                    ELSE LifeTable[r]
  BY DEF LifeTable, Life!Now
<1>1. CASE r \in S
  <2>1. IsRow(r) /\ IsRow(r)'
    BY <1>1 DEF Rows, IsRow
  <2>2. LifeTable[r] = LifeOf(res[r]) /\ LifeTable'[r] = LifeOf(res'[r])
    BY <2>1 DEF LifeTable, LifeOf, IsRow
  <2> QED
    BY <1>1, <2>2 DEF LifeOf, SameTerms
<1>2. CASE r \notin S
  <2>1. res'[r] = res[r]
    BY <1>2
  <2> QED
    BY <1>2, <2>1 DEF LifeTable, LifeOf, IsRow
<1> QED
  BY <1>1, <1>2

LEMMA SameLife ==
  ASSUME UNCHANGED res
  PROVE  LifeTable' = LifeTable
  BY DEF LifeTable, LifeOf, IsRow

LEMMA SameUsable ==
  ASSUME UNCHANGED <<servers, gpus>>
  PROVE  UsableGpus' = UsableGpus
  BY DEF UsableGpus, Effective

-----------------------------------------------------------------------------
(***************************************************************************)
(* One lemma per request.                                                  *)
(***************************************************************************)
LEMMA LifeAtInit == Init => Life!LifeInit
<1> SUFFICES ASSUME Init PROVE Life!LifeInit
  OBVIOUS
<1>1. LifeTable = [r \in Rids |-> NoRow]
  BY DEF Init, LifeTable, IsRow
<1> QED
  BY <1>1 DEF Life!LifeInit, UsableGpus

LEMMA CreateIsBook ==
  ASSUME TypeOK, NEW u \in Users, NEW g \in Gpus, NEW start \in 0..MaxTime,
         NEW end \in 0..MaxTime, NEW ram \in Rams,
         CreateReservation(u, g, start, end, ram)
  PROVE  Life!LifeNext
<1> DEFINE new == [user |-> u, gpu |-> g, start |-> start, end |-> end,
                   ram |-> ram, status |-> "ACTIVE"]
<1>1. PICK r \in Rids : IsNextId(r) /\ res' = [res EXCEPT ![r] = new]
  BY DEF CreateReservation
<1>2. ~IsRow(r)
  BY <1>1 DEF IsNextId, Rids
<1>3. res'[r] = new /\ \A q \in Rids \ {r} : res'[q] = res[q]
  BY <1>1 DEF TypeOK
<1>4. IsRow(r)'
  <2>1. new \in Row
    BY RamsAssumption, TimeAssumption
    DEF CreateReservation, CanBook, CanBookUnder, Row, Status
  <2> QED
    BY <1>3, <2>1, NoRowAssumption DEF IsRow
<1>5. LifeTable' = [LifeTable EXCEPT ![r] =
                      [user |-> u, gpu |-> g, status |-> "ACTIVE"]]
  <2>1. LifeTable'[r] = [user |-> u, gpu |-> g, status |-> "ACTIVE"]
    BY <1>3, <1>4 DEF LifeTable, LifeOf, IsRow
  <2>2. \A q \in Rids \ {r} : LifeTable'[q] = LifeTable[q]
    BY <1>3 DEF LifeTable, LifeOf, IsRow
  <2> QED
    BY <2>1, <2>2 DEF LifeTable
<1>6. LifeTable[r] = NoRow
  BY <1>2 DEF LifeTable
<1>7. g \in UsableGpus /\ UsableGpus' = UsableGpus
  BY SameUsable DEF CreateReservation, CanBook, UsableGpus
<1> QED
  BY <1>5, <1>6, <1>7 DEF Life!LifeNext, Life!Book

LEMMA CancelIsCancel ==
  ASSUME TypeOK, TypeOK', NEW S \in SUBSET Rows, \A r \in S : Live(r),
         res' = Cancelled(S), UNCHANGED <<servers, gpus>>
  PROVE  Life!LifeNext
<1>1. LifeTable' = Life!Now(S, "CANCELLED")
  <2>1. S \in SUBSET Rids
    BY DEF Rows
  <2> QED
    BY <2>1, ChangedLife, CancelledRow DEF Rows
<1>2. \A r \in S : Life!Booked(r) \/ Life!Paused(r)
  BY LifeReads DEF Live, Rows
<1>3. S \in SUBSET Rids
  BY DEF Rows
<1> QED
  BY <1>1, <1>2, <1>3, SameUsable DEF Life!LifeNext, Life!Cancel

LEMMA PauseIsSwitchOff ==
  ASSUME TypeOK, TypeOK', NEW G \in SUBSET Gpus, res' = Suspended(G),
         UsableGpus' = UsableGpus \ G
  PROVE  Life!LifeNext
<1> DEFINE S == {r \in Rows : /\ res[r].gpu \in G /\ res[r].status = "ACTIVE"
                              /\ res[r].end > now}
<1>1. LifeTable' = Life!Now(S, "SUSPENDED")
  <2>1. \A r \in Rids \ S : res'[r] = res[r]
    BY SuspendedRow DEF Rows
  <2>2. \A r \in S : /\ res'[r] # NoRow /\ SameTerms(res'[r], r)
                     /\ res'[r].status = "SUSPENDED"
    BY SuspendedRow DEF Rows
  <2>3. S \in SUBSET Rows
    OBVIOUS
  <2> HIDE DEF S
  <2> QED
    BY <2>1, <2>2, <2>3, ChangedLife
<1>2. S \in SUBSET Rids /\ S \subseteq Life!On(G) /\ \A r \in S : Life!Booked(r)
  BY LifeReads DEF Rows
<1> HIDE DEF S
<1> QED
  BY <1>1, <1>2 DEF Life!LifeNext, Life!SwitchOff

LEMMA ResumeIsSwitchOn ==
  ASSUME TypeOK, TypeOK', NEW G \in SUBSET Gpus, res' = Resumed(G),
         UsableGpus' = UsableGpus \cup G
  PROVE  Life!LifeNext
<1> DEFINE S == {r \in Rows : res[r].gpu \in G /\ res[r].status = "SUSPENDED"}
<1>1. LifeTable' = Life!Now(S, "ACTIVE")
  <2>1. \A r \in Rids \ S : res'[r] = res[r]
    BY ResumedRow DEF Rows
  <2>2. \A r \in S : /\ res'[r] # NoRow /\ SameTerms(res'[r], r)
                     /\ res'[r].status = "ACTIVE"
    BY ResumedRow DEF Rows
  <2>3. S \in SUBSET Rows
    OBVIOUS
  <2> HIDE DEF S
  <2> QED
    BY <2>1, <2>2, <2>3, ChangedLife
<1>2. S = {r \in Life!On(G) : Life!Paused(r)}
  BY LifeReads DEF Rows
<1> HIDE DEF S
<1> QED
  BY <1>1, <1>2 DEF Life!LifeNext, Life!SwitchOn

(* Each GPU of G loses what it holds.                                      *)
LEMMA RetireIsRetire ==
  ASSUME TypeOK, TypeOK', NEW G \in SUBSET Gpus, RetireGpus(G),
         UsableGpus' = UsableGpus \ G
  PROVE  Life!LifeNext
<1> DEFINE S == LiveOn(G)
<1>1. S \in SUBSET Rows
  BY DEF LiveOn
<1>2. LifeTable' = Life!Now(S, "CANCELLED")
  <2>1. \A r \in Rids \ S : res'[r] = res[r]
    BY <1>1, CancelledRow DEF RetireGpus
  <2>2. \A r \in S : /\ res'[r] # NoRow /\ SameTerms(res'[r], r)
                     /\ res'[r].status = "CANCELLED"
    BY <1>1, CancelledRow DEF RetireGpus, Rows
  <2> HIDE DEF S
  <2> QED
    BY <1>1, <2>1, <2>2, ChangedLife
<1>3. S = {r \in Life!On(G) : Life!Booked(r) \/ Life!Paused(r)}
  BY LifeReads DEF LiveOn, Live, Rows
<1> HIDE DEF S
<1> QED
  BY <1>2, <1>3 DEF Life!LifeNext, Life!Retire

LEMMA SwitchGpuIsLife ==
  ASSUME TypeOK, TypeOK', NEW g \in Gpus, NEW on \in BOOLEAN,
         SetGpuActive(g, on)
  PROVE  Life!LifeNext \/ UNCHANGED Life!lifeVars
<1> DEFINE up == on /\ servers[ServerOf[g]].active
<1>1. Effective(g)' <=> up
  BY DEF SetGpuActive, Effective, TypeOK
<1>2. \A h \in Gpus \ {g} : Effective(h)' <=> Effective(h)
  BY DEF SetGpuActive, Effective, TypeOK
<1>3. CASE Effective(g) /\ ~up
  <2>1. UsableGpus' = UsableGpus \ {g}
    BY <1>1, <1>2, <1>3 DEF UsableGpus
  <2>2. res' = Suspended({g})
    BY <1>3 DEF SetGpuActive
  <2> QED
    BY <2>1, <2>2, PauseIsSwitchOff
<1>4. CASE ~Effective(g) /\ up
  <2>1. UsableGpus' = UsableGpus \cup {g}
    BY <1>1, <1>2, <1>4 DEF UsableGpus
  <2>2. res' = Resumed({g})
    BY <1>4 DEF SetGpuActive
  <2> QED
    BY <2>1, <2>2, ResumeIsSwitchOn
<1>5. CASE Effective(g) <=> up
  <2>1. UsableGpus' = UsableGpus
    BY <1>1, <1>2, <1>5 DEF UsableGpus
  <2>2. UNCHANGED res
    BY <1>5 DEF SetGpuActive
  <2> QED
    BY <2>1, <2>2, SameLife DEF Life!lifeVars
<1> QED
  BY <1>3, <1>4, <1>5

LEMMA SwitchServerIsLife ==
  ASSUME TypeOK, TypeOK', NEW s \in Servers, NEW on \in BOOLEAN,
         SetServerActive(s, on)
  PROVE  Life!LifeNext \/ UNCHANGED Life!lifeVars
<1>1. /\ servers'[s].active = on /\ UNCHANGED gpus
      /\ \A t \in Servers \ {s} : servers'[t] = servers[t]
  BY DEF SetServerActive, TypeOK
<1>2. \A g \in Gpus : Effective(g)' <=>
        gpus[g].active /\ IF ServerOf[g] = s THEN on
                          ELSE servers[ServerOf[g]].active
  BY <1>1, ServerOfAssumption DEF Effective
<1>3. CASE servers[s].active /\ ~on
  <2>1. UsableGpus' = UsableGpus \ GpusOf(s)
    BY <1>2, <1>3 DEF UsableGpus, Effective, GpusOf
  <2>2. res' = Suspended(GpusOf(s)) /\ GpusOf(s) \in SUBSET Gpus
    BY <1>3 DEF SetServerActive, GpusOf
  <2> QED
    BY <2>1, <2>2, PauseIsSwitchOff
<1>4. CASE ~servers[s].active /\ on
  <2> DEFINE G == {g \in GpusOf(s) : gpus[g].active}
  <2>1. UsableGpus' = UsableGpus \cup G
    BY <1>2, <1>4 DEF UsableGpus, Effective, GpusOf
  <2>2. res' = Resumed(G) /\ G \in SUBSET Gpus
    BY <1>4 DEF SetServerActive, GpusOf
  <2> HIDE DEF G
  <2> QED
    BY <2>1, <2>2, ResumeIsSwitchOn
<1>5. CASE servers[s].active <=> on
  <2>1. UsableGpus' = UsableGpus
    BY <1>2, <1>5 DEF UsableGpus, Effective
  <2>2. UNCHANGED res
    BY <1>5 DEF SetServerActive
  <2> QED
    BY <2>1, <2>2, SameLife DEF Life!lifeVars
<1> QED
  BY <1>3, <1>4, <1>5

(* A revived server has no GPU that is switched on.                        *)
LEMMA CreateServerIsQuiet ==
  ASSUME TypeOK, FleetCore, NEW s \in Servers, CreateServer(s)
  PROVE  UNCHANGED Life!lifeVars
<1>1. \A g \in Gpus : ServerOf[g] = s => ~gpus[g].active
  BY DEF CreateServer, FleetCore, DeletedIsOff
<1>2. /\ UNCHANGED <<gpus, res>>
      /\ \A t \in Servers \ {s} : servers'[t] = servers[t]
  BY DEF CreateServer, TypeOK
<1>3. UsableGpus' = UsableGpus
  BY <1>1, <1>2, ServerOfAssumption DEF UsableGpus, Effective
<1> QED
  BY <1>2, <1>3, SameLife DEF Life!lifeVars

(* A revived GPU holds nothing, so nothing is left paused on it.           *)
LEMMA AddGpuIsLife ==
  ASSUME TypeOK, FleetCore, NEW g \in Gpus, NEW m, AddGpu(g, m)
  PROVE  Life!LifeNext \/ UNCHANGED Life!lifeVars
<1>1. /\ gpus'[g].active /\ UNCHANGED <<servers, res>>
      /\ \A h \in Gpus \ {g} : gpus'[h] = gpus[h]
  BY DEF AddGpu, TypeOK
<1>2. LifeTable' = LifeTable
  BY <1>1, SameLife
<1>3. CASE servers[ServerOf[g]].active
  <2>1. UsableGpus' = UsableGpus \cup {g}
    BY <1>1, <1>3 DEF UsableGpus, Effective
  <2>2. {r \in Life!On({g}) : Life!Paused(r)} = {}
    BY LifeReads DEF AddGpu, FleetCore, LiveOnlyOnPresent, Live, Rows
  <2>3. Life!Now({}, "ACTIVE") = LifeTable
    BY DEF Life!Now, LifeTable
  <2> QED
    BY <1>2, <2>1, <2>2, <2>3 DEF Life!LifeNext, Life!SwitchOn
<1>4. CASE ~servers[ServerOf[g]].active
  <2>1. ~gpus[g].active
    BY DEF AddGpu, FleetCore, DeletedIsOff
  <2>2. UsableGpus' = UsableGpus
    BY <1>1, <1>4, <2>1 DEF UsableGpus, Effective
  <2> QED
    BY <1>2, <2>2 DEF Life!lifeVars
<1> QED
  BY <1>3, <1>4

LEMMA DeleteGpuIsLife ==
  ASSUME TypeOK, TypeOK', NEW g \in Gpus, DeleteGpu(g)
  PROVE  Life!LifeNext
<1>1. UsableGpus' = UsableGpus \ {g}
  BY DEF DeleteGpu, RetireGpus, UsableGpus, Effective, TypeOK
<1>2. RetireGpus({g})
  BY DEF DeleteGpu
<1> QED
  BY <1>1, <1>2, RetireIsRetire

(* The GPUs of the server that are gone already are off.                   *)
LEMMA DeleteServerIsLife ==
  ASSUME TypeOK, TypeOK', FleetCore, NEW s \in Servers, DeleteServer(s)
  PROVE  Life!LifeNext
<1> DEFINE G == PresentGpusOf(s)
<1>1. G \in SUBSET Gpus /\ RetireGpus(G)
  BY DEF PresentGpusOf, GpusOf, DeleteServer
<1>2. ASSUME NEW g \in Gpus PROVE Effective(g)' <=> Effective(g) /\ g \notin G
  <2>1. CASE ServerOf[g] = s
    <3>1. ~servers'[s].active
      BY DEF DeleteServer, TypeOK
    <3>2. ~Effective(g)'
      BY <2>1, <3>1 DEF Effective
    <3>3. g \in G \/ ~gpus[g].active
      BY <2>1 DEF FleetCore, DeletedIsOff, PresentGpusOf, GpusOf
    <3> QED
      BY <3>2, <3>3 DEF Effective
  <2>2. CASE ServerOf[g] # s
    <3>1. g \notin G
      BY <2>2 DEF PresentGpusOf, GpusOf
    <3>2. gpus'[g] = gpus[g]
      BY <1>1, <3>1 DEF RetireGpus
    <3>3. servers'[ServerOf[g]] = servers[ServerOf[g]]
      BY <2>2, ServerOfAssumption DEF DeleteServer, TypeOK
    <3> QED
      BY <3>1, <3>2, <3>3 DEF Effective
  <2> QED
    BY <2>1, <2>2
<1>3. UsableGpus' = UsableGpus \ G
  BY <1>2 DEF UsableGpus
<1> QED
  BY <1>1, <1>3, RetireIsRetire

LEMMA DeleteUserIsForget ==
  ASSUME TypeOK, TypeOK', NEW u \in Users, DeleteUser(u)
  PROVE  Life!LifeNext
<1>1. LifeTable' = [r \in Rids |->
                      IF LifeTable[r] # NoRow /\ LifeTable[r].user = u
                      THEN NoRow ELSE LifeTable[r]]
  <2> SUFFICES ASSUME NEW r \in Rids
               PROVE  LifeTable'[r] =
                        IF LifeTable[r] # NoRow /\ LifeTable[r].user = u
                        THEN NoRow ELSE LifeTable[r]
    BY DEF LifeTable
  <2>1. res'[r] = IF IsRow(r) /\ res[r].user = u THEN NoRow ELSE res[r]
    BY DEF DeleteUser
  <2> QED
    BY <2>1, LifeRow DEF LifeTable, LifeOf, IsRow
<1>2. UsableGpus' = UsableGpus
  BY SameUsable DEF DeleteUser
<1> QED
  BY <1>1, <1>2 DEF Life!LifeNext, Life!Forget

-----------------------------------------------------------------------------
LEMMA LifeStep ==
  TypeOK /\ TypeOK' /\ FleetCore /\ [Next]_vars =>
    [Life!LifeNext]_(Life!lifeVars)
<1> SUFFICES ASSUME TypeOK, TypeOK', FleetCore, [Next]_vars
             PROVE  Life!LifeNext \/ UNCHANGED Life!lifeVars
  OBVIOUS
<1>1. ASSUME NEW r \in Rids, CancelReservation(r) PROVE Life!LifeNext
  <2>1. {r} \in SUBSET Rows /\ Live(r)
    BY <1>1, RowRange DEF CancelReservation, Rows, Live, Status
  <2> QED
    BY <1>1, <2>1, CancelIsCancel DEF CancelReservation
<1>2. ASSUME NEW u \in Users, CancelForUser(u) PROVE Life!LifeNext
  <2>1. HeldUpcoming(u) \in SUBSET Rows /\ \A r \in HeldUpcoming(u) : Live(r)
    BY DEF HeldUpcoming
  <2> QED
    BY <1>2, <2>1, CancelIsCancel DEF CancelForUser
<1>3. CASE CancelAll
  BY <1>3, CancelIsCancel DEF CancelAll
<1>4. ASSUME NEW u \in Users, NEW S \in SUBSET Servers, SetServerAccess(u, S)
      PROVE  Life!LifeNext
  <2>1. /\ HeldOn(u, access[u] \ S) \in SUBSET Rows
        /\ \A r \in HeldOn(u, access[u] \ S) : Live(r)
    BY DEF HeldOn
  <2> QED
    BY <1>4, <2>1, CancelIsCancel DEF SetServerAccess
<1>5. ASSUME \/ \E u \in Users, n \in GpuLimits : SetMaxConcurrentGpus(u, n)
             \/ \E rg \in Regulations : UpdateRegulation(rg)
             \/ Tick
             \/ UNCHANGED vars
      PROVE  UNCHANGED Life!lifeVars
  <2>1. UNCHANGED <<servers, gpus, res>>
    BY <1>5 DEF SetMaxConcurrentGpus, UpdateRegulation, Tick, vars
  <2> QED
    BY <2>1, SameLife, SameUsable DEF Life!lifeVars
<1> QED
  BY <1>1, <1>2, <1>3, <1>4, <1>5, CreateIsBook, SwitchGpuIsLife,
     SwitchServerIsLife, CreateServerIsQuiet, AddGpuIsLife, DeleteGpuIsLife,
     DeleteServerIsLife, DeleteUserIsForget
  DEF Next, StudentNext, ReservationAdminNext, FleetNext, UserAdminNext,
      UserSettings

(* The requests of the lab, run one after another, implement the life of   *)
(* reservations that ReservationLife promises.                             *)
THEOREM BookingImplementsLife == Spec => ImplementsLife
<1>1. Init => Life!LifeInit
  BY LifeAtInit
<1>2. TypeOK /\ TypeOK' /\ FleetInv /\ [Next]_vars =>
        [Life!LifeNext]_(Life!lifeVars)
  BY LifeStep DEF FleetInv
<1> QED
  BY <1>1, <1>2, TypeCorrect, FleetInvariant, PTL
  DEF Spec, ImplementsLife, Life!LifeSpec
===============================================================================
