------------------------------- MODULE Booking -------------------------------
(***************************************************************************)
(* Reservations, the fleet of servers and GPUs, and the admin switches     *)
(* that pause, resume and cancel reservations                              *)
(* (dml_core/services/reservation_service.py, server_service.py,           *)
(* server_access_service.py and the routers that call them).               *)
(*                                                                         *)
(* One action is one HTTP request, run from its first read to its commit   *)
(* with no other request in between; BookingRace takes that apart.  The    *)
(* users are students: an administrator is the environment that takes the  *)
(* admin actions.  A request the code refuses changes nothing, so it is an *)
(* action that is not enabled.                                             *)
(*                                                                         *)
(* The tables these handlers also touch but that no rule here reads        *)
(* (watches, notifications) are left out.                                  *)
(***************************************************************************)
EXTENDS PeakRam

CONSTANTS
  Users,        \* students
  Servers,      \* server names an admin uses
  Gpus,         \* GPU indexes an admin uses, over all servers
  ServerOf,     \* the server each of them belongs to
  MaxRows,      \* bound: reservation ids are 1..MaxRows
  MaxTime,      \* bound: the clock stops here, requests name times up to here
  Rams,         \* RAM amounts students ask for
  GpuRams,      \* RAM sizes an admin registers a GPU with
  Regulations,  \* regulations an admin saves
  GpuLimits,    \* values an admin gives a student's max_concurrent_gpus
  NoRow         \* an id with no row

ASSUME RowsAssumption == MaxRows \in Nat
ASSUME TimeAssumption == MaxTime \in Nat
ASSUME ServerOfAssumption == ServerOf \in [Gpus -> Servers]
ASSUME RamsAssumption == Rams \subseteq Int /\ GpuRams \subseteq Nat \ {0}
ASSUME LimitsAssumption == GpuLimits \subseteq Nat /\ 1 \in GpuLimits
ASSUME RegulationsAssumption ==
  Regulations \subseteq [slot : Nat, maxDuration : Nat, horizon : Nat,
                         maxRam : Nat, maxActive : Nat, delay : Nat]

Rids == 1..MaxRows
Status == {"ACTIVE", "SUSPENDED", "CANCELLED"}
Row == {w \in [user : Users, gpu : Gpus, start : Nat, end : Nat, ram : Int,
               status : Status] : w.start < w.end}
ASSUME NoRowAssumption == NoRow \notin Row

VARIABLES
  now,      \* utc_now()
  servers,  \* servers table: deleted_at IS NULL, is_active
  gpus,     \* gpus table: deleted_at IS NULL, is_active, total_ram_mb
  res,      \* reservations table
  access,   \* server_access table, per student
  gpuLimit, \* users.max_concurrent_gpus
  reg       \* the singleton regulation row

vars == <<now, servers, gpus, res, access, gpuLimit, reg>>

-----------------------------------------------------------------------------
(* Reading the tables.  Definitions said to be slips stand in no action:   *)
(* they are what a plausible slip would make of the definition after them. *)

IsRow(r) == res[r] # NoRow
Rows == {r \in Rids : IsRow(r)}
Live(r) == res[r].status \in {"ACTIVE", "SUSPENDED"}
Effective(g) == gpus[g].active /\ servers[ServerOf[g]].active

(* get_overlapping_active_reservations: what the capacity check sums.      *)
ActiveRowsOf(g) ==
  [r \in {q \in Rows : res[q].gpu = g /\ res[q].status = "ACTIVE"} |-> res[r]]
OverlappingStarts(g, from, to) ==  \* a slip: misses what already runs
  LET rs == ActiveRowsOf(g)
  IN  [r \in {q \in Overlapping(rs, from, to) : rs[q].start >= from} |-> rs[r]]
OverlappingActive(g, from, to) ==
  LET rs == ActiveRowsOf(g) IN [r \in Overlapping(rs, from, to) |-> rs[r]]

(* count_active_reservations: ids of the held rows that have not ended.    *)
HeldUpcoming(u) ==
  {r \in Rows : res[r].user = u /\ Live(r) /\ res[r].end > now}

(* The GPUs on which u holds a row that overlaps the window.               *)
ConcurrentActiveGpus(u, from, to) ==  \* a slip: forgets paused rows
  {res[r].gpu : r \in {q \in Rows : /\ res[q].user = u
                                    /\ res[q].status = "ACTIVE"
                                    /\ res[q].start < to
                                    /\ res[q].end > from}}
ConcurrentGpus(u, from, to) ==
  {res[r].gpu : r \in {q \in Rows : /\ res[q].user = u /\ Live(q)
                                    /\ res[q].start < to
                                    /\ res[q].end > from}}

(* INTEGER PRIMARY KEY without AUTOINCREMENT: one more than the largest.   *)
IsNextId(r) == /\ \A q \in Rids : q >= r => ~IsRow(q)
               /\ \A q \in Rids : q = r - 1 => IsRow(q)

(* is_slot_aligned; with a zero slot width the request dies on a division. *)
AlignedTo(rg, t) == rg.slot # 0 /\ t % rg.slot = 0

-----------------------------------------------------------------------------
(* Bulk updates of the reservations table.                                 *)

Cancelled(S) ==
  [r \in Rids |-> IF r \in S THEN [res[r] EXCEPT !.status = "CANCELLED"]
                  ELSE res[r]]

(* suspend_active_reservations_for_gpu / _for_server.                      *)
SuspendedUpcoming(G) ==  \* a slip: leaves what already runs
  [r \in Rids |->
     IF /\ IsRow(r) /\ res[r].gpu \in G
        /\ res[r].status = "ACTIVE" /\ res[r].start > now
     THEN [res[r] EXCEPT !.status = "SUSPENDED"]
     ELSE res[r]]
SuspendedAny(G) ==  \* a slip: the status is not looked at
  [r \in Rids |->
     IF IsRow(r) /\ res[r].gpu \in G /\ res[r].end > now
     THEN [res[r] EXCEPT !.status = "SUSPENDED"]
     ELSE res[r]]
Suspended(G) ==
  [r \in Rids |->
     IF /\ IsRow(r) /\ res[r].gpu \in G
        /\ res[r].status = "ACTIVE" /\ res[r].end > now
     THEN [res[r] EXCEPT !.status = "SUSPENDED"]
     ELSE res[r]]

(* _resume: every one of them starts reg.delay from now, for as long as it *)
(* was booked; nothing is checked again.                                   *)
ResumedKeepingEnd(G) ==  \* a slip: the end is not moved
  [r \in Rids |->
     IF IsRow(r) /\ res[r].gpu \in G /\ res[r].status = "SUSPENDED"
     THEN [res[r] EXCEPT !.start = now + reg.delay, !.status = "ACTIVE"]
     ELSE res[r]]
ResumedIfUpcoming(G) ==  \* a slip: rows whose window has passed are left
  [r \in Rids |->
     IF /\ IsRow(r) /\ res[r].gpu \in G
        /\ res[r].status = "SUSPENDED" /\ res[r].end > now
     THEN [res[r] EXCEPT !.start = now + reg.delay,
                         !.end = now + reg.delay + (res[r].end - res[r].start),
                         !.status = "ACTIVE"]
     ELSE res[r]]
Resumed(G) ==
  [r \in Rids |->
     IF IsRow(r) /\ res[r].gpu \in G /\ res[r].status = "SUSPENDED"
     THEN [res[r] EXCEPT !.start = now + reg.delay,
                         !.end = now + reg.delay + (res[r].end - res[r].start),
                         !.status = "ACTIVE"]
     ELSE res[r]]

(* RunningOn, UpcomingOn and ActiveGpusOf are slips: paused reservations,  *)
(* past ones and switched-off GPUs are forgotten.                          *)
RunningOn(G) == {r \in Rows : res[r].gpu \in G /\ res[r].status = "ACTIVE"}
LiveOn(G) == {r \in Rows : res[r].gpu \in G /\ Live(r)}

(* cancel_all_for_user_on_server, for each of the servers S.               *)
UpcomingOn(u, S) ==
  {r \in HeldUpcoming(u) : ServerOf[res[r].gpu] \in S}
HeldOn(u, S) ==
  {r \in Rows : res[r].user = u /\ Live(r) /\ ServerOf[res[r].gpu] \in S}

GpusOf(s) == {g \in Gpus : ServerOf[g] = s}
ActiveGpusOf(s) == {g \in GpusOf(s) : gpus[g].active}
PresentGpusOf(s) == {g \in GpusOf(s) : gpus[g].present}

-----------------------------------------------------------------------------
(* What create_reservation asks besides that the GPU is effective.         *)
CanBookUnder(rg, u, g, start, end, ram) ==
  /\ start < end
  /\ AlignedTo(rg, start) /\ AlignedTo(rg, end)
  /\ end - start <= rg.maxDuration
  /\ now <= start /\ start <= now + rg.horizon
  /\ 0 < ram /\ ram <= rg.maxRam /\ ram <= gpus[g].ram
  /\ Cardinality(HeldUpcoming(u)) < rg.maxActive
  /\ PeakConcurrentRam(OverlappingActive(g, start, end), start, end) + ram
       <= gpus[g].ram
  /\ \/ g \in ConcurrentGpus(u, start, end)
     \/ Cardinality(ConcurrentGpus(u, start, end)) < gpuLimit[u]
CanBook(u, g, start, end, ram) ==
  Effective(g) /\ CanBookUnder(reg, u, g, start, end, ram)

CreateReservation(u, g, start, end, ram) ==
  /\ ServerOf[g] \in access[u]
  /\ CanBook(u, g, start, end, ram)
  /\ \E r \in Rids :
       /\ IsNextId(r)
       /\ res' = [res EXCEPT ![r] =
                    [user |-> u, gpu |-> g, start |-> start, end |-> end,
                     ram |-> ram, status |-> "ACTIVE"]]
  /\ UNCHANGED <<now, servers, gpus, access, gpuLimit, reg>>

(* The owner's DELETE and the admin's override: one service call.          *)
CancelReservation(r) ==
  /\ IsRow(r) /\ res[r].status # "CANCELLED"
  /\ res' = Cancelled({r})
  /\ UNCHANGED <<now, servers, gpus, access, gpuLimit, reg>>

(* The admin cancels all a student still holds.                            *)
CancelForUser(u) ==
  /\ res' = Cancelled(HeldUpcoming(u))
  /\ UNCHANGED <<now, servers, gpus, access, gpuLimit, reg>>

(* The lab-wide cancellation reaches as far as the booking horizon.        *)
CancelAll ==
  /\ res' = Cancelled({r \in Rows : /\ Live(r)
                                    /\ res[r].start < now + reg.horizon
                                    /\ res[r].end > now})
  /\ UNCHANGED <<now, servers, gpus, access, gpuLimit, reg>>

-----------------------------------------------------------------------------
(* Switching a GPU acts on reservations only when the GPU's effective      *)
(* state changes.                                                          *)
SetGpuActive(g, on) ==
  LET up == on /\ servers[ServerOf[g]].active
  IN  /\ gpus[g].present
      /\ gpus' = [gpus EXCEPT ![g].active = on]
      /\ res' = CASE Effective(g) /\ ~up -> Suspended({g})
                  [] ~Effective(g) /\ up -> Resumed({g})
                  [] OTHER -> res
      /\ UNCHANGED <<now, servers, access, gpuLimit, reg>>

(* A server coming back resumes only the GPUs that are switched on.        *)
SetServerActive(s, on) ==
  /\ servers[s].present
  /\ servers' = [servers EXCEPT ![s].active = on]
  /\ res' = CASE servers[s].active /\ ~on -> Suspended(GpusOf(s))
              [] ~servers[s].active /\ on ->
                   Resumed({g \in GpusOf(s) : gpus[g].active})
              [] OTHER -> res
  /\ UNCHANGED <<now, gpus, access, gpuLimit, reg>>

(* A new name, or the name of a deleted server, which comes back without   *)
(* its GPUs.                                                               *)
CreateServer(s) ==
  /\ ~servers[s].present
  /\ servers' = [servers EXCEPT ![s] = [present |-> TRUE, active |-> TRUE]]
  /\ UNCHANGED <<now, gpus, res, access, gpuLimit, reg>>

(* A new index, or the index of a deleted GPU.                             *)
AddGpu(g, ram) ==
  /\ servers[ServerOf[g]].present
  /\ ~gpus[g].present
  /\ gpus' = [gpus EXCEPT ![g] = [present |-> TRUE, active |-> TRUE,
                                  ram |-> ram]]
  /\ UNCHANGED <<now, servers, res, access, gpuLimit, reg>>

(* _retire_gpu for every GPU in G: the rows of the gpus table stay.        *)
RetireGpus(G) ==
  /\ res' = Cancelled(LiveOn(G))
  /\ gpus' = [g \in Gpus |->
                IF g \in G THEN [gpus[g] EXCEPT !.present = FALSE,
                                                !.active = FALSE]
                ELSE gpus[g]]

DeleteGpu(g) ==
  /\ gpus[g].present
  /\ RetireGpus({g})
  /\ UNCHANGED <<now, servers, access, gpuLimit, reg>>

DeleteServer(s) ==
  /\ servers[s].present
  /\ RetireGpus(PresentGpusOf(s))
  /\ access' = [u \in Users |-> access[u] \ {s}]
  /\ servers' = [servers EXCEPT ![s] = [present |-> FALSE, active |-> FALSE]]
  /\ UNCHANGED <<now, gpuLimit, reg>>

-----------------------------------------------------------------------------
(* The full set of a student's servers is replaced; what the student holds *)
(* on a revoked one is cancelled.                                          *)
SetServerAccess(u, S) ==
  /\ access' = [access EXCEPT ![u] = S]
  /\ res' = Cancelled(HeldOn(u, access[u] \ S))
  /\ UNCHANGED <<now, servers, gpus, gpuLimit, reg>>

SetMaxConcurrentGpus(u, n) ==
  /\ n >= 1
  /\ gpuLimit' = [gpuLimit EXCEPT ![u] = n]
  /\ UNCHANGED <<now, servers, gpus, res, access, reg>>

(* The account and its rows disappear.  An account registered again under  *)
(* the name starts with no access and the default limit, so the two are    *)
(* not told apart here.                                                    *)
DeleteUser(u) ==
  /\ res' = [r \in Rids |-> IF IsRow(r) /\ res[r].user = u THEN NoRow
                            ELSE res[r]]
  /\ access' = [access EXCEPT ![u] = {}]
  /\ gpuLimit' = [gpuLimit EXCEPT ![u] = 1]
  /\ UNCHANGED <<now, servers, gpus, reg>>

(* Any field to any value, whatever is already booked.                     *)
UpdateRegulation(rg) ==
  /\ reg' = rg
  /\ UNCHANGED <<now, servers, gpus, res, access, gpuLimit>>

Tick ==
  /\ now < MaxTime
  /\ now' = now + 1
  /\ UNCHANGED <<servers, gpus, res, access, gpuLimit, reg>>

-----------------------------------------------------------------------------
(* A lab already set up: the fleet registered and switched on, access      *)
(* granted to every student, no reservation yet.                           *)
Init ==
  /\ now = 0
  /\ servers = [s \in Servers |-> [present |-> TRUE, active |-> TRUE]]
  /\ \E m \in GpuRams :
       gpus = [g \in Gpus |-> [present |-> TRUE, active |-> TRUE, ram |-> m]]
  /\ res = [r \in Rids |-> NoRow]
  /\ access = [u \in Users |-> Servers]
  /\ gpuLimit = [u \in Users |-> 1]
  /\ reg \in Regulations

StudentNext ==
  \/ \E u \in Users, g \in Gpus, start, end \in 0..MaxTime, ram \in Rams :
       CreateReservation(u, g, start, end, ram)
  \/ \E r \in Rids : CancelReservation(r)

ReservationAdminNext ==
  \/ \E u \in Users : CancelForUser(u)
  \/ CancelAll

FleetNext ==
  \/ \E g \in Gpus, on \in BOOLEAN : SetGpuActive(g, on)
  \/ \E s \in Servers, on \in BOOLEAN : SetServerActive(s, on)
  \/ \E s \in Servers : CreateServer(s) \/ DeleteServer(s)
  \/ \E g \in Gpus, m \in GpuRams : AddGpu(g, m)
  \/ \E g \in Gpus : DeleteGpu(g)

UserSettings ==
  \/ \E u \in Users, n \in GpuLimits : SetMaxConcurrentGpus(u, n)
  \/ \E u \in Users : DeleteUser(u)
  \/ \E rg \in Regulations : UpdateRegulation(rg)

UserAdminNext ==
  \/ \E u \in Users, S \in SUBSET Servers : SetServerAccess(u, S)
  \/ UserSettings

Next ==
  \/ StudentNext
  \/ ReservationAdminNext
  \/ FleetNext
  \/ UserAdminNext
  \/ Tick

Spec == Init /\ [][Next]_vars

-----------------------------------------------------------------------------
(* Every table holds rows of its schema.                                   *)
TypeOK ==
  /\ now \in Nat
  /\ servers \in [Servers -> [present : BOOLEAN, active : BOOLEAN]]
  /\ gpus \in [Gpus -> [present : BOOLEAN, active : BOOLEAN, ram : Int]]
  /\ res \in [Rids -> Row \cup {NoRow}]
  /\ access \in [Users -> SUBSET Servers]
  /\ gpuLimit \in [Users -> Nat]
  /\ reg \in Regulations

(* Nothing that was deleted is switched on.  create_reservation never      *)
(* looks at deleted_at: is_active alone keeps bookings off a deleted GPU,  *)
(* and a GPU cannot outlive its server.                                    *)
DeletedIsOff ==
  /\ \A s \in Servers : servers[s].active => servers[s].present
  /\ \A g \in Gpus : gpus[g].active => gpus[g].present
  /\ \A g \in Gpus : gpus[g].present => servers[ServerOf[g]].present

(* A reservation is paused only while its GPU or its server is off, in     *)
(* whatever order the two were switched: nobody's paused booking is left   *)
(* behind when the GPU is usable again.                                    *)
PausedOnlyWhileOff ==
  \A r \in Rids :
    IsRow(r) /\ res[r].status = "SUSPENDED" => ~Effective(res[r].gpu)

(* A GPU that cannot be used holds no running or upcoming reservation.     *)
RunningOnlyWhileOn ==
  \A r \in Rids :
    IsRow(r) /\ res[r].status = "ACTIVE" /\ res[r].end > now =>
      Effective(res[r].gpu)

(* Removing a GPU or a server from the fleet leaves no live reservation on *)
(* it, the past ones included, so a revived one starts empty.              *)
LiveOnlyOnPresent ==
  \A r \in Rids : IsRow(r) /\ Live(r) => gpus[res[r].gpu].present

(* A student holds reservations only on servers they may use: revoking     *)
(* access and deleting a server take them away.                            *)
HeldOnlyWithAccess ==
  \A r \in Rids :
    IsRow(r) /\ Live(r) => ServerOf[res[r].gpu] \in access[res[r].user]

-----------------------------------------------------------------------------
(* What one request may do to one row of the table: cancelled is final, a  *)
(* paused row resumes for as long as it was booked and not before now, a   *)
(* booked window never moves otherwise, and who, where and how much never  *)
(* change.                                                                 *)
KeepsItsTerms(r) ==
  /\ res'[r].user = res[r].user
  /\ res'[r].gpu = res[r].gpu
  /\ res'[r].ram = res[r].ram
  /\ res'[r].end - res'[r].start = res[r].end - res[r].start
  /\ res[r].status = "CANCELLED" => res'[r] = res[r]
  /\ res'[r].start # res[r].start =>
       /\ res[r].status = "SUSPENDED" /\ res'[r].status = "ACTIVE"
       /\ res'[r].start >= now
TermsStep ==
  \A r \in Rids :
    IsRow(r) /\ res'[r] # NoRow => KeepsItsTerms(r)

(* A booking's terms outlive every request of everyone.                    *)
TermsAreKept == [][TermsStep]_vars

(* Reservation history is erased only with the student's whole account.    *)
ErasedStep ==
  \A r \in Rids :
    IsRow(r) /\ res'[r] = NoRow =>
      \A q \in Rids : IsRow(q) /\ res[q].user = res[r].user =>
        res'[q] = NoRow
HistoryIsKept == [][ErasedStep]_vars

-----------------------------------------------------------------------------
(* The RAM the active rows of a GPU hold at an instant.                    *)
Held(g, t) == UsageAt(ActiveRowsOf(g), t)

Resumes == \E r \in Rows : /\ res[r].status = "SUSPENDED"
                           /\ res'[r] # NoRow /\ res'[r].status = "ACTIVE"

Instants == 0..(2 * MaxTime + 1)

(* Only a resume can overfill a GPU, or make an overfull one worse: no     *)
(* booking, no new RAM size and no sequence of other requests can.         *)
OverfillStep ==
  \A g \in Gpus, t \in Instants :
    Held(g, t)' > gpus'[g].ram => Held(g, t)' <= Held(g, t) \/ Resumes
OverfilledOnlyByResume == [][OverfillStep]_vars

(* README, "Multiple students can share one GPU concurrently as long as    *)
(* their combined RAM never exceeds its total RAM at any point in time."   *)
(* Broken by a resume: every paused row of a GPU gets the same new start.  *)
NeverOverfilled ==
  \A g \in Gpus, t \in Instants : Held(g, t) <= gpus[g].ram

(* The GPUs a student holds at one instant.                                *)
GpusHeldAt(u, t) ==
  {res[r].gpu : r \in {q \in Rows : /\ res[q].user = u /\ Live(q)
                                    /\ res[q].start <= t /\ t < res[q].end}}

(* What a student holds: what is paused will resume, whenever its window   *)
(* was.                                                                    *)
HeldRows(u) ==
  {r \in Rows : /\ res[r].user = u
                /\ \/ res[r].status = "SUSPENDED"
                   \/ res[r].status = "ACTIVE" /\ res[r].end > now}

(* list_active_reservations_for_user: a paused reservation "belongs        *)
(* wherever a student's live reservations are listed or bulk-cancelled".   *)
(* Broken for one whose original window has passed: the admin's bulk       *)
(* cancellation leaves it, and it resumes later.                           *)
BulkCancelTakesAll == \A u \in Users : HeldRows(u) \subseteq HeldUpcoming(u)

-----------------------------------------------------------------------------
(* A student's two limits give way only where the code lets them: when     *)
(* paused rows come back, or, for the GPUs held at one instant, when the   *)
(* new booking's GPU is one the student already holds in its window.       *)
BooksOnHeldGpu(u) ==
  \E r \in Rids : /\ ~IsRow(r) /\ res'[r] # NoRow /\ res'[r].user = u
                 /\ res'[r].gpu \in ConcurrentGpus(u, res'[r].start,
                                                     res'[r].end)
LimitStep ==
  \A u \in Users :
    /\ Cardinality(HeldUpcoming(u)') > reg'.maxActive =>
         \/ Cardinality(HeldUpcoming(u)') <= Cardinality(HeldUpcoming(u))
         \/ Resumes
    /\ \A t \in Instants :
         Cardinality(GpusHeldAt(u, t)') > gpuLimit'[u] =>
           \/ Cardinality(GpusHeldAt(u, t)') <= Cardinality(GpusHeldAt(u, t))
           \/ Resumes
           \/ BooksOnHeldGpu(u)
LimitsGiveWayOnlyThere == [][LimitStep]_vars

-----------------------------------------------------------------------------
(* What the tables say of the life of each reservation.                    *)
LifeOf(row) == [user |-> row.user, gpu |-> row.gpu, status |-> row.status]
ASSUME NoLifeAssumption ==
  NoRow \notin [user : Users, gpu : Gpus, status : Status]
LifeTable == [r \in Rids |-> IF IsRow(r) THEN LifeOf(res[r]) ELSE NoRow]
UsableGpus == {g \in Gpus : Effective(g)}
Life == INSTANCE ReservationLife WITH life <- LifeTable, usable <- UsableGpus

(* The requests implement the promise of ReservationLife: whatever is      *)
(* switched, registered, deleted or revived, a GPU never becomes usable    *)
(* with a reservation still paused on it, and nothing is booked on a GPU   *)
(* that cannot be used.                                                    *)
ImplementsLife == Life!LifeSpec
==============================================================================
