----------------------------- MODULE BookingRace -----------------------------
(***************************************************************************)
(* The requests of Booking, taken apart at the points where another one    *)
(* can run.                                                                *)
(*                                                                         *)
(* The handlers are plain functions run by a pool of threads, each with a  *)
(* database session of its own (dml_web/deps.py, dml_core/db/session.py).  *)
(* The SQLite driver opens a transaction at a session's first write: until *)
(* then every SELECT sees what is committed at that moment; from then on   *)
(* the session holds the only write lock until it commits, and what it     *)
(* selects is fresh.  So a request is a number of separate reads followed  *)
(* by one write step, which holds everything from its first write to its   *)
(* commit; a reader meanwhile sees the state before it.  Rows read before  *)
(* the first write stay as they were read (the session's identity map),    *)
(* and of a row that was read only the columns that change are written.    *)
(*                                                                         *)
(* A request that fails, loses its wait for the write lock or dies before  *)
(* it commits leaves nothing behind.  The clock moves between requests     *)
(* only: its unit is minutes and a request takes milliseconds.             *)
(***************************************************************************)
EXTENDS Booking

CONSTANTS
  Requests,  \* the threads of the pool
  Kinds      \* the kinds of request that are made

ASSUME KindsAssumption ==
  Kinds \subseteq {"create", "cancel", "bulk", "gpu", "server", "delete",
                   "register", "access", "settings"}

VARIABLE req  \* what each thread has read so far

raceVars == <<vars, req>>

Idle == [step |-> "idle"]
Free(p) == req[p] = Idle
Becomes(p, state) == req' = [req EXCEPT ![p] = state]
At(p, step) == req[p].step = step

(* A definition marked as a slip is used nowhere, as in Booking.           *)

(* Reading: the tables stay.                                               *)
Reads == UNCHANGED vars

(* What is written of a row that a thread read as old and set to new: the  *)
(* columns it changed, over whatever the row holds by now.                 *)
Saved(row, old, new) ==
  [c \in DOMAIN row |-> IF new[c] = old[c] THEN row[c] ELSE new[c]]

-----------------------------------------------------------------------------
(* create_reservation.  The caller, the GPU, the access grants and the     *)
(* regulation are loaded first and kept.                                   *)
LoadForCreate(p, u, g, start, end, ram) ==
  /\ "create" \in Kinds /\ Free(p)
  /\ ServerOf[g] \in access[u]
  /\ gpus[g].active
  /\ Becomes(p, [step |-> "create-server", user |-> u, gpu |-> g,
                 start |-> start, end |-> end, ram |-> ram,
                 total |-> gpus[g].ram, limit |-> gpuLimit[u], reg |-> reg])
  /\ Reads

(* The GPU's server is loaded when its flag is looked at; then the checks  *)
(* that need no further query.                                             *)
CheckServer(p) ==
  LET q == req[p]
  IN  /\ At(p, "create-server")
      /\ servers[ServerOf[q.gpu]].active
      /\ q.start < q.end
      /\ q.reg.slot # 0
      /\ q.start % q.reg.slot = 0 /\ q.end % q.reg.slot = 0
      /\ q.end - q.start <= q.reg.maxDuration
      /\ now <= q.start /\ q.start <= now + q.reg.horizon
      /\ 0 < q.ram /\ q.ram <= q.reg.maxRam /\ q.ram <= q.total
      /\ Becomes(p, [q EXCEPT !.step = "create-count"])
      /\ Reads

CheckCountOffByOne(p) ==  \* a slip
  /\ At(p, "create-count")
  /\ Cardinality(HeldUpcoming(req[p].user)) <= req[p].reg.maxActive
  /\ Becomes(p, [req[p] EXCEPT !.step = "create-room"])
  /\ Reads
CheckCount(p) ==
  /\ At(p, "create-count")
  /\ Cardinality(HeldUpcoming(req[p].user)) < req[p].reg.maxActive
  /\ Becomes(p, [req[p] EXCEPT !.step = "create-room"])
  /\ Reads

CheckRoomBefore(p) ==  \* a slip: the new booking's own RAM is not added
  LET q == req[p]
  IN  /\ At(p, "create-room")
      /\ PeakConcurrentRam(OverlappingActive(q.gpu, q.start, q.end),
                           q.start, q.end) <= q.total
      /\ Becomes(p, [q EXCEPT !.step = "create-gpus"])
      /\ Reads
CheckRoom(p) ==
  LET q == req[p]
  IN  /\ At(p, "create-room")
      /\ PeakConcurrentRam(OverlappingActive(q.gpu, q.start, q.end),
                           q.start, q.end) + q.ram <= q.total
      /\ Becomes(p, [q EXCEPT !.step = "create-gpus"])
      /\ Reads

CheckGpus(p) ==
  LET q == req[p]
      held == ConcurrentGpus(q.user, q.start, q.end)
  IN  /\ At(p, "create-gpus")
      /\ q.gpu \in held \/ Cardinality(held) < q.limit
      /\ Becomes(p, [q EXCEPT !.step = "create-insert"])
      /\ Reads

Insert(p) ==
  LET q == req[p]
  IN  /\ At(p, "create-insert")
      /\ \E r \in Rids :
           /\ IsNextId(r)
           /\ res' = [res EXCEPT ![r] =
                        [user |-> q.user, gpu |-> q.gpu, start |-> q.start,
                         end |-> q.end, ram |-> q.ram, status |-> "ACTIVE"]]
      /\ Becomes(p, Idle)
      /\ UNCHANGED <<now, servers, gpus, access, gpuLimit, reg>>

-----------------------------------------------------------------------------
(* The three cancellations read the rows, then update each of them.        *)
LoadToCancel(p, S) ==
  /\ Free(p)
  /\ S # {}
  /\ Becomes(p, [step |-> "cancel", rows |-> S])
  /\ Reads

LoadForCancel(p, r) ==
  /\ "cancel" \in Kinds
  /\ IsRow(r) /\ res[r].status # "CANCELLED"
  /\ LoadToCancel(p, {r})

LoadForUserCancel(p, u) == "bulk" \in Kinds /\ LoadToCancel(p, HeldUpcoming(u))

LoadForCancelAll(p) ==
  /\ "bulk" \in Kinds
  /\ LoadToCancel(p, {r \in Rows : /\ Live(r)
                                   /\ res[r].start < now + reg.horizon
                                   /\ res[r].end > now})

(* An update of a row that is gone fails the whole request.                *)
WriteCancel(p) ==
  /\ At(p, "cancel")
  /\ req[p].rows \subseteq Rows
  /\ res' = Cancelled(req[p].rows)
  /\ Becomes(p, Idle)
  /\ UNCHANGED <<now, servers, gpus, access, gpuLimit, reg>>

-----------------------------------------------------------------------------
(* set_gpu_active writes only when the flag it read differs.  The server   *)
(* is loaded where the flags are combined: before the write if the GPU was *)
(* on, inside the write if it was off.                                     *)
LoadGpuToSwitch(p, g, on) ==
  /\ "gpu" \in Kinds /\ Free(p)
  /\ gpus[g].present
  /\ gpus[g].active # on
  /\ Becomes(p, [step |-> IF on THEN "gpu-on" ELSE "gpu-server", gpu |-> g])
  /\ Reads

LoadServerOfGpu(p) ==
  /\ At(p, "gpu-server")
  /\ Becomes(p, [step |-> "gpu-off", gpu |-> req[p].gpu,
                 was |-> servers[ServerOf[req[p].gpu]].active])
  /\ Reads

WriteGpuOff(p) ==
  LET g == req[p].gpu
  IN  /\ At(p, "gpu-off")
      /\ gpus' = [gpus EXCEPT ![g].active = FALSE]
      /\ res' = IF req[p].was THEN Suspended({g}) ELSE res
      /\ Becomes(p, Idle)
      /\ UNCHANGED <<now, servers, access, gpuLimit, reg>>

WriteGpuOn(p) ==
  LET g == req[p].gpu
  IN  /\ At(p, "gpu-on")
      /\ gpus' = [gpus EXCEPT ![g].active = TRUE]
      /\ res' = IF servers[ServerOf[g]].active THEN Resumed({g}) ELSE res
      /\ Becomes(p, Idle)
      /\ UNCHANGED <<now, servers, access, gpuLimit, reg>>

LoadServerToSwitch(p, s, on) ==
  /\ "server" \in Kinds /\ Free(p)
  /\ servers[s].present
  /\ servers[s].active # on
  /\ Becomes(p, [step |-> "server-switch", server |-> s, on |-> on])
  /\ Reads

WriteServerSwitch(p) ==
  LET s == req[p].server
  IN  /\ At(p, "server-switch")
      /\ servers' = [servers EXCEPT ![s].active = req[p].on]
      /\ res' = IF req[p].on
                THEN Resumed({g \in GpusOf(s) : gpus[g].active})
                ELSE Suspended(GpusOf(s))
      /\ Becomes(p, Idle)
      /\ UNCHANGED <<now, gpus, access, gpuLimit, reg>>

-----------------------------------------------------------------------------
(* Registering again what was deleted.                                     *)
LoadToRegister(p, s) ==
  /\ "register" \in Kinds /\ Free(p)
  /\ ~servers[s].present
  /\ Becomes(p, [step |-> "register-server", server |-> s, old |-> servers[s]])
  /\ Reads

WriteServer(p) ==
  LET q == req[p]
  IN  /\ At(p, "register-server")
      /\ servers' = [servers EXCEPT ![q.server] =
                       Saved(@, q.old, [present |-> TRUE, active |-> TRUE])]
      /\ Becomes(p, Idle)
      /\ UNCHANGED <<now, gpus, res, access, gpuLimit, reg>>

LoadToAddGpu(p, g, m) ==
  /\ "register" \in Kinds /\ Free(p)
  /\ servers[ServerOf[g]].present
  /\ ~gpus[g].present
  /\ Becomes(p, [step |-> "register-gpu", gpu |-> g, ram |-> m,
                 old |-> gpus[g]])
  /\ Reads

WriteGpu(p) ==
  LET q == req[p]
  IN  /\ At(p, "register-gpu")
      /\ gpus' = [gpus EXCEPT ![q.gpu] =
                    Saved(@, q.old, [present |-> TRUE, active |-> TRUE,
                                     ram |-> q.ram])]
      /\ Becomes(p, Idle)
      /\ UNCHANGED <<now, servers, res, access, gpuLimit, reg>>

-----------------------------------------------------------------------------
(* Deleting.  The reservations of the first GPU are selected before the    *)
(* first write, those of the others after it; a server without GPUs has    *)
(* none to select.                                                         *)
LoadToDelete(p, G, S) ==
  /\ "delete" \in Kinds /\ Free(p)
  /\ \E first \in SUBSET G :
       /\ Cardinality(first) = IF G = {} THEN 0 ELSE 1
       /\ Becomes(p, [step |-> "delete-rows", first |-> first,
                      gpus |-> [g \in G |-> gpus[g]],
                      servers |-> [s \in S |-> servers[s]]])
  /\ Reads

LoadToDeleteGpu(p, g) == gpus[g].present /\ LoadToDelete(p, {g}, {})

LoadToDeleteServer(p, s) ==
  servers[s].present /\ LoadToDelete(p, PresentGpusOf(s), {s})

LoadRowsToDelete(p) ==
  LET q == req[p]
  IN  /\ At(p, "delete-rows")
      /\ Becomes(p, [step |-> "delete", gpus |-> q.gpus,
                     servers |-> q.servers, first |-> q.first,
                     rows |-> LiveOn(q.first)])
      /\ Reads

WriteDelete(p) ==
  LET q == req[p]
      G == DOMAIN q.gpus
      S == DOMAIN q.servers
      gone(row, old) ==
        Saved(row, old, [old EXCEPT !.present = FALSE, !.active = FALSE])
  IN  /\ At(p, "delete")
      /\ q.rows \subseteq Rows
      /\ res' = Cancelled(q.rows \cup LiveOn(G \ q.first))
      /\ gpus' = [g \in Gpus |-> IF g \in G THEN gone(gpus[g], q.gpus[g])
                                 ELSE gpus[g]]
      /\ servers' = [s \in Servers |->
                       IF s \in S THEN gone(servers[s], q.servers[s])
                       ELSE servers[s]]
      /\ access' = [u \in Users |-> access[u] \ S]
      /\ Becomes(p, Idle)
      /\ UNCHANGED <<now, gpuLimit, reg>>

-----------------------------------------------------------------------------
(* set_server_access: the old grants are read before the first write, the  *)
(* reservations to cancel after it.                                        *)
LoadAccess(p, u, S) ==
  /\ "access" \in Kinds /\ Free(p)
  /\ Becomes(p, [step |-> "access", user |-> u, new |-> S, old |-> access[u]])
  /\ Reads

WriteAccess(p) ==
  LET q == req[p]
  IN  /\ At(p, "access")
      /\ access' = [access EXCEPT ![q.user] = q.new]
      /\ res' = Cancelled(HeldOn(q.user, q.old \ q.new))
      /\ Becomes(p, Idle)
      /\ UNCHANGED <<now, servers, gpus, gpuLimit, reg>>

-----------------------------------------------------------------------------
(* Requests whose reads decide nothing: one write step each.  Two saves of *)
(* the regulation at once can leave columns of both; Regulations stands    *)
(* for whatever is left.                                                   *)
Settings(p) ==
  /\ "settings" \in Kinds /\ Free(p)
  /\ UserSettings
  /\ UNCHANGED req

(* A check that fails, a lock never obtained, a dying thread: rolled back. *)
Fail(p) ==
  /\ ~Free(p)
  /\ Becomes(p, Idle)
  /\ Reads

RaceTick ==
  /\ \A p \in Requests : Free(p)
  /\ Tick
  /\ UNCHANGED req

RaceInit == Init /\ req = [p \in Requests |-> Idle]

CreateSteps(p) ==
  \/ \E u \in Users, g \in Gpus, start, end \in 0..MaxTime, ram \in Rams :
       LoadForCreate(p, u, g, start, end, ram)
  \/ CheckServer(p) \/ CheckCount(p) \/ CheckRoom(p) \/ CheckGpus(p)
  \/ Insert(p)

CancelSteps(p) ==
  \/ \E r \in Rids : LoadForCancel(p, r)
  \/ \E u \in Users : LoadForUserCancel(p, u)
  \/ LoadForCancelAll(p)
  \/ WriteCancel(p)

SwitchSteps(p) ==
  \/ \E g \in Gpus, on \in BOOLEAN : LoadGpuToSwitch(p, g, on)
  \/ LoadServerOfGpu(p) \/ WriteGpuOff(p) \/ WriteGpuOn(p)
  \/ \E s \in Servers, on \in BOOLEAN : LoadServerToSwitch(p, s, on)
  \/ WriteServerSwitch(p)

FleetSteps(p) ==
  \/ \E s \in Servers : LoadToRegister(p, s) \/ LoadToDeleteServer(p, s)
  \/ \E g \in Gpus, m \in GpuRams : LoadToAddGpu(p, g, m)
  \/ \E g \in Gpus : LoadToDeleteGpu(p, g)
  \/ WriteServer(p) \/ WriteGpu(p) \/ LoadRowsToDelete(p) \/ WriteDelete(p)

AccessSteps(p) ==
  \/ \E u \in Users, S \in SUBSET Servers : LoadAccess(p, u, S)
  \/ WriteAccess(p)

RaceNext ==
  \/ \E p \in Requests :
       \/ CreateSteps(p)
       \/ CancelSteps(p)
       \/ SwitchSteps(p)
       \/ FleetSteps(p)
       \/ AccessSteps(p)
       \/ Settings(p)
       \/ Fail(p)
  \/ RaceTick

RaceSpec == RaceInit /\ [][RaceNext]_raceVars

-----------------------------------------------------------------------------
(* Each thread beyond the first can add one booking that the checks did    *)
(* not see: while students only book and cancel, a GPU is overfilled by no *)
(* more than that, however the requests interleave and repeat.             *)
MostRam == CHOOSE m \in Rams : \A n \in Rams : n <= m
OverfillIsBounded ==
  \A g \in Gpus, t \in Instants :
    Held(g, t) <= gpus[g].ram + (Cardinality(Requests) - 1) * MostRam

(* The same for the number of reservations a student holds.                *)
CountIsBounded ==
  \A u \in Users :
    Cardinality(HeldUpcoming(u)) <= reg.maxActive + Cardinality(Requests) - 1
==============================================================================
