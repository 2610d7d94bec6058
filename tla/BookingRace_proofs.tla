-------------------------- MODULE BookingRace_proofs --------------------------
(***************************************************************************)
(* Proofs about BookingRace: for any number of threads, whatever the       *)
(* requests interleave with, fail or repeat.                               *)
(***************************************************************************)
EXTENDS MCBookingRegimes, Notifications_proofs, FiniteSetTheorems

-----------------------------------------------------------------------------
(***************************************************************************)
(* What a thread holds while its request is under way, by the step it has  *)
(* come to.                                                                *)
(***************************************************************************)
ServerRow == [present : BOOLEAN, active : BOOLEAN]
GpuRow == [present : BOOLEAN, active : BOOLEAN, ram : Int]
SomeGpuRows == UNION {[G -> GpuRow] : G \in SUBSET Gpus}
SomeServerRows == UNION {[S -> ServerRow] : S \in SUBSET Servers}

CreateStepNames ==
  {"create-server", "create-count", "create-room", "create-gpus",
   "create-insert"}
Creating ==
  {q \in [step : CreateStepNames, user : Users, gpu : Gpus, start : 0..MaxTime,
          end : 0..MaxTime, ram : Rams, total : Int, limit : Nat,
          reg : Regulations] : q.step # "create-server" => q.start < q.end}
Cancelling == [step : {"cancel"}, rows : SUBSET Rids]
SwitchingGpu == [step : {"gpu-on", "gpu-server"}, gpu : Gpus]
SwitchingGpuOff == [step : {"gpu-off"}, gpu : Gpus, was : BOOLEAN]
SwitchingServer == [step : {"server-switch"}, server : Servers, on : BOOLEAN]
RegisteringServer ==
  [step : {"register-server"}, server : Servers, old : ServerRow]
RegisteringGpu ==
  [step : {"register-gpu"}, gpu : Gpus, ram : GpuRams, old : GpuRow]
ToDelete == [step : {"delete-rows"}, first : SUBSET Gpus, gpus : SomeGpuRows,
             servers : SomeServerRows]
Deleting == [step : {"delete"}, first : SUBSET Gpus, gpus : SomeGpuRows,
             servers : SomeServerRows, rows : SUBSET Rids]
Granting ==
  [step : {"access"}, user : Users, new : SUBSET Servers, old : SUBSET Servers]

ReqState ==
  UNION {{Idle}, Creating, Cancelling, SwitchingGpu, SwitchingGpuOff,
         SwitchingServer, RegisteringServer, RegisteringGpu, ToDelete,
         Deleting, Granting}

LEMMA GpuRamsAreInts == \A m \in GpuRams : m \in Int
  BY RamsAssumption

RaceTypeOK == TypeOK /\ req \in [Requests -> ReqState]

(* The step tells what is held.                                            *)
LEMMA StateAt ==
  ASSUME RaceTypeOK, NEW p \in Requests
  PROVE  /\ req[p].step \in CreateStepNames => req[p] \in Creating
         /\ At(p, "cancel") => req[p] \in Cancelling
         /\ At(p, "gpu-on") \/ At(p, "gpu-server") => req[p] \in SwitchingGpu
         /\ At(p, "gpu-off") => req[p] \in SwitchingGpuOff
         /\ At(p, "server-switch") => req[p] \in SwitchingServer
         /\ At(p, "register-server") => req[p] \in RegisteringServer
         /\ At(p, "register-gpu") => req[p] \in RegisteringGpu
         /\ At(p, "delete-rows") => req[p] \in ToDelete
         /\ At(p, "delete") => req[p] \in Deleting
         /\ At(p, "access") => req[p] \in Granting
<1>1. req[p] \in ReqState
  BY DEF RaceTypeOK
<1>2. /\ req[p] = Idle => req[p].step = "idle"
      /\ req[p] \in Creating => req[p].step \in CreateStepNames
      /\ req[p] \in Cancelling => req[p].step = "cancel"
      /\ req[p] \in SwitchingGpu => req[p].step \in {"gpu-on", "gpu-server"}
      /\ req[p] \in SwitchingGpuOff => req[p].step = "gpu-off"
      /\ req[p] \in SwitchingServer => req[p].step = "server-switch"
      /\ req[p] \in RegisteringServer => req[p].step = "register-server"
      /\ req[p] \in RegisteringGpu => req[p].step = "register-gpu"
      /\ req[p] \in ToDelete => req[p].step = "delete-rows"
      /\ req[p] \in Deleting => req[p].step = "delete"
      /\ req[p] \in Granting => req[p].step = "access"
  BY DEF Idle, Creating, Cancelling, SwitchingGpu, SwitchingGpuOff,
         SwitchingServer, RegisteringServer, RegisteringGpu, ToDelete,
         Deleting, Granting
<1>3. \/ req[p] = Idle \/ req[p] \in Creating \/ req[p] \in Cancelling
      \/ req[p] \in SwitchingGpu \/ req[p] \in SwitchingGpuOff
      \/ req[p] \in SwitchingServer \/ req[p] \in RegisteringServer
      \/ req[p] \in RegisteringGpu \/ req[p] \in ToDelete
      \/ req[p] \in Deleting \/ req[p] \in Granting
  BY <1>1 DEF ReqState
<1> QED
  BY <1>2, <1>3 DEF At, CreateStepNames

(* A thread's move leaves the other threads where they are.                *)
LEMMA BecomesType ==
  ASSUME RaceTypeOK, NEW p \in Requests, NEW q \in ReqState, Becomes(p, q)
  PROVE  /\ req' \in [Requests -> ReqState]
         /\ req'[p] = q
         /\ \A o \in Requests : o # p => req'[o] = req[o]
  BY DEF RaceTypeOK, Becomes

LEMMA IdleState == Idle \in ReqState
  BY DEF ReqState

(* What is saved of a row has its schema.                                  *)
LEMMA SavedServerRow ==
  ASSUME NEW row \in ServerRow, NEW old \in ServerRow, NEW new \in ServerRow
  PROVE  /\ Saved(row, old, new) \in ServerRow
         /\ Saved(row, old, new).present =
              IF new.present = old.present THEN row.present ELSE new.present
         /\ Saved(row, old, new).active =
              IF new.active = old.active THEN row.active ELSE new.active
  BY DEF Saved, ServerRow

LEMMA SavedGpuRow ==
  ASSUME NEW row \in GpuRow, NEW old \in GpuRow, NEW new \in GpuRow
  PROVE  /\ Saved(row, old, new) \in GpuRow
         /\ Saved(row, old, new).present =
              IF new.present = old.present THEN row.present ELSE new.present
         /\ Saved(row, old, new).active =
              IF new.active = old.active THEN row.active ELSE new.active
         /\ Saved(row, old, new).ram =
              IF new.ram = old.ram THEN row.ram ELSE new.ram
  BY DEF Saved, GpuRow

(* Over the row that was read, what is saved is the new row.               *)
LEMMA SavedOverItself ==
  /\ \A row, new \in ServerRow : Saved(row, row, new) = new
  /\ \A row, new \in GpuRow : Saved(row, row, new) = new
<1>1. ASSUME NEW row \in ServerRow, NEW new \in ServerRow
      PROVE  Saved(row, row, new) = new
  <2> DEFINE saved == Saved(row, row, new)
  <2>1. /\ saved \in ServerRow
        /\ saved.present = new.present /\ saved.active = new.active
    BY SavedServerRow
  <2> HIDE DEF saved
  <2>2. saved = new
    BY <2>1 DEF ServerRow
  <2> QED
    BY <2>2 DEF saved
<1>2. ASSUME NEW row \in GpuRow, NEW new \in GpuRow
      PROVE  Saved(row, row, new) = new
  <2> DEFINE saved == Saved(row, row, new)
  <2>1. /\ saved \in GpuRow /\ saved.present = new.present
        /\ saved.active = new.active /\ saved.ram = new.ram
    BY SavedGpuRow
  <2> HIDE DEF saved
  <2>2. saved = new
    BY <2>1 DEF GpuRow
  <2> QED
    BY <2>2 DEF saved
<1> QED
  BY <1>1, <1>2

LEMMA RaceTypeInit == RaceInit => RaceTypeOK
  BY TypeInit, IdleState DEF RaceInit, RaceTypeOK

LEMMA CreateStepsType ==
  ASSUME RaceTypeOK, NEW p \in Requests, CreateSteps(p)
  PROVE  RaceTypeOK'
<1>1. ASSUME NEW u \in Users, NEW g \in Gpus, NEW start \in 0..MaxTime,
             NEW end \in 0..MaxTime, NEW ram \in Rams,
             LoadForCreate(p, u, g, start, end, ram)
      PROVE  RaceTypeOK'
  <2> DEFINE q == [step |-> "create-server", user |-> u, gpu |-> g,
                   start |-> start, end |-> end, ram |-> ram,
                   total |-> gpus[g].ram, limit |-> gpuLimit[u], reg |-> reg]
  <2>1. gpus[g].ram \in Int /\ gpuLimit[u] \in Nat /\ reg \in Regulations
    BY DEF RaceTypeOK, TypeOK
  <2>2. q \in Creating
    BY <2>1 DEF Creating, CreateStepNames
  <2>3. Becomes(p, q) /\ UNCHANGED vars
    BY <1>1 DEF LoadForCreate, Reads
  <2>4. q \in ReqState
    BY <2>2 DEF ReqState
  <2> HIDE DEF q
  <2>5. req' \in [Requests -> ReqState]
    BY <2>3, <2>4, BecomesType
  <2> QED
    BY <2>3, <2>5 DEF RaceTypeOK, TypeOK, vars
<1>2. ASSUME CheckServer(p) \/ CheckCount(p) \/ CheckRoom(p) \/ CheckGpus(p)
      PROVE  RaceTypeOK'
  <2>1. /\ req[p].step \in CreateStepNames
        /\ req[p].step # "create-server" \/ req[p].start < req[p].end
    BY <1>2 DEF CheckServer, CheckCount, CheckRoom, CheckGpus, At,
                CreateStepNames
  <2>2. req[p] \in Creating /\ req[p].start < req[p].end
    BY <2>1, StateAt DEF Creating
  <2>3. PICK s \in CreateStepNames : Becomes(p, [req[p] EXCEPT !.step = s])
    BY <1>2 DEF CheckServer, CheckCount, CheckRoom, CheckGpus, CreateStepNames
  <2> DEFINE q == [req[p] EXCEPT !.step = s]
  <2>4. q \in Creating
    BY <2>2 DEF Creating
  <2>5. q \in ReqState
    BY <2>4 DEF ReqState
  <2>6. req' \in [Requests -> ReqState]
    BY <2>3, <2>5, BecomesType
  <2>7. UNCHANGED vars
    BY <1>2 DEF CheckServer, CheckCount, CheckRoom, CheckGpus, Reads
  <2> QED
    BY <2>6, <2>7 DEF RaceTypeOK, TypeOK, vars
<1>3. CASE Insert(p)
  <2> DEFINE q == req[p]
             new == [user |-> q.user, gpu |-> q.gpu, start |-> q.start,
                     end |-> q.end, ram |-> q.ram, status |-> "ACTIVE"]
  <2>1. At(p, "create-insert") /\ Becomes(p, Idle)
    BY <1>3 DEF Insert
  <2>2. q \in Creating /\ q.start < q.end
    BY <2>1, StateAt DEF At, CreateStepNames, Creating
  <2>3. new \in Row
    <3>1. /\ q.user \in Users /\ q.gpu \in Gpus /\ q.ram \in Rams
          /\ q.start \in 0..MaxTime /\ q.end \in 0..MaxTime
      BY <2>2 DEF Creating
    <3> HIDE DEF q
    <3>2. \A t \in 0..MaxTime : t \in Nat
      BY TimeAssumption
    <3>3. q.start \in Nat /\ q.end \in Nat
      BY <3>1, <3>2
    <3>4. q.ram \in Int
      BY <3>1, RamsAssumption
    <3> QED
      BY <2>2, <3>1, <3>3, <3>4 DEF Row, Status
  <2>4. PICK r \in Rids : res' = [res EXCEPT ![r] = new]
    BY <1>3 DEF Insert
  <2> HIDE DEF new
  <2>5. res' \in [Rids -> Row \cup {NoRow}]
    BY <2>3, <2>4 DEF RaceTypeOK, TypeOK
  <2>6. req' \in [Requests -> ReqState]
    BY <2>1, BecomesType, IdleState
  <2> QED
    BY <1>3, <2>5, <2>6 DEF Insert, RaceTypeOK, TypeOK
<1> QED
  BY <1>1, <1>2, <1>3 DEF CreateSteps

LEMMA CancelStepsType ==
  ASSUME RaceTypeOK, NEW p \in Requests, CancelSteps(p)
  PROVE  RaceTypeOK'
<1>1. ASSUME NEW S \in SUBSET Rids, LoadToCancel(p, S) PROVE RaceTypeOK'
  <2> DEFINE q == [step |-> "cancel", rows |-> S]
  <2>1. q \in ReqState
    BY DEF ReqState, Cancelling
  <2>2. Becomes(p, q) /\ UNCHANGED vars
    BY <1>1 DEF LoadToCancel, Reads
  <2> HIDE DEF q
  <2>3. req' \in [Requests -> ReqState]
    BY <2>1, <2>2, BecomesType
  <2> QED
    BY <2>2, <2>3 DEF RaceTypeOK, TypeOK, vars
<1>2. CASE WriteCancel(p)
  <2>1. res' \in [Rids -> Row \cup {NoRow}]
    BY <1>2, CancelledType DEF WriteCancel, RaceTypeOK
  <2>2. req' \in [Requests -> ReqState]
    BY <1>2, BecomesType, IdleState DEF WriteCancel
  <2> QED
    BY <1>2, <2>1, <2>2 DEF WriteCancel, RaceTypeOK, TypeOK
<1>3. ASSUME NEW r \in Rids, LoadForCancel(p, r) PROVE RaceTypeOK'
  BY <1>1, <1>3 DEF LoadForCancel
<1>4. ASSUME NEW u \in Users, LoadForUserCancel(p, u) PROVE RaceTypeOK'
  BY <1>1, <1>4 DEF LoadForUserCancel, HeldUpcoming, Rows
<1>5. CASE LoadForCancelAll(p)
  BY <1>1, <1>5 DEF LoadForCancelAll, Rows
<1> QED
  BY <1>2, <1>3, <1>4, <1>5 DEF CancelSteps

(* A step that reads and comes to q.                                       *)
LEMMA ReadKeepsType ==
  ASSUME RaceTypeOK, NEW p \in Requests, NEW q \in ReqState, Becomes(p, q),
         Reads
  PROVE  RaceTypeOK'
<1>1. req' \in [Requests -> ReqState]
  BY BecomesType
<1> QED
  BY <1>1 DEF Reads, RaceTypeOK, TypeOK, vars

LEMMA SwitchStepsType ==
  ASSUME RaceTypeOK, NEW p \in Requests, SwitchSteps(p)
  PROVE  RaceTypeOK'
<1>1. ASSUME NEW g \in Gpus, NEW on \in BOOLEAN, LoadGpuToSwitch(p, g, on)
      PROVE  RaceTypeOK'
  <2> DEFINE q == [step |-> IF on THEN "gpu-on" ELSE "gpu-server", gpu |-> g]
  <2>1. q \in ReqState
    BY DEF ReqState, SwitchingGpu
  <2>2. Becomes(p, q) /\ Reads
    BY <1>1 DEF LoadGpuToSwitch
  <2> QED
    BY <2>1, <2>2, ReadKeepsType
<1>2. CASE LoadServerOfGpu(p)
  <2> DEFINE was == servers[ServerOf[req[p].gpu]].active
             q == [step |-> "gpu-off", gpu |-> req[p].gpu, was |-> was]
  <2>1. Becomes(p, q) /\ Reads /\ At(p, "gpu-server")
    BY <1>2 DEF LoadServerOfGpu
  <2>2. req[p].gpu \in Gpus
    BY <2>1, StateAt DEF SwitchingGpu
  <2>3. was \in BOOLEAN
    BY <2>2, ServerOfAssumption DEF RaceTypeOK, TypeOK
  <2>4. q \in ReqState
    <3> HIDE DEF was
    <3> QED
      BY <2>2, <2>3 DEF ReqState, SwitchingGpuOff
  <2> QED
    BY <2>1, <2>4, ReadKeepsType
<1>3. ASSUME WriteGpuOff(p) \/ WriteGpuOn(p) PROVE RaceTypeOK'
  <2> DEFINE g == req[p].gpu
  <2>1. g \in Gpus
    BY <1>3, StateAt DEF WriteGpuOff, WriteGpuOn, SwitchingGpu, SwitchingGpuOff
  <2>2. PICK on \in BOOLEAN : gpus' = [gpus EXCEPT ![g].active = on]
    BY <1>3 DEF WriteGpuOff, WriteGpuOn
  <2>3. res' \in {Suspended({g}), Resumed({g}), res}
    BY <1>3 DEF WriteGpuOff, WriteGpuOn
  <2>4. res' \in [Rids -> Row \cup {NoRow}]
    BY <2>3, SuspendedType, ResumedType DEF RaceTypeOK, TypeOK
  <2>5. req' \in [Requests -> ReqState]
    BY <1>3, BecomesType, IdleState DEF WriteGpuOff, WriteGpuOn
  <2>6. gpus' \in [Gpus -> [present : BOOLEAN, active : BOOLEAN, ram : Int]]
    <3> HIDE DEF g
    <3> QED
      BY <2>1, <2>2 DEF RaceTypeOK, TypeOK
  <2>7. UNCHANGED <<now, servers, access, gpuLimit, reg>>
    BY <1>3 DEF WriteGpuOff, WriteGpuOn
  <2> QED
    BY <2>4, <2>5, <2>6, <2>7 DEF RaceTypeOK, TypeOK
<1>4. ASSUME NEW s \in Servers, NEW on \in BOOLEAN, LoadServerToSwitch(p, s, on)
      PROVE  RaceTypeOK'
  <2> DEFINE q == [step |-> "server-switch", server |-> s, on |-> on]
  <2>1. q \in ReqState
    BY DEF ReqState, SwitchingServer
  <2>2. Becomes(p, q) /\ Reads
    BY <1>4 DEF LoadServerToSwitch
  <2> QED
    BY <2>1, <2>2, ReadKeepsType
<1>5. CASE WriteServerSwitch(p)
  <2> DEFINE s == req[p].server
             on == req[p].on
             G == {g \in GpusOf(s) : gpus[g].active}
  <2>1. s \in Servers /\ on \in BOOLEAN
    BY <1>5, StateAt DEF WriteServerSwitch, SwitchingServer
  <2>2. res' \in {Suspended(GpusOf(s)), Resumed(G)}
    BY <1>5 DEF WriteServerSwitch
  <2>3. res' \in [Rids -> Row \cup {NoRow}]
    BY <2>2, SuspendedType, ResumedType DEF RaceTypeOK
  <2>4. req' \in [Requests -> ReqState]
    BY <1>5, BecomesType, IdleState DEF WriteServerSwitch
  <2>5. servers' = [servers EXCEPT ![s].active = on]
    BY <1>5 DEF WriteServerSwitch
  <2>6. servers' \in [Servers -> [present : BOOLEAN, active : BOOLEAN]]
    <3> HIDE DEF s, on
    <3> QED
      BY <2>1, <2>5 DEF RaceTypeOK, TypeOK
  <2>7. UNCHANGED <<now, gpus, access, gpuLimit, reg>>
    BY <1>5 DEF WriteServerSwitch
  <2> QED
    BY <2>3, <2>4, <2>6, <2>7 DEF RaceTypeOK, TypeOK
<1> QED
  BY <1>1, <1>2, <1>3, <1>4, <1>5 DEF SwitchSteps

(* Registering.                                                            *)
LEMMA RegisterStepsType ==
  ASSUME RaceTypeOK, NEW p \in Requests
  PROVE  /\ \A s \in Servers : LoadToRegister(p, s) => RaceTypeOK'
         /\ \A g \in Gpus, m \in GpuRams : LoadToAddGpu(p, g, m) => RaceTypeOK'
         /\ WriteServer(p) => RaceTypeOK'
         /\ WriteGpu(p) => RaceTypeOK'
<1>1. ASSUME NEW s \in Servers, LoadToRegister(p, s) PROVE RaceTypeOK'
  <2> DEFINE q == [step |-> "register-server", server |-> s, old |-> servers[s]]
  <2>1. q \in ReqState
    BY DEF ReqState, RegisteringServer, ServerRow, RaceTypeOK, TypeOK
  <2>2. Becomes(p, q) /\ Reads
    BY <1>1 DEF LoadToRegister
  <2> QED
    BY <2>1, <2>2, ReadKeepsType
<1>2. ASSUME NEW g \in Gpus, NEW m \in GpuRams, LoadToAddGpu(p, g, m)
      PROVE  RaceTypeOK'
  <2> DEFINE q == [step |-> "register-gpu", gpu |-> g, ram |-> m,
                   old |-> gpus[g]]
  <2>1. q \in ReqState
    BY DEF ReqState, RegisteringGpu, GpuRow, RaceTypeOK, TypeOK
  <2>2. Becomes(p, q) /\ Reads
    BY <1>2 DEF LoadToAddGpu
  <2> QED
    BY <2>1, <2>2, ReadKeepsType
<1>3. CASE WriteServer(p)
  <2> DEFINE s == req[p].server
             new == [present |-> TRUE, active |-> TRUE]
  <2>1. s \in Servers /\ req[p].old \in ServerRow
    BY <1>3, StateAt DEF WriteServer, RegisteringServer
  <2>2. servers[s] \in ServerRow /\ new \in ServerRow
    BY <2>1 DEF RaceTypeOK, TypeOK, ServerRow
  <2>3. Saved(servers[s], req[p].old, new) \in ServerRow
    BY <2>1, <2>2, SavedServerRow
  <2>4. servers' = [servers EXCEPT ![s] = Saved(servers[s], req[p].old, new)]
    BY <1>3 DEF WriteServer
  <2>5. servers' \in [Servers -> ServerRow]
    BY <2>1, <2>3, <2>4 DEF RaceTypeOK, TypeOK, ServerRow
  <2>6. req' \in [Requests -> ReqState]
    BY <1>3, BecomesType, IdleState DEF WriteServer
  <2> QED
    BY <1>3, <2>5, <2>6 DEF WriteServer, RaceTypeOK, TypeOK, ServerRow
<1>4. CASE WriteGpu(p)
  <2> DEFINE g == req[p].gpu
             new == [present |-> TRUE, active |-> TRUE, ram |-> req[p].ram]
  <2>1. g \in Gpus /\ req[p].old \in GpuRow /\ req[p].ram \in Int
    BY <1>4, StateAt, GpuRamsAreInts DEF WriteGpu, RegisteringGpu
  <2>2. gpus[g] \in GpuRow /\ new \in GpuRow
    BY <2>1 DEF RaceTypeOK, TypeOK, GpuRow
  <2>3. Saved(gpus[g], req[p].old, new) \in GpuRow
    BY <2>1, <2>2, SavedGpuRow
  <2>4. gpus' = [gpus EXCEPT ![g] = Saved(gpus[g], req[p].old, new)]
    BY <1>4 DEF WriteGpu
  <2>5. gpus' \in [Gpus -> GpuRow]
    BY <2>1, <2>3, <2>4 DEF RaceTypeOK, TypeOK, GpuRow
  <2>6. req' \in [Requests -> ReqState]
    BY <1>4, BecomesType, IdleState DEF WriteGpu
  <2> QED
    BY <1>4, <2>5, <2>6 DEF WriteGpu, RaceTypeOK, TypeOK, GpuRow
<1> QED
  BY <1>1, <1>2, <1>3, <1>4

(* The rows a deletion has loaded, and what it makes of the tables.        *)
LEMMA LoadedRows ==
  /\ \A f \in SomeGpuRows :
       DOMAIN f \subseteq Gpus /\ \A g \in DOMAIN f : f[g] \in GpuRow
  /\ \A f \in SomeServerRows :
       DOMAIN f \subseteq Servers /\ \A s \in DOMAIN f : f[s] \in ServerRow
  /\ \A G \in SUBSET Gpus, f \in [Gpus -> GpuRow] :
       [g \in G |-> f[g]] \in SomeGpuRows
  /\ \A S \in SUBSET Servers, f \in [Servers -> ServerRow] :
       [s \in S |-> f[s]] \in SomeServerRows
<1>1. ASSUME NEW f \in SomeGpuRows
      PROVE  DOMAIN f \subseteq Gpus /\ \A g \in DOMAIN f : f[g] \in GpuRow
  <2>1. PICK G \in SUBSET Gpus : f \in [G -> GpuRow]
    BY DEF SomeGpuRows
  <2> QED
    BY <2>1
<1>2. ASSUME NEW f \in SomeServerRows
      PROVE  /\ DOMAIN f \subseteq Servers
             /\ \A s \in DOMAIN f : f[s] \in ServerRow
  <2>1. PICK S \in SUBSET Servers : f \in [S -> ServerRow]
    BY DEF SomeServerRows
  <2> QED
    BY <2>1
<1>3. ASSUME NEW G \in SUBSET Gpus, NEW f \in [Gpus -> GpuRow]
      PROVE  [g \in G |-> f[g]] \in SomeGpuRows
  <2>1. [g \in G |-> f[g]] \in [G -> GpuRow]
    OBVIOUS
  <2> QED
    BY <2>1 DEF SomeGpuRows
<1>4. ASSUME NEW S \in SUBSET Servers, NEW f \in [Servers -> ServerRow]
      PROVE  [s \in S |-> f[s]] \in SomeServerRows
  <2>1. [s \in S |-> f[s]] \in [S -> ServerRow]
    OBVIOUS
  <2> QED
    BY <2>1 DEF SomeServerRows
<1> QED
  BY <1>1, <1>2, <1>3, <1>4

(* A deletion switches nothing on and registers nothing.                   *)
LEMMA DeletedRows ==
  ASSUME RaceTypeOK, NEW p \in Requests, WriteDelete(p)
  PROVE  /\ req[p] \in Deleting
         /\ gpus' \in [Gpus -> GpuRow] /\ servers' \in [Servers -> ServerRow]
         /\ \A g \in Gpus : gpus'[g].active => gpus[g].active
         /\ \A s \in Servers : servers'[s].active => servers[s].active
         /\ req[p].rows \cup LiveOn(DOMAIN req[p].gpus \ req[p].first)
              \in SUBSET Rows
<1> DEFINE q == req[p]
           G == DOMAIN q.gpus
           S == DOMAIN q.servers
           goneGpu(g) == Saved(gpus[g], q.gpus[g],
                               [q.gpus[g] EXCEPT !.present = FALSE,
                                                 !.active = FALSE])
           goneServer(s) == Saved(servers[s], q.servers[s],
                                  [q.servers[s] EXCEPT !.present = FALSE,
                                                       !.active = FALSE])
<1>1. q \in Deleting
  BY StateAt DEF WriteDelete
<1>2. /\ q.gpus \in SomeGpuRows /\ q.servers \in SomeServerRows
  BY <1>1 DEF Deleting
<1>3. /\ gpus' = [g \in Gpus |-> IF g \in G THEN goneGpu(g) ELSE gpus[g]]
      /\ servers' = [s \in Servers |->
                       IF s \in S THEN goneServer(s) ELSE servers[s]]
      /\ q.rows \subseteq Rows
  BY DEF WriteDelete
<1>4. \A g \in Gpus : gpus[g] \in GpuRow
  BY DEF RaceTypeOK, TypeOK, GpuRow
<1>5. \A s \in Servers : servers[s] \in ServerRow
  BY DEF RaceTypeOK, TypeOK, ServerRow
<1>6. ASSUME NEW g \in Gpus, g \in G
      PROVE  goneGpu(g) \in GpuRow /\ (goneGpu(g).active => gpus[g].active)
  <2> DEFINE old == q.gpus[g]
             new == [old EXCEPT !.present = FALSE, !.active = FALSE]
  <2>1. old \in GpuRow
    BY <1>2, <1>6, LoadedRows
  <2> HIDE DEF q
  <2>2. new \in GpuRow /\ new.active = FALSE
    <3> HIDE DEF old
    <3> QED
      BY <2>1 DEF GpuRow
  <2> HIDE DEF old, new
  <2>3. /\ Saved(gpus[g], old, new) \in GpuRow
        /\ Saved(gpus[g], old, new).active =
             IF new.active = old.active THEN gpus[g].active ELSE new.active
    BY <1>4, <2>1, <2>2, SavedGpuRow
  <2>4. Saved(gpus[g], old, new).active => gpus[g].active
    BY <2>2, <2>3
  <2> QED
    BY <2>3, <2>4 DEF old, new
<1>7. ASSUME NEW s \in Servers, s \in S
      PROVE  /\ goneServer(s) \in ServerRow
             /\ goneServer(s).active => servers[s].active
  <2> DEFINE old == q.servers[s]
             new == [old EXCEPT !.present = FALSE, !.active = FALSE]
  <2>1. old \in ServerRow
    BY <1>2, <1>7, LoadedRows
  <2> HIDE DEF q
  <2>2. new \in ServerRow /\ new.active = FALSE
    <3> HIDE DEF old
    <3> QED
      BY <2>1 DEF ServerRow
  <2> HIDE DEF old, new
  <2>3. /\ Saved(servers[s], old, new) \in ServerRow
        /\ Saved(servers[s], old, new).active =
             IF new.active = old.active THEN servers[s].active ELSE new.active
    BY <1>5, <2>1, <2>2, SavedServerRow
  <2>4. Saved(servers[s], old, new).active => servers[s].active
    BY <2>2, <2>3
  <2> QED
    BY <2>3, <2>4 DEF old, new
<1> HIDE DEF goneGpu, goneServer, q
<1>8. /\ gpus' \in [Gpus -> GpuRow]
      /\ \A g \in Gpus : gpus'[g].active => gpus[g].active
  BY <1>3, <1>4, <1>6
<1>9. /\ servers' \in [Servers -> ServerRow]
      /\ \A s \in Servers : servers'[s].active => servers[s].active
  BY <1>3, <1>5, <1>7
<1>10. q.rows \cup LiveOn(G \ q.first) \in SUBSET Rows
  BY <1>3 DEF LiveOn
<1> QED
  BY <1>1, <1>8, <1>9, <1>10 DEF q

LEMMA DeleteStepsType ==
  ASSUME RaceTypeOK, NEW p \in Requests
  PROVE  /\ \A g \in Gpus : LoadToDeleteGpu(p, g) => RaceTypeOK'
         /\ \A s \in Servers : LoadToDeleteServer(p, s) => RaceTypeOK'
         /\ LoadRowsToDelete(p) => RaceTypeOK'
         /\ WriteDelete(p) => RaceTypeOK'
<1>1. ASSUME NEW G \in SUBSET Gpus, NEW S \in SUBSET Servers,
             LoadToDelete(p, G, S)
      PROVE  RaceTypeOK'
  <2>1. PICK first \in SUBSET G :
          Becomes(p, [step |-> "delete-rows", first |-> first,
                      gpus |-> [g \in G |-> gpus[g]],
                      servers |-> [s \in S |-> servers[s]]])
    BY <1>1 DEF LoadToDelete
  <2> DEFINE q == [step |-> "delete-rows", first |-> first,
                   gpus |-> [g \in G |-> gpus[g]],
                   servers |-> [s \in S |-> servers[s]]]
  <2>2. /\ gpus \in [Gpus -> GpuRow] /\ servers \in [Servers -> ServerRow]
    BY DEF RaceTypeOK, TypeOK, GpuRow, ServerRow
  <2>3. /\ [g \in G |-> gpus[g]] \in SomeGpuRows
        /\ [s \in S |-> servers[s]] \in SomeServerRows
    BY <2>2, LoadedRows
  <2>4. q \in ToDelete
    BY <2>3 DEF ToDelete
  <2>5. q \in ReqState
    BY <2>4 DEF ReqState
  <2> QED
    BY <1>1, <2>1, <2>5, ReadKeepsType DEF LoadToDelete
<1>2. ASSUME NEW g \in Gpus, LoadToDeleteGpu(p, g) PROVE RaceTypeOK'
  BY <1>1, <1>2 DEF LoadToDeleteGpu
<1>3. ASSUME NEW s \in Servers, LoadToDeleteServer(p, s) PROVE RaceTypeOK'
  BY <1>1, <1>3 DEF LoadToDeleteServer, PresentGpusOf, GpusOf
<1>4. CASE LoadRowsToDelete(p)
  <2> DEFINE q == [step |-> "delete", gpus |-> req[p].gpus,
                   servers |-> req[p].servers, first |-> req[p].first,
                   rows |-> LiveOn(req[p].first)]
  <2>1. Becomes(p, q) /\ Reads
    BY <1>4 DEF LoadRowsToDelete
  <2>2. req[p] \in ToDelete
    BY <1>4, StateAt DEF LoadRowsToDelete
  <2>3. LiveOn(req[p].first) \in SUBSET Rids
    BY DEF LiveOn, Rows
  <2>4. q \in Deleting
    BY <2>2, <2>3 DEF ToDelete, Deleting
  <2>5. q \in ReqState
    BY <2>4 DEF ReqState
  <2> QED
    BY <2>1, <2>5, ReadKeepsType
<1>5. CASE WriteDelete(p)
  <2>1. res' = Cancelled(req[p].rows
                           \cup LiveOn(DOMAIN req[p].gpus \ req[p].first))
    BY <1>5 DEF WriteDelete
  <2>2. res' \in [Rids -> Row \cup {NoRow}]
    BY <1>5, <2>1, DeletedRows, CancelledType DEF RaceTypeOK
  <2>3. req' \in [Requests -> ReqState]
    BY <1>5, BecomesType, IdleState DEF WriteDelete
  <2>4. /\ gpus' \in [Gpus -> GpuRow] /\ servers' \in [Servers -> ServerRow]
    BY <1>5, DeletedRows
  <2>5. /\ access' = [u \in Users |-> access[u] \ DOMAIN req[p].servers]
        /\ UNCHANGED <<now, gpuLimit, reg>>
    BY <1>5 DEF WriteDelete
  <2> QED
    BY <2>2, <2>3, <2>4, <2>5 DEF RaceTypeOK, TypeOK, GpuRow, ServerRow
<1> QED
  BY <1>2, <1>3, <1>4, <1>5

LEMMA AccessStepsType ==
  ASSUME RaceTypeOK, NEW p \in Requests, AccessSteps(p)
  PROVE  RaceTypeOK'
<1>1. ASSUME NEW u \in Users, NEW S \in SUBSET Servers, LoadAccess(p, u, S)
      PROVE  RaceTypeOK'
  <2> DEFINE q == [step |-> "access", user |-> u, new |-> S, old |-> access[u]]
  <2>1. q \in ReqState
    BY DEF ReqState, Granting, RaceTypeOK, TypeOK
  <2>2. Becomes(p, q) /\ Reads
    BY <1>1 DEF LoadAccess
  <2> QED
    BY <2>1, <2>2, ReadKeepsType
<1>2. CASE WriteAccess(p)
  <2> DEFINE q == req[p]
  <2>1. q.user \in Users /\ q.new \in SUBSET Servers
    BY <1>2, StateAt DEF WriteAccess, Granting
  <2>2. /\ access' = [access EXCEPT ![q.user] = q.new]
        /\ res' = Cancelled(HeldOn(q.user, q.old \ q.new))
        /\ UNCHANGED <<now, servers, gpus, gpuLimit, reg>>
    BY <1>2 DEF WriteAccess
  <2>3. res' \in [Rids -> Row \cup {NoRow}]
    BY <2>2, CancelledType DEF RaceTypeOK, HeldOn
  <2>4. req' \in [Requests -> ReqState]
    BY <1>2, BecomesType, IdleState DEF WriteAccess
  <2>5. access' \in [Users -> SUBSET Servers]
    <3> HIDE DEF q
    <3> QED
      BY <2>1, <2>2 DEF RaceTypeOK, TypeOK
  <2> QED
    BY <2>2, <2>3, <2>4, <2>5 DEF RaceTypeOK, TypeOK
<1> QED
  BY <1>1, <1>2 DEF AccessSteps

LEMMA RaceTypeStep == RaceTypeOK /\ [RaceNext]_raceVars => RaceTypeOK'
<1> SUFFICES ASSUME RaceTypeOK, [RaceNext]_raceVars PROVE RaceTypeOK'
  OBVIOUS
<1>1. ASSUME NEW p \in Requests, FleetSteps(p) PROVE RaceTypeOK'
  BY <1>1, RegisterStepsType, DeleteStepsType DEF FleetSteps
<1>2. ASSUME NEW p \in Requests, Settings(p) PROVE RaceTypeOK'
  <2>1. Next
    BY <1>2 DEF Settings, Next, UserAdminNext
  <2> QED
    BY <1>2, <2>1, TypeStep DEF Settings, RaceTypeOK
<1>3. ASSUME NEW p \in Requests, Fail(p) PROVE RaceTypeOK'
  BY <1>3, IdleState, ReadKeepsType DEF Fail
<1>4. CASE RaceTick
  <2>1. Next
    BY <1>4 DEF RaceTick, Next
  <2> QED
    BY <1>4, <2>1, TypeStep DEF RaceTick, RaceTypeOK
<1>5. CASE UNCHANGED raceVars
  BY <1>5 DEF raceVars, vars, RaceTypeOK, TypeOK
<1> QED
  BY <1>1, <1>2, <1>3, <1>4, <1>5, CreateStepsType, CancelStepsType,
     SwitchStepsType, AccessStepsType DEF RaceNext

(* Every table keeps its schema and every thread holds what its step reads *)
(* and needs, however the requests interleave.                             *)
THEOREM RaceTyped == RaceSpec => []RaceTypeOK
  BY RaceTypeInit, RaceTypeStep, PTL DEF RaceSpec

-----------------------------------------------------------------------------
(***************************************************************************)
(* A paused reservation is never left on a GPU that works, however         *)
(* switches, deletions, bookings and cancellations interleave: the row     *)
(* locks of nobody are needed, for a switch writes the flag and the rows   *)
(* in one transaction, and what a stale deletion writes switches nothing   *)
(* on.  Registrations are left out: they switch on what another thread may *)
(* have paused a reservation on after the deletion.                        *)
(***************************************************************************)
LEMMA PausedFollows ==
  ASSUME PausedOnlyWhileOff,
         \A r \in Rids :
           IsRow(r)' /\ res'[r].status = "SUSPENDED" =>
             \/ ~Effective(res[r].gpu)'
             \/ /\ IsRow(r) /\ res[r].status = "SUSPENDED"
                /\ res'[r].gpu = res[r].gpu
                /\ Effective(res[r].gpu)' => Effective(res[r].gpu)
  PROVE  PausedOnlyWhileOff'
  BY DEF PausedOnlyWhileOff

LEMMA CancelKeepsPaused ==
  ASSUME TypeOK, PausedOnlyWhileOff, NEW S \in SUBSET Rows,
         res' = Cancelled(S),
         \A g \in Gpus : gpus'[g].active => gpus[g].active,
         \A s \in Servers : servers'[s].active => servers[s].active
  PROVE  PausedOnlyWhileOff'
<1>1. ASSUME NEW r \in Rids, IsRow(r)', res'[r].status = "SUSPENDED"
      PROVE  /\ IsRow(r) /\ res[r].status = "SUSPENDED"
             /\ res'[r].gpu = res[r].gpu
             /\ Effective(res[r].gpu)' => Effective(res[r].gpu)
  <2>1. IsRow(r) /\ r \notin S /\ res'[r] = res[r]
    BY <1>1, CancelledRow DEF IsRow
  <2> QED
    BY <1>1, <2>1, RowRange DEF Effective
<1> QED
  BY <1>1, PausedFollows

LEMMA SameKeepsPaused ==
  ASSUME PausedOnlyWhileOff, UNCHANGED <<servers, gpus, res>>
  PROVE  PausedOnlyWhileOff'
  BY DEF PausedOnlyWhileOff, IsRow, Effective

LEMMA SwitchGpuKeepsPaused ==
  ASSUME RaceTypeOK, PausedOnlyWhileOff, NEW p \in Requests,
         WriteGpuOff(p) \/ WriteGpuOn(p)
  PROVE  PausedOnlyWhileOff'
<1> DEFINE g == req[p].gpu
<1>1. g \in Gpus /\ TypeOK
  BY StateAt DEF WriteGpuOff, WriteGpuOn, SwitchingGpu, SwitchingGpuOff,
                 RaceTypeOK
<1>2. PICK on \in BOOLEAN :
        /\ gpus' = [gpus EXCEPT ![g].active = on]
        /\ on => WriteGpuOn(p)
        /\ ~on => WriteGpuOff(p)
  BY DEF WriteGpuOff, WriteGpuOn
<1>3. /\ gpus'[g].active = on
      /\ \A h \in Gpus : h # g => gpus'[h] = gpus[h]
  <2> HIDE DEF g
  <2> QED
    BY <1>1, <1>2 DEF TypeOK
<1>4. servers' = servers
  BY DEF WriteGpuOff, WriteGpuOn
<1>5. ASSUME NEW r \in Rids, IsRow(r)', res'[r].status = "SUSPENDED"
      PROVE  \/ ~Effective(res[r].gpu)'
             \/ /\ IsRow(r) /\ res[r].status = "SUSPENDED"
                /\ res'[r].gpu = res[r].gpu
                /\ Effective(res[r].gpu)' => Effective(res[r].gpu)
  <2>1. CASE ~on
    <3>1. res' \in {Suspended({g}), res}
      BY <1>2, <2>1 DEF WriteGpuOff
    <3>2. IsRow(r) /\ res'[r].gpu = res[r].gpu
      BY <1>1, <1>5, <3>1, SuspendedRow DEF IsRow, SameTerms
    <3>3. res[r].gpu = g => ~Effective(res[r].gpu)'
      BY <1>3, <2>1, <3>2 DEF Effective
    <3>4. res[r].gpu # g => res'[r] = res[r]
      BY <1>1, <3>1, SuspendedRow
    <3>5. res[r].gpu \in Gpus
      BY <1>1, <3>2, RowRange
    <3> QED
      BY <1>3, <1>4, <1>5, <3>2, <3>3, <3>4, <3>5 DEF Effective
  <2>2. CASE on
    <3>1. res' = IF servers[ServerOf[g]].active THEN Resumed({g}) ELSE res
      BY <1>2, <2>2 DEF WriteGpuOn
    <3>2. IsRow(r) /\ res'[r].gpu = res[r].gpu
      BY <1>1, <1>5, <3>1, ResumedRow DEF IsRow, SameTerms
    <3>3. res[r].gpu \in Gpus /\ res[r].status \in Status
      BY <1>1, <3>2, RowRange
    <3>4. CASE servers[ServerOf[g]].active
      <4>1. ~(res[r].gpu \in {g} /\ res[r].status = "SUSPENDED")
        BY <1>1, <1>5, <3>1, <3>2, <3>4, ResumedRow
      <4>2. res'[r] = res[r]
        BY <1>1, <3>1, <3>4, <4>1, ResumedRow
      <4>3. res[r].gpu # g
        BY <1>5, <4>1, <4>2
      <4> QED
        BY <1>3, <1>4, <1>5, <3>2, <3>3, <4>2, <4>3 DEF Effective
    <3>5. CASE ~servers[ServerOf[g]].active
      <4>1. res'[r] = res[r]
        BY <3>1, <3>5
      <4>2. CASE res[r].gpu = g
        BY <1>4, <3>2, <3>5, <4>2 DEF Effective
      <4>3. CASE res[r].gpu # g
        BY <1>3, <1>4, <1>5, <3>2, <3>3, <4>1, <4>3 DEF Effective
      <4> QED
        BY <4>2, <4>3
    <3> QED
      BY <3>4, <3>5
  <2> QED
    BY <2>1, <2>2
<1> QED
  BY <1>5, PausedFollows

LEMMA SwitchServerKeepsPaused ==
  ASSUME RaceTypeOK, PausedOnlyWhileOff, NEW p \in Requests,
         WriteServerSwitch(p)
  PROVE  PausedOnlyWhileOff'
<1> DEFINE s == req[p].server
           on == req[p].on
           G == {g \in GpusOf(s) : gpus[g].active}
<1>1. s \in Servers /\ on \in BOOLEAN /\ TypeOK
  BY StateAt DEF WriteServerSwitch, SwitchingServer, RaceTypeOK
<1>2. /\ servers' = [servers EXCEPT ![s].active = on]
      /\ res' = IF on THEN Resumed(G) ELSE Suspended(GpusOf(s))
      /\ gpus' = gpus
  BY DEF WriteServerSwitch
<1>3. /\ servers'[s].active = on
      /\ \A t \in Servers : t # s => servers'[t] = servers[t]
  <2> HIDE DEF s, on
  <2> QED
    BY <1>1, <1>2 DEF TypeOK
<1> HIDE DEF s, on
<1>4. ASSUME NEW r \in Rids, IsRow(r)', res'[r].status = "SUSPENDED"
      PROVE  \/ ~Effective(res[r].gpu)'
             \/ /\ IsRow(r) /\ res[r].status = "SUSPENDED"
                /\ res'[r].gpu = res[r].gpu
                /\ Effective(res[r].gpu)' => Effective(res[r].gpu)
  <2>1. IsRow(r) /\ res'[r].gpu = res[r].gpu
    <3>1. CASE on
      BY <1>1, <1>2, <1>4, <3>1, ResumedRow DEF IsRow, SameTerms
    <3>2. CASE ~on
      BY <1>1, <1>2, <1>4, <3>2, SuspendedRow DEF IsRow, SameTerms
    <3> QED
      BY <3>1, <3>2
  <2>2. res[r].gpu \in Gpus /\ ServerOf[res[r].gpu] \in Servers
    BY <1>1, <2>1, RowRange
  <2>3. CASE res[r].gpu \notin GpusOf(s)
    <3>1. res'[r] = res[r]
      BY <1>1, <1>2, <2>3, ResumedRow, SuspendedRow
    <3>2. ServerOf[res[r].gpu] # s
      BY <2>2, <2>3 DEF GpusOf
    <3> QED
      BY <1>2, <1>3, <1>4, <2>1, <2>2, <3>1, <3>2 DEF Effective
  <2>4. CASE res[r].gpu \in GpusOf(s) /\ ~on
    BY <1>3, <2>1, <2>4 DEF Effective, GpusOf
  <2>5. CASE res[r].gpu \in GpusOf(s) /\ on
    <3>1. res[r].status = "SUSPENDED" => res[r].gpu \notin G
      BY <1>1, <1>2, <1>4, <2>1, <2>5, ResumedRow
    <3>2. res[r].gpu \notin G
      BY <1>1, <1>2, <1>4, <2>5, <3>1, ResumedRow
    <3>3. ~gpus[res[r].gpu].active
      BY <2>5, <3>2
    <3> QED
      BY <1>2, <2>1, <3>3 DEF Effective
  <2> QED
    BY <2>3, <2>4, <2>5
<1> QED
  BY <1>4, PausedFollows

(* A booking that is written changes no other row.                         *)
LEMMA InsertedRow ==
  ASSUME RaceTypeOK, NEW p \in Requests, Insert(p)
  PROVE  \E r \in Rids :
           /\ ~IsRow(r) /\ IsRow(r)' /\ res'[r].user = req[p].user
           /\ res'[r].gpu = req[p].gpu /\ res'[r].start = req[p].start
           /\ res'[r].ram = req[p].ram
           /\ res'[r].status = "ACTIVE" /\ res'[r].end = req[p].end
           /\ \A q \in Rids : q # r => res'[q] = res[q]
<1>1. PICK r \in Rids :
        /\ IsNextId(r)
        /\ res' = [res EXCEPT ![r] =
                     [user |-> req[p].user, gpu |-> req[p].gpu,
                      start |-> req[p].start, end |-> req[p].end,
                      ram |-> req[p].ram, status |-> "ACTIVE"]]
  BY DEF Insert
<1>2. r \in Int
  BY <1>1 DEF Rids
<1>3. ~IsRow(r)
  BY <1>1, <1>2 DEF IsNextId
<1>4. /\ \A q \in Rids : q # r => res'[q] = res[q]
      /\ res'[r].user = req[p].user /\ res'[r].status = "ACTIVE"
      /\ res'[r].gpu = req[p].gpu /\ res'[r].ram = req[p].ram
      /\ res'[r].start = req[p].start /\ res'[r].end = req[p].end
  BY <1>1 DEF RaceTypeOK, TypeOK
<1>5. [user |-> req[p].user, gpu |-> req[p].gpu, start |-> req[p].start,
       end |-> req[p].end, ram |-> req[p].ram, status |-> "ACTIVE"] \in Row
  <2>1. req[p] \in Creating /\ req[p].step = "create-insert"
    BY StateAt DEF Insert, At, CreateStepNames
  <2>2. \A x \in 0..MaxTime : x \in Nat
    BY TimeAssumption
  <2>3. \A m \in Rams : m \in Int
    BY RamsAssumption
  <2>4. /\ req[p].user \in Users /\ req[p].gpu \in Gpus
        /\ req[p].start \in Nat /\ req[p].end \in Nat
        /\ req[p].ram \in Int /\ req[p].start < req[p].end
    BY <2>1, <2>2, <2>3 DEF Creating
  <2> QED
    BY <2>4 DEF Row, Status
<1>6. IsRow(r)'
  BY <1>1, <1>5, NoRowAssumption DEF IsRow, RaceTypeOK, TypeOK
<1> QED
  BY <1>3, <1>4, <1>6

(* Without requests to register none is under way.                         *)
NobodyRegisters ==
  \A p \in Requests : ~At(p, "register-server") /\ ~At(p, "register-gpu")

LEMMA NobodyRegistersStep ==
  ASSUME "register" \notin Kinds, RaceTypeOK, NobodyRegisters,
         [RaceNext]_raceVars
  PROVE  NobodyRegisters'
<1>1. ASSUME NEW p \in Requests, NEW q, Becomes(p, q),
             q.step \notin {"register-server", "register-gpu"}
      PROVE  NobodyRegisters'
  BY <1>1 DEF Becomes, NobodyRegisters, At, RaceTypeOK
<1>2. ASSUME req' = req PROVE NobodyRegisters'
  BY <1>2 DEF NobodyRegisters, At
<1>3. ASSUME NEW p \in Requests, Becomes(p, Idle) PROVE NobodyRegisters'
  BY <1>1, <1>3 DEF Idle
<1>4. ASSUME NEW p \in Requests, CreateSteps(p) PROVE NobodyRegisters'
  <2>1. ASSUME NEW u \in Users, NEW g \in Gpus, NEW start \in 0..MaxTime,
               NEW end \in 0..MaxTime, NEW ram \in Rams,
               LoadForCreate(p, u, g, start, end, ram)
        PROVE  NobodyRegisters'
    BY <1>1, <2>1 DEF LoadForCreate
  <2>2. ASSUME CheckServer(p) \/ CheckCount(p) \/ CheckRoom(p) \/ CheckGpus(p)
        PROVE  NobodyRegisters'
    <3>1. PICK s \in CreateStepNames : Becomes(p, [req[p] EXCEPT !.step = s])
      BY <2>2 DEF CheckServer, CheckCount, CheckRoom, CheckGpus,
                  CreateStepNames
    <3>2. req[p] \in Creating
      BY <2>2, StateAt DEF CheckServer, CheckCount, CheckRoom, CheckGpus, At,
                           CreateStepNames
    <3>3. [req[p] EXCEPT !.step = s].step = s
      BY <3>2 DEF Creating
    <3> QED
      BY <1>1, <3>1, <3>3 DEF CreateStepNames
  <2> QED
    BY <1>3, <1>4, <2>1, <2>2 DEF CreateSteps, Insert
<1>5. ASSUME NEW p \in Requests, CancelSteps(p) PROVE NobodyRegisters'
  <2>1. ASSUME NEW S, LoadToCancel(p, S) PROVE NobodyRegisters'
    BY <1>1, <2>1 DEF LoadToCancel
  <2> QED
    BY <1>3, <1>5, <2>1 DEF CancelSteps, WriteCancel, LoadForCancel,
                            LoadForUserCancel, LoadForCancelAll
<1>6. ASSUME NEW p \in Requests, SwitchSteps(p) PROVE NobodyRegisters'
  <2>1. ASSUME NEW g \in Gpus, NEW on \in BOOLEAN, LoadGpuToSwitch(p, g, on)
        PROVE  NobodyRegisters'
    BY <1>1, <2>1 DEF LoadGpuToSwitch
  <2>2. CASE LoadServerOfGpu(p)
    BY <1>1, <2>2 DEF LoadServerOfGpu
  <2>3. ASSUME NEW s \in Servers, NEW on \in BOOLEAN,
               LoadServerToSwitch(p, s, on)
        PROVE  NobodyRegisters'
    BY <1>1, <2>3 DEF LoadServerToSwitch
  <2> QED
    BY <1>3, <1>6, <2>1, <2>2, <2>3
    DEF SwitchSteps, WriteGpuOff, WriteGpuOn, WriteServerSwitch
<1>7. ASSUME NEW p \in Requests, FleetSteps(p) PROVE NobodyRegisters'
  <2>1. ASSUME NEW G, NEW S, LoadToDelete(p, G, S) PROVE NobodyRegisters'
    <3>1. PICK first \in SUBSET G :
            Becomes(p, [step |-> "delete-rows", first |-> first,
                        gpus |-> [g \in G |-> gpus[g]],
                        servers |-> [s \in S |-> servers[s]]])
      BY <2>1 DEF LoadToDelete
    <3> DEFINE q == [step |-> "delete-rows", first |-> first,
                     gpus |-> [g \in G |-> gpus[g]],
                     servers |-> [s \in S |-> servers[s]]]
    <3>2. q.step = "delete-rows"
      OBVIOUS
    <3> HIDE DEF q
    <3>3. Becomes(p, q)
      BY <3>1 DEF q
    <3> QED
      BY <1>1, <3>2, <3>3
  <2>2. CASE LoadRowsToDelete(p)
    BY <1>1, <2>2 DEF LoadRowsToDelete
  <2> QED
    BY <1>3, <1>7, <2>1, <2>2
    DEF FleetSteps, WriteDelete, LoadToDeleteGpu, LoadToDeleteServer,
        WriteServer, WriteGpu, LoadToRegister, LoadToAddGpu
<1>8. ASSUME NEW p \in Requests, AccessSteps(p) PROVE NobodyRegisters'
  <2>1. ASSUME NEW u \in Users, NEW S \in SUBSET Servers, LoadAccess(p, u, S)
        PROVE  NobodyRegisters'
    BY <1>1, <2>1 DEF LoadAccess
  <2> QED
    BY <1>3, <1>8, <2>1 DEF AccessSteps, WriteAccess
<1> QED
  BY <1>2, <1>3, <1>4, <1>5, <1>6, <1>7, <1>8
  DEF RaceNext, Settings, Fail, RaceTick, raceVars

LEMMA PausedRaceStep ==
  ASSUME RaceTypeOK, NobodyRegisters, PausedOnlyWhileOff,
         [RaceNext]_raceVars
  PROVE  PausedOnlyWhileOff'
<1> USE DEF RaceTypeOK
<1>1. ASSUME NEW p \in Requests, CreateSteps(p) PROVE PausedOnlyWhileOff'
  <2>1. CASE Insert(p)
    <3>1. PICK q \in Rids :
            /\ res'[q].status = "ACTIVE"
            /\ \A r \in Rids : r # q => res'[r] = res[r]
      BY <2>1, InsertedRow
    <3>2. UNCHANGED <<servers, gpus>>
      BY <2>1 DEF Insert
    <3> QED
      BY <3>1, <3>2, PausedFollows DEF Effective, IsRow
  <2>2. CASE UNCHANGED vars
    BY <2>2, SameKeepsPaused DEF vars
  <2> QED
    BY <1>1, <2>1, <2>2 DEF CreateSteps, LoadForCreate, CheckServer, CheckCount,
                            CheckRoom, CheckGpus, Reads
<1>2. ASSUME NEW p \in Requests, CancelSteps(p) PROVE PausedOnlyWhileOff'
  <2>1. CASE WriteCancel(p)
    BY <2>1, CancelKeepsPaused DEF WriteCancel
  <2>2. CASE UNCHANGED vars
    BY <2>2, SameKeepsPaused DEF vars
  <2> QED
    BY <1>2, <2>1, <2>2
    DEF CancelSteps, LoadForCancel, LoadForUserCancel, LoadForCancelAll,
        LoadToCancel, Reads
<1>3. ASSUME NEW p \in Requests, SwitchSteps(p) PROVE PausedOnlyWhileOff'
  <2>1. CASE UNCHANGED vars
    BY <2>1, SameKeepsPaused DEF vars
  <2> QED
    BY <1>3, <2>1, SwitchGpuKeepsPaused, SwitchServerKeepsPaused
    DEF SwitchSteps, LoadGpuToSwitch, LoadServerOfGpu, LoadServerToSwitch, Reads
<1>4. ASSUME NEW p \in Requests, FleetSteps(p) PROVE PausedOnlyWhileOff'
  <2>1. CASE UNCHANGED vars
    BY <2>1, SameKeepsPaused DEF vars
  <2>2. CASE WriteDelete(p)
    BY <2>2, DeletedRows, CancelKeepsPaused DEF WriteDelete
  <2> QED
    BY <1>4, <2>1, <2>2
    DEF FleetSteps, LoadToRegister, LoadToAddGpu, LoadToDeleteGpu,
        LoadToDeleteServer, LoadToDelete, LoadRowsToDelete, WriteServer,
        WriteGpu, NobodyRegisters, Reads
<1>5. ASSUME NEW p \in Requests, AccessSteps(p) PROVE PausedOnlyWhileOff'
  <2>1. CASE WriteAccess(p)
    <3>1. HeldOn(req[p].user, req[p].old \ req[p].new) \in SUBSET Rows
      BY DEF HeldOn
    <3> QED
      BY <2>1, <3>1, CancelKeepsPaused DEF WriteAccess
  <2>2. CASE UNCHANGED vars
    BY <2>2, SameKeepsPaused DEF vars
  <2> QED
    BY <1>5, <2>1, <2>2 DEF AccessSteps, LoadAccess, Reads
<1>6. ASSUME NEW p \in Requests, Settings(p) PROVE PausedOnlyWhileOff'
  <2>1. ASSUME NEW u \in Users, DeleteUser(u) PROVE PausedOnlyWhileOff'
    <3>1. /\ UNCHANGED <<servers, gpus>>
          /\ \A r \in Rids : IsRow(r)' => IsRow(r) /\ res'[r] = res[r]
      BY <2>1 DEF DeleteUser, IsRow
    <3> QED
      BY <3>1, PausedFollows DEF Effective
  <2> QED
    BY <1>6, <2>1, SameKeepsPaused
    DEF Settings, UserSettings, SetMaxConcurrentGpus, UpdateRegulation
<1>7. ASSUME UNCHANGED <<servers, gpus, res>> PROVE PausedOnlyWhileOff'
  BY <1>7, SameKeepsPaused
<1> QED
  BY <1>1, <1>2, <1>3, <1>4, <1>5, <1>6, <1>7
  DEF RaceNext, Fail, Reads, RaceTick, Tick, raceVars, vars

(* However the switches, bookings, cancellations and deletions of any      *)
(* number of threads interleave, nobody's paused reservation is left on a  *)
(* GPU that works.                                                         *)
THEOREM NobodyStrandedByRaces ==
  ASSUME "register" \notin Kinds
  PROVE  RaceSpec => []PausedOnlyWhileOff
<1>1. RaceInit => NobodyRegisters /\ PausedOnlyWhileOff
  BY FleetInit DEF RaceInit, FleetInv, FleetCore, NobodyRegisters, At, Idle
<1>2. /\ RaceTypeOK /\ NobodyRegisters /\ PausedOnlyWhileOff
      /\ [RaceNext]_raceVars
      => NobodyRegisters' /\ PausedOnlyWhileOff'
  BY PausedRaceStep, NobodyRegistersStep
<1> QED
  BY <1>1, <1>2, RaceTyped, PTL DEF RaceSpec

-----------------------------------------------------------------------------
(***************************************************************************)
(* A booking's terms, with every kind of request.  A cancellation may find *)
(* that another thread has cancelled its rows meanwhile.                   *)
(***************************************************************************)
LEMMA CancelTwiceKeepsTerms ==
  ASSUME TypeOK, NEW S \in SUBSET Rows, res' = Cancelled(S)
  PROVE  TermsStep /\ ErasedStep
<1>1. ASSUME NEW r \in Rids, IsRow(r)
      PROVE  res'[r] # NoRow /\ KeepsItsTerms(r)
  <2>1. CASE r \in S /\ res[r].status = "CANCELLED"
    <3>1. res[r] \in Row
      BY <1>1 DEF TypeOK, IsRow
    <3>2. res'[r] = [res[r] EXCEPT !.status = "CANCELLED"]
      BY <2>1 DEF Cancelled
    <3>3. res'[r] = res[r]
      BY <2>1, <3>1, <3>2 DEF Row
    <3> QED
      BY <1>1, <3>3 DEF KeepsItsTerms, IsRow
  <2>2. CASE r \in S /\ res[r].status # "CANCELLED"
    BY <1>1, <2>2, CancelledRow DEF KeepsItsTerms, SameTerms
  <2>3. CASE r \notin S
    BY <1>1, <2>3, CancelledRow DEF KeepsItsTerms, IsRow
  <2> QED
    BY <2>1, <2>2, <2>3
<1> QED
  BY <1>1 DEF TermsStep, ErasedStep

LEMMA TermsInRaceNext ==
  RaceTypeOK /\ [RaceNext]_raceVars => TermsStep /\ ErasedStep
<1> SUFFICES ASSUME RaceTypeOK, [RaceNext]_raceVars
             PROVE  TermsStep /\ ErasedStep
  OBVIOUS
<1> USE DEF RaceTypeOK
<1>1. ASSUME UNCHANGED res PROVE TermsStep /\ ErasedStep
  BY <1>1, SameKeepsTerms
<1>2. ASSUME NEW p \in Requests, CreateSteps(p) PROVE TermsStep /\ ErasedStep
  <2>1. CASE Insert(p)
    <3>1. PICK q \in Rids : ~IsRow(q) /\ \A r \in Rids : r # q => res'[r] = res[r]
      BY <2>1, InsertedRow
    <3> QED
      BY <3>1, SameKeepsTerms
  <2> QED
    BY <1>1, <1>2, <2>1 DEF CreateSteps, LoadForCreate, CheckServer, CheckCount,
                            CheckRoom, CheckGpus, Reads, vars
<1>3. ASSUME NEW p \in Requests, CancelSteps(p) PROVE TermsStep /\ ErasedStep
  <2>1. CASE WriteCancel(p)
    BY <2>1, CancelTwiceKeepsTerms DEF WriteCancel
  <2> QED
    BY <1>1, <1>3, <2>1
    DEF CancelSteps, LoadForCancel, LoadForUserCancel, LoadForCancelAll,
        LoadToCancel, Reads, vars
<1>4. ASSUME NEW p \in Requests, SwitchSteps(p) PROVE TermsStep /\ ErasedStep
  <2>1. ASSUME NEW G, res' \in {Suspended(G), Resumed(G), res}
        PROVE  TermsStep /\ ErasedStep
    BY <2>1, SuspendKeepsTerms, ResumeKeepsTerms, SameKeepsTerms
  <2>2. CASE WriteGpuOff(p) \/ WriteGpuOn(p)
    BY <2>1, <2>2 DEF WriteGpuOff, WriteGpuOn
  <2>3. CASE WriteServerSwitch(p)
    <3> DEFINE s == req[p].server
               on == {g \in GpusOf(s) : gpus[g].active}
    <3>1. res' \in {Suspended(GpusOf(s)), Resumed(on)}
      BY <2>3 DEF WriteServerSwitch
    <3> HIDE DEF s, on
    <3> QED
      BY <2>1, <3>1
  <2> QED
    BY <1>1, <1>4, <2>2, <2>3
    DEF SwitchSteps, LoadGpuToSwitch, LoadServerOfGpu, LoadServerToSwitch,
        Reads, vars
<1>5. ASSUME NEW p \in Requests, FleetSteps(p) PROVE TermsStep /\ ErasedStep
  <2>1. CASE WriteDelete(p)
    <3> DEFINE S == req[p].rows \cup LiveOn(DOMAIN req[p].gpus \ req[p].first)
    <3>1. S \in SUBSET Rows
      BY <2>1, DeletedRows
    <3>2. res' = Cancelled(S)
      BY <2>1 DEF WriteDelete
    <3> HIDE DEF S
    <3> QED
      BY <3>1, <3>2, CancelTwiceKeepsTerms
  <2> QED
    BY <1>1, <1>5, <2>1
    DEF FleetSteps, LoadToRegister, LoadToAddGpu, LoadToDeleteGpu,
        LoadToDeleteServer, LoadToDelete, LoadRowsToDelete, WriteServer,
        WriteGpu, Reads, vars
<1>6. ASSUME NEW p \in Requests, AccessSteps(p) PROVE TermsStep /\ ErasedStep
  <2>1. CASE WriteAccess(p)
    <3>1. HeldOn(req[p].user, req[p].old \ req[p].new) \in SUBSET Rows
      BY DEF HeldOn
    <3> QED
      BY <2>1, <3>1, CancelTwiceKeepsTerms DEF WriteAccess
  <2> QED
    BY <1>1, <1>6, <2>1 DEF AccessSteps, LoadAccess, Reads, vars
<1>7. ASSUME NEW p \in Requests, Settings(p) PROVE TermsStep /\ ErasedStep
  BY <1>7, TermsInNext DEF Settings, Next, UserAdminNext
<1> QED
  BY <1>1, <1>2, <1>3, <1>4, <1>5, <1>6, <1>7
  DEF RaceNext, Fail, Reads, RaceTick, Tick, raceVars, vars

(* Cancelled is final and a window moves only when a paused row resumes,   *)
(* although a thread writes what it decided on older reads.                *)
THEOREM TermsOutliveRaces == RaceSpec => TermsAreKept
<1>1. RaceTypeOK /\ [RaceNext]_raceVars => [TermsStep]_vars
  BY TermsInRaceNext
<1> QED
  BY <1>1, RaceTyped, PTL DEF RaceSpec, TermsAreKept

(* Nor does any interleaving lose a reservation: a row disappears only     *)
(* together with all of its owner's rows.                                  *)
THEOREM HistoryOutlivesRaces == RaceSpec => HistoryIsKept
<1>1. RaceTypeOK /\ [RaceNext]_raceVars => [ErasedStep]_vars
  BY TermsInRaceNext
<1> QED
  BY <1>1, RaceTyped, PTL DEF RaceSpec, HistoryIsKept

-----------------------------------------------------------------------------
(***************************************************************************)
(* One thread.  Nobody changes a table between its steps, so what a        *)
(* request has read is still so when it writes, and the checks it has      *)
(* passed would pass again: its write step is the whole request of         *)
(* Booking.                                                                *)
(***************************************************************************)
AllUpcoming == {r \in Rows : /\ Live(r)
                             /\ res[r].start < now + reg.horizon
                             /\ res[r].end > now}
CountFits(q) == Cardinality(HeldUpcoming(q.user)) < reg.maxActive
RoomFits(q) ==
  PeakConcurrentRam(OverlappingActive(q.gpu, q.start, q.end), q.start, q.end)
    + q.ram <= gpus[q.gpu].ram
GpusFit(q) ==
  \/ q.gpu \in ConcurrentGpus(q.user, q.start, q.end)
  \/ Cardinality(ConcurrentGpus(q.user, q.start, q.end)) < gpuLimit[q.user]
WindowFits(q) ==
  /\ servers[ServerOf[q.gpu]].active
  /\ q.start < q.end
  /\ AlignedTo(reg, q.start) /\ AlignedTo(reg, q.end)
  /\ q.end - q.start <= reg.maxDuration
  /\ now <= q.start /\ q.start <= now + reg.horizon
  /\ 0 < q.ram /\ q.ram <= reg.maxRam /\ q.ram <= gpus[q.gpu].ram

CreateHolds(q) ==
  /\ ServerOf[q.gpu] \in access[q.user]
  /\ gpus[q.gpu].active
  /\ q.total = gpus[q.gpu].ram /\ q.limit = gpuLimit[q.user] /\ q.reg = reg
  /\ q.step # "create-server" => WindowFits(q)
  /\ q.step \in {"create-room", "create-gpus", "create-insert"} => CountFits(q)
  /\ q.step \in {"create-gpus", "create-insert"} => RoomFits(q)
  /\ q.step = "create-insert" => GpusFit(q)
CancelHolds(q) ==
  \/ \E r \in Rids : q.rows = {r} /\ IsRow(r) /\ res[r].status # "CANCELLED"
  \/ \E u \in Users : q.rows = HeldUpcoming(u)
  \/ q.rows = AllUpcoming
SwitchHolds(q) ==
  /\ q.step = "gpu-on" => gpus[q.gpu].present /\ ~gpus[q.gpu].active
  /\ q.step \in {"gpu-server", "gpu-off"} =>
       gpus[q.gpu].present /\ gpus[q.gpu].active
  /\ q.step = "gpu-off" => q.was = servers[ServerOf[q.gpu]].active
  /\ q.step = "server-switch" =>
       servers[q.server].present /\ servers[q.server].active # q.on
RegisterHolds(q) ==
  /\ q.step = "register-server" =>
       ~servers[q.server].present /\ q.old = servers[q.server]
  /\ q.step = "register-gpu" =>
       /\ servers[ServerOf[q.gpu]].present /\ ~gpus[q.gpu].present
       /\ q.old = gpus[q.gpu]
LoadedToDelete(q) ==
  \E G \in SUBSET Gpus, S \in SUBSET Servers :
    /\ q.gpus = [g \in G |-> gpus[g]] /\ q.servers = [s \in S |-> servers[s]]
    /\ q.first \in SUBSET G
    /\ \/ \E g \in Gpus : gpus[g].present /\ G = {g} /\ S = {}
       \/ \E s \in Servers :
            servers[s].present /\ G = PresentGpusOf(s) /\ S = {s}
DeleteHolds(q) ==
  /\ LoadedToDelete(q)
  /\ q.step = "delete" => q.rows = LiveOn(q.first)

Holds(q) ==
  /\ q.step \in CreateStepNames => CreateHolds(q)
  /\ q.step = "cancel" => CancelHolds(q)
  /\ SwitchHolds(q) /\ RegisterHolds(q)
  /\ q.step \in {"delete-rows", "delete"} => DeleteHolds(q)
  /\ q.step = "access" => q.old = access[q.user]

(* What each thread has read is what the tables say.                       *)
NothingIsStale == \A p \in Requests, q \in ReqState : req[p] = q => Holds(q)

(* While the tables stay, so does what was read of them.                   *)
LEMMA SameTables ==
  ASSUME UNCHANGED vars
  PROVE  /\ Rows' = Rows /\ AllUpcoming' = AllUpcoming
         /\ \A u \in Users : HeldUpcoming(u)' = HeldUpcoming(u)
         /\ \A G : LiveOn(G)' = LiveOn(G)
         /\ \A s \in Servers : PresentGpusOf(s)' = PresentGpusOf(s)
  BY DEF vars, Rows, IsRow, AllUpcoming, HeldUpcoming, LiveOn, Live,
         PresentGpusOf, GpusOf

LEMMA SameRoom ==
  ASSUME UNCHANGED vars, NEW q
  PROVE  RoomFits(q)' <=> RoomFits(q)
  BY DEF vars, RoomFits, OverlappingActive, ActiveRowsOf, Rows, IsRow

LEMMA SameGpus ==
  ASSUME UNCHANGED vars, NEW q
  PROVE  GpusFit(q)' <=> GpusFit(q)
  BY DEF vars, GpusFit, ConcurrentGpus, Rows, IsRow, Live

LEMMA SameCount ==
  ASSUME UNCHANGED vars, NEW q
  PROVE  CountFits(q)' <=> CountFits(q)
  BY DEF vars, CountFits, HeldUpcoming, Rows, IsRow, Live

LEMMA HoldsStays ==
  ASSUME UNCHANGED vars, NEW q
  PROVE  Holds(q)' <=> Holds(q)
<1>1. CreateHolds(q)' <=> CreateHolds(q)
  BY SameRoom, SameGpus, SameCount DEF CreateHolds, WindowFits, vars, AlignedTo
<1>2. CancelHolds(q)' <=> CancelHolds(q)
  BY SameTables DEF CancelHolds, vars, IsRow
<1>3. DeleteHolds(q)' <=> DeleteHolds(q)
  BY DEF DeleteHolds, LoadedToDelete, vars, PresentGpusOf, GpusOf, LiveOn, Rows,
         IsRow, Live
<1> QED
  BY <1>1, <1>2, <1>3 DEF Holds, SwitchHolds, RegisterHolds, vars

(* A thread that is alone with its request.                                *)
OthersIdle(p) == \A o \in Requests : o # p => req[o] = Idle

LEMMA IdleHolds == Holds(Idle)'
  BY DEF Holds, Idle, CreateStepNames, SwitchHolds, RegisterHolds

LEMMA ReadHolds ==
  ASSUME NEW p \in Requests, OthersIdle(p), RaceTypeOK, NEW q \in ReqState,
         Becomes(p, q), Reads, Holds(q)
  PROVE  NothingIsStale' /\ UNCHANGED vars
<1>1. /\ req'[p] = q /\ UNCHANGED vars
      /\ \A o \in Requests : o # p => req'[o] = Idle
  BY BecomesType DEF Reads, OthersIdle
<1>2. Holds(q)'
  BY <1>1, HoldsStays
<1> QED
  BY <1>1, <1>2, IdleHolds DEF NothingIsStale

LEMMA DoneHolds ==
  ASSUME NEW p \in Requests, OthersIdle(p), RaceTypeOK, Becomes(p, Idle)
  PROVE  NothingIsStale'
<1>1. \A o \in Requests : req'[o] = Idle
  BY BecomesType, IdleState DEF OthersIdle
<1> QED
  BY <1>1, IdleHolds DEF NothingIsStale

LEMMA CreateIsAtomic ==
  ASSUME NEW p \in Requests, OthersIdle(p), RaceTypeOK, NothingIsStale,
         CreateSteps(p)
  PROVE  NothingIsStale' /\ [Next]_vars
<1>1. p \in Requests
  OBVIOUS
<1>2. ASSUME NEW u \in Users, NEW g \in Gpus, NEW start \in 0..MaxTime,
             NEW end \in 0..MaxTime, NEW ram \in Rams,
             LoadForCreate(p, u, g, start, end, ram)
      PROVE  NothingIsStale' /\ UNCHANGED vars
  <2> DEFINE q == [step |-> "create-server", user |-> u, gpu |-> g,
                   start |-> start, end |-> end, ram |-> ram,
                   total |-> gpus[g].ram, limit |-> gpuLimit[u], reg |-> reg]
  <2>1. /\ Becomes(p, q) /\ Reads
        /\ ServerOf[g] \in access[u] /\ gpus[g].active
    BY <1>2 DEF LoadForCreate
  <2>2. gpus[g].ram \in Int /\ gpuLimit[u] \in Nat /\ reg \in Regulations
    BY DEF RaceTypeOK, TypeOK
  <2>3. q \in Creating
    BY <2>2 DEF Creating, CreateStepNames
  <2>4. /\ q.step = "create-server" /\ q.user = u /\ q.gpu = g /\ q.reg = reg
        /\ q.total = gpus[g].ram /\ q.limit = gpuLimit[u]
    OBVIOUS
  <2> HIDE DEF q
  <2>5. Holds(q)
    BY <2>1, <2>4 DEF Holds, CreateHolds, SwitchHolds, RegisterHolds
  <2>6. q \in ReqState
    BY <2>3 DEF ReqState
  <2> QED
    BY <2>1, <2>5, <2>6, ReadHolds
<1> DEFINE q == req[p]
           To(s) == [q EXCEPT !.step = s]
<1>3. ASSUME q.step \in CreateStepNames
      PROVE  q \in Creating /\ CreateHolds(q)
  <2>1. q \in Creating /\ q \in ReqState
    BY <1>1, <1>3, StateAt DEF RaceTypeOK
  <2> HIDE DEF q
  <2>2. Holds(q)
    BY <1>1, <2>1 DEF NothingIsStale, q
  <2> QED
    BY <1>3, <2>1, <2>2 DEF Holds
<1>4. ASSUME NEW s \in CreateStepNames, q \in Creating, q.start < q.end,
             Becomes(p, To(s)), Reads, CreateHolds(To(s))
      PROVE  NothingIsStale' /\ UNCHANGED vars
  <2>1. To(s) \in Creating /\ To(s).step = s
    <3> HIDE DEF q
    <3> QED
      BY <1>4 DEF Creating
  <2>2. To(s) \in ReqState
    BY <2>1 DEF ReqState
  <2> HIDE DEF q, To
  <2>3. Holds(To(s))
    BY <1>4, <2>1 DEF Holds, SwitchHolds, RegisterHolds, CreateStepNames
  <2> QED
    BY <1>4, <2>2, <2>3, ReadHolds
<1>5. ASSUME NEW s \in CreateStepNames, q \in Creating
      PROVE  /\ To(s).step = s /\ To(s).user = q.user /\ To(s).gpu = q.gpu
             /\ To(s).start = q.start /\ To(s).end = q.end
             /\ To(s).ram = q.ram /\ To(s).total = q.total
             /\ To(s).limit = q.limit /\ To(s).reg = q.reg
  <2> HIDE DEF q
  <2> QED
    BY <1>5 DEF Creating
<1> HIDE DEF To
<1>6. CASE CheckServer(p)
  <2>1. /\ q.step = "create-server" /\ Becomes(p, To("create-count")) /\ Reads
        /\ q.start < q.end
    BY <1>6 DEF CheckServer, At, To
  <2>2. q \in Creating /\ CreateHolds(q)
    BY <1>3, <2>1 DEF CreateStepNames
  <2>3. WindowFits(q)
    BY <1>6, <2>2 DEF CheckServer, WindowFits, CreateHolds, AlignedTo
  <2>4. CreateHolds(To("create-count"))
    BY <1>5, <2>2, <2>3 DEF CreateHolds, WindowFits, CreateStepNames
  <2> QED
    BY <1>4, <2>1, <2>2, <2>4 DEF CreateStepNames
<1>7. CASE CheckCount(p)
  <2>1. /\ q.step = "create-count" /\ Becomes(p, To("create-room")) /\ Reads
        /\ CountFits(q) \/ q.reg # reg
    BY <1>7 DEF CheckCount, At, To, CountFits
  <2>2. q \in Creating /\ CreateHolds(q) /\ q.start < q.end
    BY <1>3, <2>1 DEF CreateStepNames, Creating
  <2>3. CreateHolds(To("create-room"))
    BY <1>5, <2>1, <2>2 DEF CreateHolds, WindowFits, CountFits, CreateStepNames
  <2> QED
    BY <1>4, <2>1, <2>2, <2>3 DEF CreateStepNames
<1>8. CASE CheckRoom(p)
  <2>1. /\ q.step = "create-room" /\ Becomes(p, To("create-gpus")) /\ Reads
    BY <1>8 DEF CheckRoom, At, To
  <2>2. q \in Creating /\ CreateHolds(q) /\ q.start < q.end
    BY <1>3, <2>1 DEF CreateStepNames, Creating
  <2>3. RoomFits(q)
    BY <1>8, <2>2 DEF CheckRoom, RoomFits, CreateHolds
  <2>4. CreateHolds(To("create-gpus"))
    BY <1>5, <2>1, <2>2, <2>3
    DEF CreateHolds, WindowFits, CountFits, RoomFits, CreateStepNames
  <2> QED
    BY <1>4, <2>1, <2>2, <2>4 DEF CreateStepNames
<1>9. CASE CheckGpus(p)
  <2>1. /\ q.step = "create-gpus" /\ Becomes(p, To("create-insert")) /\ Reads
    BY <1>9 DEF CheckGpus, At, To
  <2>2. q \in Creating /\ CreateHolds(q) /\ q.start < q.end
    BY <1>3, <2>1 DEF CreateStepNames, Creating
  <2>3. GpusFit(q)
    BY <1>9, <2>2 DEF CheckGpus, GpusFit, CreateHolds
  <2>4. CreateHolds(To("create-insert"))
    BY <1>5, <2>1, <2>2, <2>3
    DEF CreateHolds, WindowFits, CountFits, RoomFits, GpusFit, CreateStepNames
  <2> QED
    BY <1>4, <2>1, <2>2, <2>4 DEF CreateStepNames
<1>10. CASE Insert(p)
  <2>1. q.step = "create-insert" /\ Becomes(p, Idle)
    BY <1>10 DEF Insert, At
  <2>2. q \in Creating /\ CreateHolds(q)
    BY <1>3, <2>1 DEF CreateStepNames
  <2>3. /\ q.user \in Users /\ q.gpu \in Gpus /\ q.ram \in Rams
        /\ q.start \in 0..MaxTime /\ q.end \in 0..MaxTime
    BY <2>2 DEF Creating
  <2>4. CanBook(q.user, q.gpu, q.start, q.end, q.ram)
    BY <2>1, <2>2 DEF CreateHolds, WindowFits, CountFits, RoomFits, GpusFit,
                      CanBook, CanBookUnder, Effective
  <2>5. CreateReservation(q.user, q.gpu, q.start, q.end, q.ram)
    BY <1>10, <2>2, <2>4 DEF CreateReservation, Insert, CreateHolds
  <2> QED
    BY <2>1, <2>3, <2>5, DoneHolds DEF Next, StudentNext
<1> QED
  BY <1>2, <1>6, <1>7, <1>8, <1>9, <1>10 DEF CreateSteps

LEMMA CancelIsAtomic ==
  ASSUME NEW p \in Requests, OthersIdle(p), RaceTypeOK, NothingIsStale,
         CancelSteps(p)
  PROVE  NothingIsStale' /\ [Next]_vars
<1>1. p \in Requests
  OBVIOUS
<1>2. ASSUME NEW S \in SUBSET Rids, LoadToCancel(p, S),
             \/ \E r \in Rids : S = {r} /\ IsRow(r) /\ res[r].status # "CANCELLED"
             \/ \E u \in Users : S = HeldUpcoming(u)
             \/ S = AllUpcoming
      PROVE  NothingIsStale' /\ UNCHANGED vars
  <2> DEFINE q == [step |-> "cancel", rows |-> S]
  <2>1. Becomes(p, q) /\ Reads /\ q \in ReqState
    BY <1>2 DEF LoadToCancel, ReqState, Cancelling
  <2>2. q.step = "cancel" /\ q.rows = S
    OBVIOUS
  <2> HIDE DEF q
  <2>3. Holds(q)
    BY <1>2, <2>2 DEF Holds, CancelHolds, SwitchHolds, RegisterHolds,
                      CreateStepNames
  <2> QED
    BY <2>1, <2>3, ReadHolds
<1>3. ASSUME NEW r \in Rids, LoadForCancel(p, r)
      PROVE  NothingIsStale' /\ UNCHANGED vars
  BY <1>2, <1>3 DEF LoadForCancel
<1>4. ASSUME NEW u \in Users, LoadForUserCancel(p, u)
      PROVE  NothingIsStale' /\ UNCHANGED vars
  <2>1. HeldUpcoming(u) \in SUBSET Rids
    BY DEF HeldUpcoming, Rows
  <2> QED
    BY <1>2, <1>4, <2>1 DEF LoadForUserCancel
<1>5. ASSUME LoadForCancelAll(p) PROVE NothingIsStale' /\ UNCHANGED vars
  <2>1. AllUpcoming \in SUBSET Rids
    BY DEF AllUpcoming, Rows
  <2> QED
    BY <1>2, <1>5, <2>1 DEF LoadForCancelAll, AllUpcoming
<1>6. CASE WriteCancel(p)
  <2> DEFINE q == req[p]
  <2>1. /\ q.step = "cancel" /\ res' = Cancelled(q.rows) /\ Becomes(p, Idle)
        /\ UNCHANGED <<now, servers, gpus, access, gpuLimit, reg>>
    BY <1>6 DEF WriteCancel, At
  <2>2. q \in ReqState
    BY <1>1 DEF RaceTypeOK
  <2> HIDE DEF q
  <2>3. CancelHolds(q)
    BY <1>1, <2>1, <2>2 DEF NothingIsStale, Holds, q
  <2>4. ASSUME NEW r \in Rids, q.rows = {r}, IsRow(r),
               res[r].status # "CANCELLED"
        PROVE  Next
    BY <2>1, <2>4 DEF Next, StudentNext, CancelReservation
  <2>5. ASSUME NEW u \in Users, q.rows = HeldUpcoming(u)
        PROVE  Next
    BY <2>1, <2>5 DEF Next, ReservationAdminNext, CancelForUser
  <2>6. ASSUME q.rows = AllUpcoming PROVE Next
    BY <2>1, <2>6 DEF Next, ReservationAdminNext, CancelAll, AllUpcoming
  <2>7. NothingIsStale'
    BY <2>1, DoneHolds
  <2> QED
    BY <2>3, <2>4, <2>5, <2>6, <2>7 DEF CancelHolds
<1> QED
  BY <1>3, <1>4, <1>5, <1>6 DEF CancelSteps

(* A write step on what is still so is a request of Booking.               *)
LEMMA SwitchWrites ==
  ASSUME RaceTypeOK, NEW p \in Requests, SwitchHolds(req[p]),
         WriteGpuOff(p) \/ WriteGpuOn(p) \/ WriteServerSwitch(p)
  PROVE  Next
<1> DEFINE q == req[p]
<1>1. CASE WriteGpuOff(p)
  <2> DEFINE g == q.gpu
  <2>1. /\ q.step = "gpu-off"
        /\ gpus' = [gpus EXCEPT ![g].active = FALSE]
        /\ res' = IF q.was THEN Suspended({g}) ELSE res
        /\ UNCHANGED <<now, servers, access, gpuLimit, reg>>
    BY <1>1 DEF WriteGpuOff, At
  <2>2. g \in Gpus /\ q.was \in BOOLEAN
    BY <2>1, StateAt DEF SwitchingGpuOff, At
  <2>3. /\ gpus[g].present /\ gpus[g].active
        /\ q.was = servers[ServerOf[g]].active
    BY <2>1 DEF SwitchHolds
  <2>4. SetGpuActive(g, FALSE)
    BY <2>1, <2>2, <2>3 DEF SetGpuActive, Effective
  <2> QED
    BY <2>2, <2>4 DEF Next, FleetNext
<1>2. CASE WriteGpuOn(p)
  <2> DEFINE g == q.gpu
  <2>1. /\ q.step = "gpu-on"
        /\ gpus' = [gpus EXCEPT ![g].active = TRUE]
        /\ res' = IF servers[ServerOf[g]].active THEN Resumed({g}) ELSE res
        /\ UNCHANGED <<now, servers, access, gpuLimit, reg>>
    BY <1>2 DEF WriteGpuOn, At
  <2>2. g \in Gpus
    BY <2>1, StateAt DEF SwitchingGpu, At
  <2>3. gpus[g].present /\ ~gpus[g].active
    BY <2>1 DEF SwitchHolds
  <2>4. SetGpuActive(g, TRUE)
    BY <2>1, <2>2, <2>3 DEF SetGpuActive, Effective
  <2> QED
    BY <2>2, <2>4 DEF Next, FleetNext
<1>3. CASE WriteServerSwitch(p)
  <2> DEFINE s == q.server
  <2>1. /\ q.step = "server-switch"
        /\ servers' = [servers EXCEPT ![s].active = q.on]
        /\ res' = IF q.on THEN Resumed({g \in GpusOf(s) : gpus[g].active})
                  ELSE Suspended(GpusOf(s))
        /\ UNCHANGED <<now, gpus, access, gpuLimit, reg>>
    BY <1>3 DEF WriteServerSwitch, At
  <2>2. s \in Servers /\ q.on \in BOOLEAN
    BY <2>1, StateAt DEF SwitchingServer, At
  <2>3. servers[s].present /\ servers[s].active # q.on
    BY <2>1 DEF SwitchHolds
  <2>4. servers[s].active \in BOOLEAN
    <3> HIDE DEF q
    <3> QED
      BY <2>2 DEF RaceTypeOK, TypeOK
  <2>5. SetServerActive(s, q.on)
    BY <2>1, <2>2, <2>3, <2>4 DEF SetServerActive
  <2> QED
    BY <2>2, <2>5 DEF Next, FleetNext
<1> QED
  BY <1>1, <1>2, <1>3

LEMMA SwitchIsAtomic ==
  ASSUME NEW p \in Requests, OthersIdle(p), RaceTypeOK, NothingIsStale,
         SwitchSteps(p)
  PROVE  NothingIsStale' /\ [Next]_vars
<1>1. p \in Requests
  OBVIOUS
<1>2. ASSUME NEW g \in Gpus, NEW on \in BOOLEAN, LoadGpuToSwitch(p, g, on)
      PROVE  NothingIsStale' /\ UNCHANGED vars
  <2> DEFINE q == [step |-> IF on THEN "gpu-on" ELSE "gpu-server", gpu |-> g]
  <2>1. Becomes(p, q) /\ Reads /\ gpus[g].present /\ gpus[g].active # on
    BY <1>2 DEF LoadGpuToSwitch
  <2>2. q \in ReqState
    BY DEF ReqState, SwitchingGpu
  <2>3. q.step = (IF on THEN "gpu-on" ELSE "gpu-server") /\ q.gpu = g
    OBVIOUS
  <2>4. gpus[g].active \in BOOLEAN
    BY DEF RaceTypeOK, TypeOK
  <2> HIDE DEF q
  <2>5. Holds(q)
    <3>1. CASE on
      BY <2>1, <2>3, <2>4, <3>1 DEF Holds, SwitchHolds, RegisterHolds,
                                    CreateStepNames
    <3>2. CASE ~on
      BY <2>1, <2>3, <2>4, <3>2 DEF Holds, SwitchHolds, RegisterHolds,
                                    CreateStepNames
    <3> QED
      BY <3>1, <3>2
  <2> QED
    BY <2>1, <2>2, <2>5, ReadHolds
<1>3. ASSUME NEW s \in Servers, NEW on \in BOOLEAN, LoadServerToSwitch(p, s, on)
      PROVE  NothingIsStale' /\ UNCHANGED vars
  <2> DEFINE q == [step |-> "server-switch", server |-> s, on |-> on]
  <2>1. Becomes(p, q) /\ Reads /\ servers[s].present /\ servers[s].active # on
    BY <1>3 DEF LoadServerToSwitch
  <2>2. q \in ReqState
    BY DEF ReqState, SwitchingServer
  <2>3. q.step = "server-switch" /\ q.server = s /\ q.on = on
    OBVIOUS
  <2> HIDE DEF q
  <2>4. Holds(q)
    BY <2>1, <2>3 DEF Holds, SwitchHolds, RegisterHolds, CreateStepNames
  <2> QED
    BY <2>1, <2>2, <2>4, ReadHolds
<1> DEFINE q == req[p]
<1>4. q \in ReqState /\ Holds(q)
  <2>1. q \in ReqState
    BY <1>1 DEF RaceTypeOK
  <2> HIDE DEF q
  <2> QED
    BY <1>1, <2>1 DEF NothingIsStale, q
<1>5. ASSUME Becomes(p, Idle) PROVE NothingIsStale'
  BY <1>5, DoneHolds
<1>6. ASSUME LoadServerOfGpu(p) PROVE NothingIsStale' /\ UNCHANGED vars
  <2> DEFINE was == servers[ServerOf[q.gpu]].active
             n == [step |-> "gpu-off", gpu |-> q.gpu, was |-> was]
  <2>1. Becomes(p, n) /\ Reads /\ q.step = "gpu-server"
    BY <1>6 DEF LoadServerOfGpu, At
  <2>2. q.gpu \in Gpus
    BY <1>1, <2>1, StateAt DEF SwitchingGpu, At
  <2>3. was \in BOOLEAN
    BY <2>2, ServerOfAssumption DEF RaceTypeOK, TypeOK
  <2>4. n \in ReqState
    <3> HIDE DEF was, q
    <3> QED
      BY <2>2, <2>3 DEF ReqState, SwitchingGpuOff
  <2>5. n.step = "gpu-off" /\ n.gpu = q.gpu /\ n.was = was
    OBVIOUS
  <2>6. gpus[q.gpu].present /\ gpus[q.gpu].active
    BY <1>4, <2>1 DEF Holds, SwitchHolds
  <2> HIDE DEF n
  <2>7. Holds(n)
    BY <2>5, <2>6 DEF Holds, SwitchHolds, RegisterHolds, CreateStepNames
  <2> QED
    BY <2>1, <2>4, <2>7, ReadHolds
<1>7. ASSUME WriteGpuOff(p) \/ WriteGpuOn(p) \/ WriteServerSwitch(p)
      PROVE  NothingIsStale' /\ [Next]_vars
  <2>1. SwitchHolds(q) /\ Becomes(p, Idle)
    BY <1>4, <1>7 DEF Holds, WriteGpuOff, WriteGpuOn, WriteServerSwitch
  <2> QED
    BY <1>5, <1>7, <2>1, SwitchWrites
<1> QED
  BY <1>2, <1>3, <1>6, <1>7 DEF SwitchSteps

LEMMA RegisterWrites ==
  ASSUME RaceTypeOK, NEW p \in Requests, RegisterHolds(req[p]),
         WriteServer(p) \/ WriteGpu(p)
  PROVE  Next
<1> DEFINE q == req[p]
<1>1. CASE WriteServer(p)
  <2> DEFINE s == q.server
             new == [present |-> TRUE, active |-> TRUE]
             saved == Saved(servers[s], q.old, new)
  <2>1. /\ q.step = "register-server"
        /\ servers' = [servers EXCEPT ![s] = saved]
        /\ UNCHANGED <<now, gpus, res, access, gpuLimit, reg>>
    BY <1>1 DEF WriteServer, At
  <2>2. s \in Servers
    BY <2>1, StateAt DEF RegisteringServer, At
  <2>3. ~servers[s].present /\ q.old = servers[s]
    BY <2>1 DEF RegisterHolds
  <2>4. servers[s] \in ServerRow /\ new \in ServerRow
    BY <2>2 DEF RaceTypeOK, TypeOK, ServerRow
  <2>5. saved = new
    <3> HIDE DEF q, s, new
    <3> QED
      BY <2>3, <2>4, SavedOverItself
  <2>6. CreateServer(s)
    BY <2>1, <2>3, <2>5 DEF CreateServer
  <2> QED
    BY <2>2, <2>6 DEF Next, FleetNext
<1>2. CASE WriteGpu(p)
  <2> DEFINE g == q.gpu
             new == [present |-> TRUE, active |-> TRUE, ram |-> q.ram]
             saved == Saved(gpus[g], q.old, new)
  <2>1. /\ q.step = "register-gpu"
        /\ gpus' = [gpus EXCEPT ![g] = saved]
        /\ UNCHANGED <<now, servers, res, access, gpuLimit, reg>>
    BY <1>2 DEF WriteGpu, At
  <2>2. g \in Gpus /\ q.ram \in GpuRams
    BY <2>1, StateAt DEF RegisteringGpu, At
  <2>3. /\ ~gpus[g].present /\ q.old = gpus[g]
        /\ servers[ServerOf[g]].present
    BY <2>1 DEF RegisterHolds
  <2> HIDE DEF q
  <2>4. gpus[g] \in GpuRow /\ new \in GpuRow
    BY <2>2, GpuRamsAreInts DEF RaceTypeOK, TypeOK, GpuRow
  <2>5. saved = new
    <3> HIDE DEF g, new
    <3> QED
      BY <2>3, <2>4, SavedOverItself
  <2>6. AddGpu(g, q.ram)
    BY <2>1, <2>3, <2>5 DEF AddGpu
  <2> QED
    BY <2>2, <2>6 DEF Next, FleetNext
<1> QED
  BY <1>1, <1>2

LEMMA RegisterIsAtomic ==
  ASSUME NEW p \in Requests, OthersIdle(p), RaceTypeOK, NothingIsStale,
         \/ \E s \in Servers : LoadToRegister(p, s)
         \/ \E g \in Gpus, m \in GpuRams : LoadToAddGpu(p, g, m)
         \/ WriteServer(p) \/ WriteGpu(p)
  PROVE  NothingIsStale' /\ [Next]_vars
<1>1. p \in Requests
  OBVIOUS
<1>2. ASSUME NEW s \in Servers, LoadToRegister(p, s)
      PROVE  NothingIsStale' /\ UNCHANGED vars
  <2> DEFINE q == [step |-> "register-server", server |-> s, old |-> servers[s]]
  <2>1. Becomes(p, q) /\ Reads /\ ~servers[s].present
    BY <1>2 DEF LoadToRegister
  <2>2. q \in ReqState
    BY DEF ReqState, RegisteringServer, ServerRow, RaceTypeOK, TypeOK
  <2>3. q.step = "register-server" /\ q.server = s /\ q.old = servers[s]
    OBVIOUS
  <2> HIDE DEF q
  <2>4. Holds(q)
    BY <2>1, <2>3 DEF Holds, SwitchHolds, RegisterHolds, CreateStepNames
  <2> QED
    BY <2>1, <2>2, <2>4, ReadHolds
<1>3. ASSUME NEW g \in Gpus, NEW m \in GpuRams, LoadToAddGpu(p, g, m)
      PROVE  NothingIsStale' /\ UNCHANGED vars
  <2> DEFINE q == [step |-> "register-gpu", gpu |-> g, ram |-> m,
                   old |-> gpus[g]]
  <2>1. /\ Becomes(p, q) /\ Reads
        /\ servers[ServerOf[g]].present /\ ~gpus[g].present
    BY <1>3 DEF LoadToAddGpu
  <2>2. q \in ReqState
    BY DEF ReqState, RegisteringGpu, GpuRow, RaceTypeOK, TypeOK
  <2>3. q.step = "register-gpu" /\ q.gpu = g /\ q.old = gpus[g]
    OBVIOUS
  <2> HIDE DEF q
  <2>4. Holds(q)
    BY <2>1, <2>3 DEF Holds, SwitchHolds, RegisterHolds, CreateStepNames
  <2> QED
    BY <2>1, <2>2, <2>4, ReadHolds
<1> DEFINE q == req[p]
<1>4. q \in ReqState /\ Holds(q)
  <2>1. q \in ReqState
    BY <1>1 DEF RaceTypeOK
  <2> HIDE DEF q
  <2> QED
    BY <1>1, <2>1 DEF NothingIsStale, q
<1>5. ASSUME Becomes(p, Idle) PROVE NothingIsStale'
  BY <1>5, DoneHolds
<1>6. ASSUME WriteServer(p) \/ WriteGpu(p)
      PROVE  NothingIsStale' /\ [Next]_vars
  <2>1. RegisterHolds(q) /\ Becomes(p, Idle)
    BY <1>4, <1>6 DEF Holds, WriteServer, WriteGpu
  <2> QED
    BY <1>5, <1>6, <2>1, RegisterWrites
<1> QED
  BY <1>2, <1>3, <1>6

(* A deletion that finds the GPUs and the server it has read.              *)
DeletesAll(q, G) ==
  /\ res' = Cancelled(q.rows \cup LiveOn(G \ q.first)) /\ q.first \in SUBSET G
  /\ gpus' = [g \in Gpus |->
                IF g \in G THEN [gpus[g] EXCEPT !.present = FALSE,
                                                !.active = FALSE]
                ELSE gpus[g]]
  /\ \/ /\ \E g \in Gpus : gpus[g].present /\ G = {g}
        /\ UNCHANGED <<servers, access>>
     \/ \E s \in Servers :
          /\ servers[s].present /\ G = PresentGpusOf(s)
          /\ servers' = [servers EXCEPT ![s] = [present |-> FALSE,
                                               active |-> FALSE]]
          /\ access' = [u \in Users |-> access[u] \ {s}]
  /\ UNCHANGED <<now, gpuLimit, reg>>

LEMMA DeleteWrites ==
  ASSUME RaceTypeOK, NEW p \in Requests, LoadedToDelete(req[p]), WriteDelete(p)
  PROVE  \E G \in SUBSET Gpus : DeletesAll(req[p], G)
<1> DEFINE q == req[p]
           goneGpu(g) == Saved(gpus[g], q.gpus[g],
                               [q.gpus[g] EXCEPT !.present = FALSE,
                                                 !.active = FALSE])
           goneServer(s) == Saved(servers[s], q.servers[s],
                                  [q.servers[s] EXCEPT !.present = FALSE,
                                                       !.active = FALSE])
<1>1. /\ res' = Cancelled(q.rows \cup LiveOn(DOMAIN q.gpus \ q.first))
      /\ gpus' = [g \in Gpus |-> IF g \in DOMAIN q.gpus THEN goneGpu(g)
                                 ELSE gpus[g]]
      /\ servers' = [s \in Servers |->
                       IF s \in DOMAIN q.servers THEN goneServer(s)
                       ELSE servers[s]]
      /\ access' = [u \in Users |-> access[u] \ DOMAIN q.servers]
      /\ UNCHANGED <<now, gpuLimit, reg>>
  BY DEF WriteDelete
<1>2. /\ gpus \in [Gpus -> GpuRow] /\ servers \in [Servers -> ServerRow]
  BY DEF RaceTypeOK, TypeOK, GpuRow, ServerRow
<1>3. PICK G \in SUBSET Gpus, S \in SUBSET Servers :
        /\ q.gpus = [g \in G |-> gpus[g]]
        /\ q.servers = [s \in S |-> servers[s]]
        /\ q.first \in SUBSET G
        /\ \/ \E g \in Gpus : gpus[g].present /\ G = {g} /\ S = {}
           \/ \E s \in Servers :
                servers[s].present /\ G = PresentGpusOf(s) /\ S = {s}
  BY DEF LoadedToDelete
<1> HIDE DEF q
<1>4. DOMAIN q.gpus = G /\ DOMAIN q.servers = S
  BY <1>3
<1>5. ASSUME NEW g \in G
      PROVE  goneGpu(g) = [gpus[g] EXCEPT !.present = FALSE, !.active = FALSE]
  <2> DEFINE old == gpus[g]
             new == [old EXCEPT !.present = FALSE, !.active = FALSE]
  <2>1. old \in GpuRow /\ q.gpus[g] = old
    BY <1>2, <1>3
  <2> HIDE DEF old
  <2>2. new \in GpuRow
    BY <2>1 DEF GpuRow
  <2> HIDE DEF new
  <2>3. Saved(old, old, new) = new
    BY <2>1, <2>2, SavedOverItself
  <2> QED
    BY <2>1, <2>3 DEF new, old
<1>6. ASSUME NEW s \in S
      PROVE  goneServer(s) = [present |-> FALSE, active |-> FALSE]
  <2> DEFINE old == servers[s]
             new == [old EXCEPT !.present = FALSE, !.active = FALSE]
  <2>1. old \in ServerRow /\ q.servers[s] = old
    BY <1>2, <1>3
  <2> HIDE DEF old
  <2>2. /\ new \in ServerRow
        /\ new.present = FALSE /\ new.active = FALSE
    BY <2>1 DEF ServerRow
  <2> HIDE DEF new
  <2>3. new = [present |-> FALSE, active |-> FALSE]
    BY <2>2 DEF ServerRow
  <2>4. Saved(old, old, new) = new
    BY <2>1, <2>2, SavedOverItself
  <2> QED
    BY <2>1, <2>3, <2>4 DEF new, old
<1>7. gpus' = [g \in Gpus |->
                 IF g \in G THEN [gpus[g] EXCEPT !.present = FALSE,
                                                 !.active = FALSE]
                 ELSE gpus[g]]
  <2> HIDE DEF goneGpu
  <2> QED
    BY <1>1, <1>4, <1>5
<1>8. /\ \A s \in Servers :
           servers'[s] = IF s \in S THEN [present |-> FALSE, active |-> FALSE]
                         ELSE servers[s]
      /\ servers' \in [Servers -> ServerRow]
  <2> HIDE DEF goneServer
  <2>1. \A s \in Servers :
          servers'[s] = IF s \in S THEN [present |-> FALSE, active |-> FALSE]
                        ELSE servers[s]
    BY <1>1, <1>4, <1>6
  <2> QED
    BY <2>1, DeletedRows
<1> HIDE DEF goneGpu, goneServer
<1>9. ASSUME NEW g \in Gpus, gpus[g].present, G = {g}, S = {}
      PROVE  UNCHANGED <<servers, access>>
  <2>1. servers' = servers
    BY <1>2, <1>8, <1>9
  <2>2. access' = access
    BY <1>1, <1>4, <1>9 DEF RaceTypeOK, TypeOK
  <2> QED
    BY <2>1, <2>2
<1>10. ASSUME NEW s \in Servers, servers[s].present, S = {s}
       PROVE  /\ servers' = [servers EXCEPT ![s] = [present |-> FALSE,
                                                   active |-> FALSE]]
              /\ access' = [u \in Users |-> access[u] \ {s}]
  <2>1. servers' = [servers EXCEPT ![s] = [present |-> FALSE, active |-> FALSE]]
    BY <1>2, <1>8, <1>10
  <2>2. access' = [u \in Users |-> access[u] \ {s}]
    BY <1>1, <1>4, <1>10
  <2> QED
    BY <2>1, <2>2
<1>11. DeletesAll(q, G)
  BY <1>1, <1>3, <1>4, <1>7, <1>9, <1>10 DEF DeletesAll
<1> QED
  BY <1>11 DEF q

LEMMA DeleteIsAtomic ==
  ASSUME NEW p \in Requests, OthersIdle(p), RaceTypeOK, NothingIsStale,
         \/ \E g \in Gpus : LoadToDeleteGpu(p, g)
         \/ \E s \in Servers : LoadToDeleteServer(p, s)
         \/ LoadRowsToDelete(p) \/ WriteDelete(p)
  PROVE  NothingIsStale' /\ [Next]_vars
<1>1. p \in Requests
  OBVIOUS
<1>2. /\ gpus \in [Gpus -> GpuRow] /\ servers \in [Servers -> ServerRow]
  BY DEF RaceTypeOK, TypeOK, GpuRow, ServerRow
<1>3. ASSUME NEW G \in SUBSET Gpus, NEW S \in SUBSET Servers,
             LoadToDelete(p, G, S),
             \/ \E g \in Gpus : gpus[g].present /\ G = {g} /\ S = {}
             \/ \E s \in Servers :
                  servers[s].present /\ G = PresentGpusOf(s) /\ S = {s}
      PROVE  NothingIsStale' /\ UNCHANGED vars
  <2>1. PICK first \in SUBSET G :
          Becomes(p, [step |-> "delete-rows", first |-> first,
                      gpus |-> [g \in G |-> gpus[g]],
                      servers |-> [s \in S |-> servers[s]]])
    BY <1>3 DEF LoadToDelete
  <2> DEFINE q == [step |-> "delete-rows", first |-> first,
                   gpus |-> [g \in G |-> gpus[g]],
                   servers |-> [s \in S |-> servers[s]]]
  <2>2. /\ [g \in G |-> gpus[g]] \in SomeGpuRows
        /\ [s \in S |-> servers[s]] \in SomeServerRows
    BY <1>2, LoadedRows
  <2>3. q \in ReqState
    BY <2>2 DEF ReqState, ToDelete
  <2>4. /\ q.step = "delete-rows" /\ q.first = first
        /\ q.gpus = [g \in G |-> gpus[g]]
        /\ q.servers = [s \in S |-> servers[s]]
    OBVIOUS
  <2> HIDE DEF q
  <2>5. DeleteHolds(q)
    BY <1>3, <2>4 DEF DeleteHolds, LoadedToDelete
  <2>6. Holds(q)
    BY <2>4, <2>5 DEF Holds, SwitchHolds, RegisterHolds, CreateStepNames
  <2>7. Becomes(p, q) /\ Reads
    BY <1>3, <2>1 DEF LoadToDelete, q
  <2> QED
    BY <2>3, <2>6, <2>7, ReadHolds
<1>4. ASSUME NEW g \in Gpus, LoadToDeleteGpu(p, g)
      PROVE  NothingIsStale' /\ UNCHANGED vars
  BY <1>3, <1>4 DEF LoadToDeleteGpu
<1>5. ASSUME NEW s \in Servers, LoadToDeleteServer(p, s)
      PROVE  NothingIsStale' /\ UNCHANGED vars
  <2>1. PresentGpusOf(s) \in SUBSET Gpus
    BY DEF PresentGpusOf, GpusOf
  <2> QED
    BY <1>3, <1>5, <2>1 DEF LoadToDeleteServer
<1> DEFINE q == req[p]
<1>6. q \in ReqState /\ Holds(q)
  <2>1. q \in ReqState
    BY <1>1 DEF RaceTypeOK
  <2> HIDE DEF q
  <2> QED
    BY <1>1, <2>1 DEF NothingIsStale, q
<1>7. ASSUME LoadRowsToDelete(p) PROVE NothingIsStale' /\ UNCHANGED vars
  <2> DEFINE n == [step |-> "delete", gpus |-> q.gpus, servers |-> q.servers,
                   first |-> q.first, rows |-> LiveOn(q.first)]
  <2>1. Becomes(p, n) /\ Reads /\ q.step = "delete-rows"
    BY <1>7 DEF LoadRowsToDelete, At
  <2>2. q \in ToDelete
    BY <1>1, <2>1, StateAt DEF At
  <2>3. LiveOn(q.first) \in SUBSET Rids
    BY DEF LiveOn, Rows
  <2>4. n \in ReqState
    <3> HIDE DEF q
    <3> QED
      BY <2>2, <2>3 DEF ReqState, ToDelete, Deleting
  <2>5. DeleteHolds(q)
    BY <1>6, <2>1 DEF Holds
  <2>6. /\ n.step = "delete" /\ n.gpus = q.gpus /\ n.servers = q.servers
        /\ n.first = q.first /\ n.rows = LiveOn(q.first)
    OBVIOUS
  <2> HIDE DEF n, q
  <2>7. DeleteHolds(n)
    BY <2>5, <2>6 DEF DeleteHolds, LoadedToDelete
  <2>8. Holds(n)
    BY <2>6, <2>7 DEF Holds, SwitchHolds, RegisterHolds, CreateStepNames
  <2> QED
    BY <2>1, <2>4, <2>8, ReadHolds
<1>8. CASE WriteDelete(p)
  <2>1. DeleteHolds(q) /\ Becomes(p, Idle) /\ q.step = "delete"
    BY <1>6, <1>8 DEF Holds, WriteDelete, At
  <2>2. PICK G \in SUBSET Gpus : DeletesAll(q, G)
    BY <1>8, <2>1, DeleteWrites DEF DeleteHolds
  <2> HIDE DEF q
  <2>3. q.rows \cup LiveOn(G \ q.first) = LiveOn(G)
    BY <2>1, <2>2 DEF LiveOn, DeleteHolds, DeletesAll
  <2>4. RetireGpus(G)
    BY <2>2, <2>3 DEF RetireGpus, DeletesAll
  <2>5. Next
    BY <2>2, <2>4 DEF Next, FleetNext, DeleteGpu, DeleteServer, DeletesAll
  <2>6. NothingIsStale'
    BY <2>1, DoneHolds
  <2> QED
    BY <2>5, <2>6
<1> QED
  BY <1>4, <1>5, <1>7, <1>8

LEMMA AccessIsAtomic ==
  ASSUME NEW p \in Requests, OthersIdle(p), RaceTypeOK, NothingIsStale,
         AccessSteps(p)
  PROVE  NothingIsStale' /\ [Next]_vars
<1>1. p \in Requests
  OBVIOUS
<1>2. ASSUME NEW u \in Users, NEW S \in SUBSET Servers, LoadAccess(p, u, S)
      PROVE  NothingIsStale' /\ UNCHANGED vars
  <2> DEFINE q == [step |-> "access", user |-> u, new |-> S, old |-> access[u]]
  <2>1. Becomes(p, q) /\ Reads
    BY <1>2 DEF LoadAccess
  <2>2. q \in ReqState
    BY DEF ReqState, Granting, RaceTypeOK, TypeOK
  <2>3. q.step = "access" /\ q.user = u /\ q.old = access[u]
    OBVIOUS
  <2> HIDE DEF q
  <2>4. Holds(q)
    BY <2>3 DEF Holds, SwitchHolds, RegisterHolds, CreateStepNames
  <2> QED
    BY <2>1, <2>2, <2>4, ReadHolds
<1>3. CASE WriteAccess(p)
  <2> DEFINE q == req[p]
  <2>1. /\ q.step = "access" /\ Becomes(p, Idle)
        /\ access' = [access EXCEPT ![q.user] = q.new]
        /\ res' = Cancelled(HeldOn(q.user, q.old \ q.new))
        /\ UNCHANGED <<now, servers, gpus, gpuLimit, reg>>
    BY <1>3 DEF WriteAccess, At
  <2>2. q.user \in Users /\ q.new \in SUBSET Servers
    BY <1>1, <2>1, StateAt DEF Granting, At
  <2>3. q \in ReqState
    BY <1>1 DEF RaceTypeOK
  <2> HIDE DEF q
  <2>4. q.old = access[q.user]
    BY <1>1, <2>1, <2>3 DEF NothingIsStale, Holds, q
  <2>5. SetServerAccess(q.user, q.new)
    BY <2>1, <2>4 DEF SetServerAccess
  <2>6. NothingIsStale'
    BY <2>1, DoneHolds
  <2> QED
    BY <2>2, <2>5, <2>6 DEF Next, UserAdminNext
<1> QED
  BY <1>2, <1>3 DEF AccessSteps

StepOf(p) ==
  \/ CreateSteps(p) \/ CancelSteps(p) \/ SwitchSteps(p) \/ FleetSteps(p)
  \/ AccessSteps(p) \/ Settings(p) \/ Fail(p)

(* A step of a thread that is alone.                                       *)
LEMMA AloneIsAtomic ==
  ASSUME NEW p \in Requests, OthersIdle(p), RaceTypeOK, NothingIsStale,
         StepOf(p)
  PROVE  NothingIsStale' /\ [Next]_vars
<1>1. CASE FleetSteps(p)
  BY <1>1, RegisterIsAtomic, DeleteIsAtomic DEF FleetSteps
<1>2. CASE Settings(p)
  <2>1. \A o \in Requests : req'[o] = Idle
    BY <1>2 DEF Settings, Free, OthersIdle
  <2> QED
    BY <1>2, <2>1, IdleHolds DEF Settings, Next, UserAdminNext, NothingIsStale
<1>3. CASE Fail(p)
  BY <1>3, DoneHolds DEF Fail, Reads
<1> QED
  BY <1>1, <1>2, <1>3, CreateIsAtomic, CancelIsAtomic, SwitchIsAtomic,
     AccessIsAtomic DEF StepOf

(* A step of nobody.                                                       *)
LEMMA TickIsAtomic ==
  ASSUME RaceTick \/ UNCHANGED raceVars, NothingIsStale
  PROVE  NothingIsStale' /\ [Next]_vars
<1>1. CASE RaceTick
  <2>1. \A o \in Requests : req'[o] = Idle
    BY <1>1 DEF RaceTick, Free
  <2> QED
    BY <1>1, <2>1, IdleHolds DEF RaceTick, Next, NothingIsStale
<1>2. CASE UNCHANGED raceVars
  <2>1. UNCHANGED vars /\ req' = req
    BY <1>2 DEF raceVars
  <2>2. ASSUME NEW o \in Requests, NEW q \in ReqState, req'[o] = q
        PROVE  Holds(q)'
    <3>1. Holds(q)
      BY <2>1, <2>2 DEF NothingIsStale
    <3> QED
      BY <2>1, <3>1, HoldsStays
  <2> QED
    BY <2>1, <2>2 DEF NothingIsStale
<1> QED
  BY <1>1, <1>2

LEMMA NothingStaleAtInit == RaceInit => NothingIsStale
  BY DEF RaceInit, NothingIsStale, Holds, Idle, CreateStepNames, SwitchHolds,
         RegisterHolds

(* One thread alone: the requests, taken apart at every read, implement    *)
(* the requests of Booking, which run from their first read to their       *)
(* commit with nothing in between.                                         *)
THEOREM OneThreadIsAtomic ==
  ASSUME NEW p, Requests = {p}
  PROVE  RaceSpec => Spec
<1>1. RaceInit => Init /\ NothingIsStale
  BY NothingStaleAtInit DEF RaceInit
<1>2. RaceTypeOK /\ NothingIsStale /\ [RaceNext]_raceVars
        => NothingIsStale' /\ [Next]_vars
  <2>1. p \in Requests /\ OthersIdle(p)
    BY DEF OthersIdle
  <2> QED
    BY <2>1, AloneIsAtomic, TickIsAtomic DEF RaceNext, StepOf
<1> QED
  BY <1>1, <1>2, RaceTyped, PTL DEF RaceSpec, Spec

(* Any number of threads, whose requests take turns: while one is under    *)
(* way every step is a step of it.  The threads that came before leave     *)
(* nothing behind that the next one would trip over.                       *)
InTurn == \A p \in Requests : Free(p) \/ req'[p] # req[p]
AtMostOneBusy == \A o, p \in Requests : o = p \/ Free(o) \/ Free(p)

LEMMA OthersStand ==
  ASSUME RaceTypeOK, NEW o \in Requests, StepOf(o), NEW p \in Requests, p # o
  PROVE  req'[p] = req[p]
<1>1. ASSUME NEW x, Becomes(o, x) PROVE req'[p] = req[p]
  BY <1>1 DEF Becomes, RaceTypeOK
<1>2. CASE CreateSteps(o)
  BY <1>1, <1>2
  DEF CreateSteps, LoadForCreate, CheckServer, CheckCount, CheckRoom, CheckGpus,
      Insert
<1>3. CASE CancelSteps(o)
  BY <1>1, <1>3
  DEF CancelSteps, LoadForCancel, LoadForUserCancel, LoadForCancelAll,
      LoadToCancel, WriteCancel
<1>4. CASE SwitchSteps(o)
  BY <1>1, <1>4
  DEF SwitchSteps, LoadGpuToSwitch, LoadServerOfGpu, WriteGpuOff, WriteGpuOn,
      LoadServerToSwitch, WriteServerSwitch
<1>5. CASE FleetSteps(o)
  BY <1>1, <1>5
  DEF FleetSteps, LoadToRegister, LoadToDeleteServer, LoadToAddGpu,
      LoadToDeleteGpu, LoadToDelete, WriteServer, WriteGpu, LoadRowsToDelete,
      WriteDelete
<1>6. CASE AccessSteps(o)
  BY <1>1, <1>6 DEF AccessSteps, LoadAccess, WriteAccess
<1>7. CASE Settings(o) \/ Fail(o)
  BY <1>1, <1>7 DEF Settings, Fail
<1> QED
  BY <1>2, <1>3, <1>4, <1>5, <1>6, <1>7 DEF StepOf

LEMMA TurnStep ==
  ASSUME RaceTypeOK, AtMostOneBusy, NothingIsStale, [RaceNext]_raceVars,
         [InTurn]_raceVars
  PROVE  AtMostOneBusy' /\ NothingIsStale' /\ [Next]_vars
<1>1. ASSUME NEW o \in Requests, StepOf(o), InTurn
      PROVE  AtMostOneBusy' /\ NothingIsStale' /\ [Next]_vars
  <2>1. \A p \in Requests : p # o => req'[p] = req[p]
    BY <1>1, OthersStand
  <2>2. OthersIdle(o)
    BY <1>1, <2>1 DEF InTurn, OthersIdle, Free
  <2>3. AtMostOneBusy'
    BY <2>1, <2>2 DEF OthersIdle, AtMostOneBusy, Free
  <2> QED
    BY <1>1, <2>2, <2>3, AloneIsAtomic
<1>2. ASSUME RaceTick \/ UNCHANGED raceVars
      PROVE  AtMostOneBusy' /\ NothingIsStale' /\ [Next]_vars
  <2>1. AtMostOneBusy'
    BY <1>2 DEF RaceTick, raceVars, AtMostOneBusy, Free
  <2> QED
    BY <1>2, <2>1, TickIsAtomic
<1>3. CASE UNCHANGED raceVars
  BY <1>2, <1>3
<1>4. CASE RaceNext /\ InTurn
  BY <1>1, <1>2, <1>4 DEF RaceNext, StepOf
<1> QED
  BY <1>3, <1>4

(* Requests in turn, by any number of threads and of every kind, are the   *)
(* requests of Booking: what it proves holds of them.  So whatever else    *)
(* goes wrong among threads takes two requests under way at once.          *)
THEOREM InTurnIsAtomic == RaceSpec /\ [][InTurn]_raceVars => Spec
<1>1. RaceInit => Init /\ NothingIsStale /\ AtMostOneBusy
  BY NothingStaleAtInit DEF RaceInit, AtMostOneBusy, Free
<1>2. RaceTypeOK /\ (AtMostOneBusy /\ NothingIsStale)
        /\ [RaceNext]_raceVars /\ [InTurn]_raceVars
        => (AtMostOneBusy /\ NothingIsStale)' /\ [Next]_vars
  BY TurnStep
<1> QED
  BY <1>1, <1>2, RaceTyped, PTL DEF RaceSpec, Spec

(* Such requests keep the promise of ReservationLife.                      *)
THEOREM InTurnImplementsLife ==
  RaceSpec /\ [][InTurn]_raceVars => ImplementsLife
  BY InTurnIsAtomic, BookingImplementsLife

-----------------------------------------------------------------------------
(***************************************************************************)
(* Bookings and cancellations that race one another, while the fleet and   *)
(* the access stand under whatever is under way.  The limits may give way  *)
(* (see below), the invariants of the fleet do not: they need of what a    *)
(* thread has read only what it read of servers, GPUs and access, and a    *)
(* deletion needs to have seen what it takes away.                         *)
(***************************************************************************)
UnderWay(p) == req[p].step \notin {"idle", "cancel"}
Undisturbed ==
  \A p \in Requests : UnderWay(p) /\ req'[p] = req[p] =>
    /\ UNCHANGED <<servers, gpus, access>>
    /\ At(p, "delete") => Rows' \subseteq Rows

FleetHolds(q) ==
  /\ q.step \in CreateStepNames =>
       /\ ServerOf[q.gpu] \in access[q.user] /\ gpus[q.gpu].active
       /\ q.step # "create-server" => servers[ServerOf[q.gpu]].active
  /\ SwitchHolds(q) /\ RegisterHolds(q)
  /\ q.step \in {"delete-rows", "delete"} => LoadedToDelete(q)
  /\ q.step = "delete" => LiveOn(q.first) \subseteq q.rows
  /\ q.step = "access" => q.old = access[q.user]
FreshAt(p) == \A q \in ReqState : req[p] = q => FleetHolds(q)
FleetFresh == \A p \in Requests : FreshAt(p)

LEMMA FleetHoldsStays ==
  ASSUME NEW q, UNCHANGED <<servers, gpus, access>>, FleetHolds(q),
         q.step = "delete" => LiveOn(q.first)' \subseteq LiveOn(q.first)
  PROVE  FleetHolds(q)'
<1>1. LoadedToDelete(q)' <=> LoadedToDelete(q)
  BY DEF LoadedToDelete, PresentGpusOf, GpusOf
<1>2. (SwitchHolds(q)' <=> SwitchHolds(q)) /\ (RegisterHolds(q)' <=> RegisterHolds(q))
  BY DEF SwitchHolds, RegisterHolds
<1> QED
  BY <1>1, <1>2 DEF FleetHolds

LEMMA IdleFresh == FleetHolds(Idle) /\ FleetHolds(Idle)'
  BY DEF FleetHolds, Idle, CreateStepNames, SwitchHolds, RegisterHolds

(* Of a thread's step: it reads, or it is done.                            *)
LEMMA ReadFresh ==
  ASSUME RaceTypeOK, FleetInv, NEW p \in Requests, NEW q, Becomes(p, q), Reads,
         FleetHolds(q)
  PROVE  FreshAt(p)' /\ FleetInv'
<1>1. req'[p] = q /\ UNCHANGED vars
  BY DEF Becomes, RaceTypeOK, Reads
<1>2. FleetHolds(q)'
  BY <1>1, SameTables, FleetHoldsStays DEF vars
<1>3. FleetInv'
  BY <1>1, FleetStep DEF RaceTypeOK
<1> QED
  BY <1>1, <1>2, <1>3 DEF FreshAt

LEMMA DoneFresh ==
  ASSUME RaceTypeOK, FleetInv, NEW p \in Requests, Becomes(p, Idle),
         FleetKept \/ Next
  PROVE  FreshAt(p)' /\ FleetInv'
<1>1. req'[p] = Idle
  BY DEF Becomes, RaceTypeOK
<1>2. FleetInv'
  BY FleetStep DEF RaceTypeOK, FleetInv, FleetKept
<1> QED
  BY <1>1, <1>2, IdleFresh DEF FreshAt

LEMMA FreshNow ==
  ASSUME RaceTypeOK, NEW p \in Requests, FreshAt(p)
  PROVE  FleetHolds(req[p])
<1> DEFINE q == req[p]
<1>1. q \in ReqState
  BY DEF RaceTypeOK
<1> HIDE DEF q
<1>2. FleetHolds(q)
  BY <1>1 DEF FreshAt, q
<1> QED
  BY <1>2 DEF q

LEMMA CreateFresh ==
  ASSUME RaceTypeOK, FleetInv, NEW p \in Requests, FreshAt(p), CreateSteps(p)
  PROVE  FreshAt(p)' /\ FleetInv'
<1>1. ASSUME NEW u \in Users, NEW g \in Gpus, NEW start \in 0..MaxTime,
             NEW end \in 0..MaxTime, NEW ram \in Rams,
             LoadForCreate(p, u, g, start, end, ram)
      PROVE  FreshAt(p)' /\ FleetInv'
  <2> DEFINE q == [step |-> "create-server", user |-> u, gpu |-> g,
                   start |-> start, end |-> end, ram |-> ram,
                   total |-> gpus[g].ram, limit |-> gpuLimit[u], reg |-> reg]
  <2>1. /\ Becomes(p, q) /\ Reads
        /\ ServerOf[g] \in access[u] /\ gpus[g].active
    BY <1>1 DEF LoadForCreate
  <2>2. q.step = "create-server" /\ q.user = u /\ q.gpu = g
    OBVIOUS
  <2> HIDE DEF q
  <2>3. FleetHolds(q)
    BY <2>1, <2>2 DEF FleetHolds, SwitchHolds, RegisterHolds
  <2> QED
    BY <2>1, <2>3, ReadFresh
<1> DEFINE q == req[p]
           To(s) == [q EXCEPT !.step = s]
<1>2. FleetHolds(q)
  BY FreshNow
<1>3. ASSUME q.step \in CreateStepNames PROVE q \in Creating
  BY <1>3, StateAt
<1>4. ASSUME NEW s \in CreateStepNames, q.step \in CreateStepNames,
             Becomes(p, To(s)), Reads, servers[ServerOf[q.gpu]].active
      PROVE  FreshAt(p)' /\ FleetInv'
  <2>1. To(s).step = s /\ To(s).user = q.user /\ To(s).gpu = q.gpu
    <3>1. q \in Creating
      BY <1>3, <1>4
    <3> HIDE DEF q
    <3> QED
      BY <3>1 DEF Creating
  <2> HIDE DEF q, To
  <2>2. FleetHolds(To(s))
    BY <1>2, <1>4, <2>1 DEF FleetHolds, SwitchHolds, RegisterHolds,
                            CreateStepNames
  <2> QED
    BY <1>4, <2>2, ReadFresh
<1>5. CASE CheckServer(p)
  BY <1>4, <1>5 DEF CheckServer, At, CreateStepNames
<1>6. ASSUME q.step \in CreateStepNames, q.step # "create-server"
      PROVE  /\ Effective(q.gpu) /\ q.gpu \in Gpus
             /\ ServerOf[q.gpu] \in access[q.user]
  <2> HIDE DEF q
  <2> QED
    BY <1>2, <1>3, <1>6 DEF FleetHolds, Effective, Creating
<1>7. CASE CheckCount(p)
  BY <1>4, <1>6, <1>7 DEF CheckCount, At, CreateStepNames, Effective
<1>8. CASE CheckRoom(p)
  BY <1>4, <1>6, <1>8 DEF CheckRoom, At, CreateStepNames, Effective
<1>9. CASE CheckGpus(p)
  BY <1>4, <1>6, <1>9 DEF CheckGpus, At, CreateStepNames, Effective
<1>10. CASE Insert(p)
  <2>1. q.step = "create-insert" /\ Becomes(p, Idle)
    BY <1>10 DEF Insert, At
  <2>2. PICK r \in Rids :
          res' = [res EXCEPT ![r] =
                    [user |-> q.user, gpu |-> q.gpu, start |-> q.start,
                     end |-> q.end, ram |-> q.ram, status |-> "ACTIVE"]]
    BY <1>10 DEF Insert
  <2>3. UNCHANGED <<now, servers, gpus, access>>
    BY <1>10 DEF Insert
  <2>4. /\ Effective(q.gpu) /\ q.gpu \in Gpus
        /\ ServerOf[q.gpu] \in access[q.user]
    BY <1>6, <2>1 DEF CreateStepNames
  <2> HIDE DEF q
  <2>5. FleetKept
    BY <2>2, <2>3, <2>4, BookedKeepsFleet DEF RaceTypeOK, FleetInv
  <2> QED
    BY <2>1, <2>5, DoneFresh
<1> QED
  BY <1>1, <1>5, <1>7, <1>8, <1>9, <1>10 DEF CreateSteps

LEMMA CancelFresh ==
  ASSUME RaceTypeOK, FleetInv, NEW p \in Requests, CancelSteps(p)
  PROVE  FreshAt(p)' /\ FleetInv'
<1>1. ASSUME NEW S, LoadToCancel(p, S) PROVE FreshAt(p)' /\ FleetInv'
  <2> DEFINE q == [step |-> "cancel", rows |-> S]
  <2>1. Becomes(p, q) /\ Reads /\ q.step = "cancel"
    BY <1>1 DEF LoadToCancel
  <2> HIDE DEF q
  <2>2. FleetHolds(q)
    BY <2>1 DEF FleetHolds, SwitchHolds, RegisterHolds, CreateStepNames
  <2> QED
    BY <2>1, <2>2, ReadFresh
<1>2. CASE WriteCancel(p)
  <2>1. FleetKept
    BY <1>2, CancelKeepsFleet DEF WriteCancel, RaceTypeOK, FleetInv
  <2> QED
    BY <1>2, <2>1, DoneFresh DEF WriteCancel
<1> QED
  BY <1>1, <1>2
  DEF CancelSteps, LoadForCancel, LoadForUserCancel, LoadForCancelAll

LEMMA SwitchFresh ==
  ASSUME RaceTypeOK, FleetInv, NEW p \in Requests, FreshAt(p), SwitchSteps(p)
  PROVE  FreshAt(p)' /\ FleetInv'
<1>1. ASSUME NEW g \in Gpus, NEW on \in BOOLEAN, LoadGpuToSwitch(p, g, on)
      PROVE  FreshAt(p)' /\ FleetInv'
  <2> DEFINE q == [step |-> IF on THEN "gpu-on" ELSE "gpu-server", gpu |-> g]
  <2>1. Becomes(p, q) /\ Reads /\ gpus[g].present /\ gpus[g].active # on
    BY <1>1 DEF LoadGpuToSwitch
  <2>2. q.step = (IF on THEN "gpu-on" ELSE "gpu-server") /\ q.gpu = g
    OBVIOUS
  <2>3. gpus[g].active \in BOOLEAN
    BY DEF RaceTypeOK, TypeOK
  <2> HIDE DEF q
  <2>4. CASE on
    BY <2>1, <2>2, <2>3, <2>4, ReadFresh
    DEF FleetHolds, SwitchHolds, RegisterHolds, CreateStepNames
  <2>5. CASE ~on
    BY <2>1, <2>2, <2>3, <2>5, ReadFresh
    DEF FleetHolds, SwitchHolds, RegisterHolds, CreateStepNames
  <2> QED
    BY <2>4, <2>5
<1>2. ASSUME NEW s \in Servers, NEW on \in BOOLEAN, LoadServerToSwitch(p, s, on)
      PROVE  FreshAt(p)' /\ FleetInv'
  <2> DEFINE q == [step |-> "server-switch", server |-> s, on |-> on]
  <2>1. Becomes(p, q) /\ Reads /\ servers[s].present /\ servers[s].active # on
    BY <1>2 DEF LoadServerToSwitch
  <2>2. q.step = "server-switch" /\ q.server = s /\ q.on = on
    OBVIOUS
  <2> HIDE DEF q
  <2> QED
    BY <2>1, <2>2, ReadFresh
    DEF FleetHolds, SwitchHolds, RegisterHolds, CreateStepNames
<1> DEFINE q == req[p]
<1>3. SwitchHolds(q)
  BY FreshNow DEF FleetHolds
<1>4. ASSUME LoadServerOfGpu(p) PROVE FreshAt(p)' /\ FleetInv'
  <2> DEFINE was == servers[ServerOf[q.gpu]].active
             n == [step |-> "gpu-off", gpu |-> q.gpu, was |-> was]
  <2>1. Becomes(p, n) /\ Reads /\ q.step = "gpu-server"
    BY <1>4 DEF LoadServerOfGpu, At
  <2>2. n.step = "gpu-off" /\ n.gpu = q.gpu /\ n.was = was
    OBVIOUS
  <2>3. gpus[q.gpu].present /\ gpus[q.gpu].active
    BY <1>3, <2>1 DEF SwitchHolds
  <2> HIDE DEF n
  <2>4. FleetHolds(n)
    BY <2>2, <2>3 DEF FleetHolds, SwitchHolds, RegisterHolds, CreateStepNames
  <2> QED
    BY <2>1, <2>4, ReadFresh
<1>5. ASSUME WriteGpuOff(p) \/ WriteGpuOn(p) \/ WriteServerSwitch(p)
      PROVE  FreshAt(p)' /\ FleetInv'
  <2>1. Becomes(p, Idle)
    BY <1>5 DEF WriteGpuOff, WriteGpuOn, WriteServerSwitch
  <2> QED
    BY <1>3, <1>5, <2>1, SwitchWrites, DoneFresh
<1> QED
  BY <1>1, <1>2, <1>4, <1>5 DEF SwitchSteps

LEMMA RegisterFresh ==
  ASSUME RaceTypeOK, FleetInv, NEW p \in Requests, FreshAt(p),
         \/ \E s \in Servers : LoadToRegister(p, s)
         \/ \E g \in Gpus, m \in GpuRams : LoadToAddGpu(p, g, m)
         \/ WriteServer(p) \/ WriteGpu(p)
  PROVE  FreshAt(p)' /\ FleetInv'
<1>1. ASSUME NEW s \in Servers, LoadToRegister(p, s)
      PROVE  FreshAt(p)' /\ FleetInv'
  <2> DEFINE q == [step |-> "register-server", server |-> s, old |-> servers[s]]
  <2>1. Becomes(p, q) /\ Reads /\ ~servers[s].present
    BY <1>1 DEF LoadToRegister
  <2>2. q.step = "register-server" /\ q.server = s /\ q.old = servers[s]
    OBVIOUS
  <2> HIDE DEF q
  <2> QED
    BY <2>1, <2>2, ReadFresh
    DEF FleetHolds, SwitchHolds, RegisterHolds, CreateStepNames
<1>2. ASSUME NEW g \in Gpus, NEW m \in GpuRams, LoadToAddGpu(p, g, m)
      PROVE  FreshAt(p)' /\ FleetInv'
  <2> DEFINE q == [step |-> "register-gpu", gpu |-> g, ram |-> m,
                   old |-> gpus[g]]
  <2>1. /\ Becomes(p, q) /\ Reads
        /\ servers[ServerOf[g]].present /\ ~gpus[g].present
    BY <1>2 DEF LoadToAddGpu
  <2>2. q.step = "register-gpu" /\ q.gpu = g /\ q.old = gpus[g]
    OBVIOUS
  <2> HIDE DEF q
  <2> QED
    BY <2>1, <2>2, ReadFresh
    DEF FleetHolds, SwitchHolds, RegisterHolds, CreateStepNames
<1>3. ASSUME WriteServer(p) \/ WriteGpu(p) PROVE FreshAt(p)' /\ FleetInv'
  <2>1. RegisterHolds(req[p])
    BY FreshNow DEF FleetHolds
  <2>2. Becomes(p, Idle)
    BY <1>3 DEF WriteServer, WriteGpu
  <2> QED
    BY <1>3, <2>1, <2>2, RegisterWrites, DoneFresh
<1> QED
  BY <1>1, <1>2, <1>3

LEMMA DeleteFresh ==
  ASSUME RaceTypeOK, FleetInv, NEW p \in Requests, FreshAt(p),
         \/ \E g \in Gpus : LoadToDeleteGpu(p, g)
         \/ \E s \in Servers : LoadToDeleteServer(p, s)
         \/ LoadRowsToDelete(p) \/ WriteDelete(p)
  PROVE  FreshAt(p)' /\ FleetInv'
<1>1. ASSUME NEW G \in SUBSET Gpus, NEW S \in SUBSET Servers,
             LoadToDelete(p, G, S),
             \/ \E g \in Gpus : gpus[g].present /\ G = {g} /\ S = {}
             \/ \E s \in Servers :
                  servers[s].present /\ G = PresentGpusOf(s) /\ S = {s}
      PROVE  FreshAt(p)' /\ FleetInv'
  <2>1. PICK first \in SUBSET G :
          Becomes(p, [step |-> "delete-rows", first |-> first,
                      gpus |-> [g \in G |-> gpus[g]],
                      servers |-> [s \in S |-> servers[s]]])
    BY <1>1 DEF LoadToDelete
  <2> DEFINE q == [step |-> "delete-rows", first |-> first,
                   gpus |-> [g \in G |-> gpus[g]],
                   servers |-> [s \in S |-> servers[s]]]
  <2>2. /\ q.step = "delete-rows" /\ q.first = first
        /\ q.gpus = [g \in G |-> gpus[g]]
        /\ q.servers = [s \in S |-> servers[s]]
    OBVIOUS
  <2>3. Becomes(p, q) /\ Reads
    BY <1>1, <2>1 DEF LoadToDelete
  <2> HIDE DEF q
  <2>4. LoadedToDelete(q)
    BY <1>1, <2>2 DEF LoadedToDelete
  <2>5. FleetHolds(q)
    BY <2>2, <2>4 DEF FleetHolds, SwitchHolds, RegisterHolds, CreateStepNames
  <2> QED
    BY <2>3, <2>5, ReadFresh
<1>2. ASSUME NEW g \in Gpus, LoadToDeleteGpu(p, g)
      PROVE  FreshAt(p)' /\ FleetInv'
  BY <1>1, <1>2 DEF LoadToDeleteGpu
<1>3. ASSUME NEW s \in Servers, LoadToDeleteServer(p, s)
      PROVE  FreshAt(p)' /\ FleetInv'
  <2>1. PresentGpusOf(s) \in SUBSET Gpus
    BY DEF PresentGpusOf, GpusOf
  <2> QED
    BY <1>1, <1>3, <2>1 DEF LoadToDeleteServer
<1> DEFINE q == req[p]
<1>4. FleetHolds(q)
  BY FreshNow
<1>5. ASSUME LoadRowsToDelete(p) PROVE FreshAt(p)' /\ FleetInv'
  <2> DEFINE n == [step |-> "delete", gpus |-> q.gpus, servers |-> q.servers,
                   first |-> q.first, rows |-> LiveOn(q.first)]
  <2>1. Becomes(p, n) /\ Reads /\ q.step = "delete-rows"
    BY <1>5 DEF LoadRowsToDelete, At
  <2>2. LoadedToDelete(q)
    BY <1>4, <2>1 DEF FleetHolds
  <2>3. /\ n.step = "delete" /\ n.gpus = q.gpus /\ n.servers = q.servers
        /\ n.first = q.first /\ n.rows = LiveOn(q.first)
    OBVIOUS
  <2> HIDE DEF n, q
  <2>4. LoadedToDelete(n)
    BY <2>2, <2>3 DEF LoadedToDelete
  <2>5. FleetHolds(n)
    BY <2>3, <2>4 DEF FleetHolds, SwitchHolds, RegisterHolds, CreateStepNames
  <2> QED
    BY <2>1, <2>5, ReadFresh
<1>6. CASE WriteDelete(p)
  <2>1. q.step = "delete" /\ Becomes(p, Idle)
    BY <1>6 DEF WriteDelete, At
  <2>2. LoadedToDelete(q) /\ LiveOn(q.first) \subseteq q.rows
    BY <1>4, <2>1 DEF FleetHolds
  <2>3. PICK G \in SUBSET Gpus : DeletesAll(q, G)
    BY <1>6, <2>2, DeleteWrites
  <2>4. q.rows \subseteq Rows
    BY <1>6 DEF WriteDelete
  <2> HIDE DEF q
  <2>5. /\ q.rows \cup LiveOn(G \ q.first) \in SUBSET Rows
        /\ LiveOn(G) \subseteq q.rows \cup LiveOn(G \ q.first)
    BY <2>2, <2>3, <2>4 DEF LiveOn
  <2>6. Retires(G)
    BY <2>3, <2>5 DEF Retires, DeletesAll
  <2>7. FleetKept
    BY <2>3, <2>6, DeleteGpuKeepsFleet, DeleteServerKeepsFleet
    DEF DeletesAll, RaceTypeOK, FleetInv
  <2> QED
    BY <2>1, <2>7, DoneFresh
<1> QED
  BY <1>2, <1>3, <1>5, <1>6

LEMMA AccessFresh ==
  ASSUME RaceTypeOK, FleetInv, NEW p \in Requests, FreshAt(p), AccessSteps(p)
  PROVE  FreshAt(p)' /\ FleetInv'
<1>1. ASSUME NEW u \in Users, NEW S \in SUBSET Servers, LoadAccess(p, u, S)
      PROVE  FreshAt(p)' /\ FleetInv'
  <2> DEFINE q == [step |-> "access", user |-> u, new |-> S, old |-> access[u]]
  <2>1. Becomes(p, q) /\ Reads
    BY <1>1 DEF LoadAccess
  <2>2. q.step = "access" /\ q.user = u /\ q.old = access[u]
    OBVIOUS
  <2> HIDE DEF q
  <2> QED
    BY <2>1, <2>2, ReadFresh
    DEF FleetHolds, SwitchHolds, RegisterHolds, CreateStepNames
<1>2. CASE WriteAccess(p)
  <2>1. At(p, "access") /\ Becomes(p, Idle)
    BY <1>2 DEF WriteAccess
  <2>2. /\ req[p].user \in Users /\ req[p].new \in SUBSET Servers
        /\ req[p].old = access[req[p].user]
    BY <2>1, StateAt, FreshNow DEF Granting, At, FleetHolds
  <2>3. SetServerAccess(req[p].user, req[p].new)
    BY <1>2, <2>2 DEF SetServerAccess, WriteAccess
  <2>4. Next
    BY <2>2, <2>3 DEF Next, UserAdminNext
  <2> QED
    BY <2>1, <2>4, DoneFresh
<1> QED
  BY <1>1, <1>2 DEF AccessSteps

(* Settings leave the thread idle, and a failure leaves nothing.           *)
LEMMA OwnStepFresh ==
  ASSUME RaceTypeOK, FleetInv, NEW p \in Requests, FreshAt(p), StepOf(p)
  PROVE  FreshAt(p)' /\ FleetInv'
<1>1. CASE FleetSteps(p)
  BY <1>1, RegisterFresh, DeleteFresh DEF FleetSteps
<1>2. CASE Settings(p)
  <2>1. Becomes(p, Idle)
    BY <1>2 DEF Settings, Free, Becomes, RaceTypeOK
  <2>2. Next
    BY <1>2 DEF Settings, Next, UserAdminNext
  <2> QED
    BY <2>1, <2>2, DoneFresh
<1>3. CASE Fail(p)
  BY <1>3, IdleFresh, ReadFresh DEF Fail
<1> QED
  BY <1>1, <1>2, <1>3, CreateFresh, CancelFresh, SwitchFresh, AccessFresh
  DEF StepOf

(* What another thread has read of the fleet.                              *)
LEMMA OthersFresh ==
  ASSUME RaceTypeOK, [RaceNext]_raceVars, Undisturbed,
         NEW o \in Requests, FreshAt(o), req'[o] = req[o]
  PROVE  FreshAt(o)'
<1> DEFINE q == req[o]
<1>1. FleetHolds(q) /\ q \in ReqState
  BY FreshNow DEF RaceTypeOK
<1>2. CASE q.step \in {"idle", "cancel"}
  <2> SUFFICES ASSUME NEW x \in ReqState, req'[o] = x PROVE FleetHolds(x)'
    BY DEF FreshAt
  <2>1. x.step \in {"idle", "cancel"}
    BY <1>2
  <2> QED
    BY <2>1 DEF FleetHolds, SwitchHolds, RegisterHolds, CreateStepNames
<1>3. CASE q.step \notin {"idle", "cancel"}
  <2> SUFFICES ASSUME NEW x \in ReqState, req'[o] = x PROVE FleetHolds(x)'
    BY DEF FreshAt
  <2>1. /\ UNCHANGED <<servers, gpus, access>>
        /\ x.step = "delete" => Rows' \subseteq Rows
    BY <1>3 DEF Undisturbed, UnderWay, At
  <2>2. ASSUME x.step = "delete", NEW r \in LiveOn(x.first)'
        PROVE  r \in LiveOn(x.first)
    <3>1. r \in Rows /\ r \in Rids /\ IsRow(r) /\ IsRow(r)'
      BY <2>1, <2>2 DEF LiveOn, Rows
    <3>2. KeepsItsTerms(r)
      BY <3>1, TermsInRaceNext DEF TermsStep, IsRow
    <3>3. Live(r)
      BY <2>2, <3>1, <3>2, RowRange
      DEF LiveOn, Live, KeepsItsTerms, Status, RaceTypeOK
    <3> QED
      BY <2>2, <3>1, <3>2, <3>3 DEF LiveOn, KeepsItsTerms
  <2>3. FleetHolds(x)
    BY <1>1
  <2> QED
    BY <2>1, <2>2, <2>3, FleetHoldsStays
<1> QED
  BY <1>2, <1>3

LEMMA FreshStep ==
  ASSUME RaceTypeOK, FleetInv, FleetFresh, [RaceNext]_raceVars,
         [Undisturbed]_raceVars
  PROVE  FleetInv' /\ FleetFresh'
<1>1. Undisturbed
  BY DEF Undisturbed, raceVars, vars, Rows, IsRow
<1>2. ASSUME NEW p \in Requests, StepOf(p) PROVE FleetInv' /\ FleetFresh'
  <2>1. FreshAt(p)' /\ FleetInv'
    BY <1>2, OwnStepFresh DEF FleetFresh
  <2>2. ASSUME NEW o \in Requests, o # p PROVE FreshAt(o)'
    BY <1>1, <1>2, <2>2, OthersStand, OthersFresh DEF FleetFresh
  <2> QED
    BY <2>1, <2>2 DEF FleetFresh
<1>3. ASSUME RaceTick \/ UNCHANGED raceVars PROVE FleetInv' /\ FleetFresh'
  <2>1. req' = req /\ [Next]_vars
    BY <1>3 DEF RaceTick, raceVars, Next
  <2>2. FleetInv'
    BY <2>1, FleetStep DEF RaceTypeOK
  <2> QED
    BY <1>1, <2>1, <2>2, OthersFresh DEF FleetFresh
<1> QED
  BY <1>2, <1>3 DEF RaceNext, StepOf

(* However many bookings, cancellations and settings interleave, while     *)
(* nobody changes the fleet or the access under a request that has read    *)
(* them, and nobody books under a deletion that has selected its rows: a   *)
(* GPU that works holds nothing paused, one that does not runs nothing,    *)
(* one that is deleted holds nothing, and nobody holds what they may not   *)
(* use.                                                                    *)
THEOREM FleetHoldsUndisturbed ==
  RaceSpec /\ [][Undisturbed]_raceVars
    => /\ []DeletedIsOff /\ []PausedOnlyWhileOff /\ []RunningOnlyWhileOn
       /\ []LiveOnlyOnPresent /\ []HeldOnlyWithAccess
<1>1. RaceInit => FleetInv /\ FleetFresh
  BY FleetInit, IdleFresh DEF RaceInit, FleetFresh, FreshAt
<1>2. RaceTypeOK /\ (FleetInv /\ FleetFresh)
        /\ [RaceNext]_raceVars /\ [Undisturbed]_raceVars
        => (FleetInv /\ FleetFresh)'
  BY FreshStep
<1>3. FleetInv =>
        /\ DeletedIsOff /\ PausedOnlyWhileOff /\ RunningOnlyWhileOn
        /\ LiveOnlyOnPresent /\ HeldOnlyWithAccess
  BY DEF FleetInv, FleetCore
<1> QED
  BY <1>1, <1>2, <1>3, RaceTyped, PTL DEF RaceSpec
-----------------------------------------------------------------------------
(***************************************************************************)
(* How many reservations a student can hold.  A thread that has passed the *)
(* count is counted as if it had booked already: when the next one passes  *)
(* it, the student holds fewer than the limit, and no more threads than    *)
(* there are can have passed.  Cancelling, failing and time only lower the *)
(* sum; what the threads have loaded of the regulation is the regulation.  *)
(***************************************************************************)
PassedSteps == {"create-room", "create-gpus", "create-insert"}
Passed(u) == {p \in Requests : req[p].step \in PassedSteps /\ req[p].user = u}
CountInv ==
  /\ \A p \in Requests : req[p].step \in CreateStepNames => req[p].reg = reg
  /\ \A u \in Users :
       Cardinality(HeldUpcoming(u)) + Cardinality(Passed(u))
         <= reg.maxActive + Cardinality(Requests) - 1

LEMMA PartCounts ==
  ASSUME NEW S, IsFiniteSet(S), NEW T, T \subseteq S
  PROVE  /\ IsFiniteSet(T) /\ Cardinality(T) \in Nat /\ Cardinality(S) \in Nat
         /\ Cardinality(T) <= Cardinality(S)
<1>1. IsFiniteSet(T) /\ Cardinality(T) <= Cardinality(S)
  BY FS_Subset
<1> QED
  BY <1>1, FS_CardinalityType

LEMMA Numbers ==
  ASSUME IsFiniteSet(Requests), RaceTypeOK, NEW u
  PROVE  /\ IsFiniteSet(HeldUpcoming(u)) /\ IsFiniteSet(Passed(u))
         /\ Cardinality(HeldUpcoming(u)) \in Nat
         /\ Cardinality(Passed(u)) \in Nat
         /\ Cardinality(Requests) \in Nat
         /\ reg.maxActive \in Nat
<1>1. IsFiniteSet(HeldUpcoming(u))
  BY HeldFinite
<1>2. /\ IsFiniteSet(Passed(u)) /\ Cardinality(Passed(u)) \in Nat
      /\ Cardinality(Requests) \in Nat
  BY PartCounts DEF Passed
<1>3. reg.maxActive \in Nat
  BY RegulationsAssumption DEF RaceTypeOK, TypeOK
<1>4. Cardinality(HeldUpcoming(u)) \in Nat
  BY <1>1, FS_CardinalityType
<1> QED
  BY <1>1, <1>2, <1>3, <1>4

LEMMA LoweredCount ==
  ASSUME IsFiniteSet(Requests), RaceTypeOK, CountInv, reg' = reg,
         NEW u \in Users, HeldUpcoming(u)' \subseteq HeldUpcoming(u),
         Passed(u)' \subseteq Passed(u)
  PROVE  Cardinality(HeldUpcoming(u)') + Cardinality(Passed(u)')
           <= reg'.maxActive + Cardinality(Requests) - 1
<1>1. /\ Cardinality(HeldUpcoming(u)') \in Nat
      /\ Cardinality(HeldUpcoming(u)') <= Cardinality(HeldUpcoming(u))
  BY Numbers, PartCounts
<1>2. /\ Cardinality(Passed(u)') \in Nat
      /\ Cardinality(Passed(u)') <= Cardinality(Passed(u))
  BY Numbers, PartCounts
<1>3. Cardinality(HeldUpcoming(u)) + Cardinality(Passed(u))
        <= reg.maxActive + Cardinality(Requests) - 1
  BY DEF CountInv
<1> QED
  BY <1>1, <1>2, <1>3, Numbers

(* A thread that does not go on with a booking is not counted any more.    *)
LEMMA LeftPassed ==
  ASSUME RaceTypeOK, NEW p \in Requests, NEW q, Becomes(p, q),
         q.step \notin PassedSteps
  PROVE  /\ \A u : Passed(u)' \subseteq Passed(u) \ {p}
         /\ req'[p] = q
         /\ \A o \in Requests : o # p => req'[o] = req[o]
<1>1. req'[p] = q /\ \A o \in Requests : o # p => req'[o] = req[o]
  BY DEF Becomes, RaceTypeOK
<1> QED
  BY <1>1 DEF Passed

LEMMA LeavingKeepsCount ==
  ASSUME IsFiniteSet(Requests), RaceTypeOK, CountInv,
         NEW p \in Requests, NEW q, Becomes(p, q),
         q.step \notin CreateStepNames \/ (q.step \notin PassedSteps /\ q.reg = reg),
         reg' = reg, \A u \in Users : HeldUpcoming(u)' \subseteq HeldUpcoming(u)
  PROVE  CountInv'
<1>1. q.step \notin PassedSteps
  BY DEF PassedSteps, CreateStepNames
<1>2. /\ \A u : Passed(u)' \subseteq Passed(u)
      /\ req'[p] = q
      /\ \A o \in Requests : o # p => req'[o] = req[o]
  BY <1>1, LeftPassed
<1>3. \A o \in Requests : req'[o].step \in CreateStepNames => req'[o].reg = reg'
  BY <1>2 DEF CountInv
<1> QED
  BY <1>2, <1>3, LoweredCount DEF CountInv

(* The checks of a booking, one by one.                                    *)
LEMMA CheckKeepsCount ==
  ASSUME IsFiniteSet(Requests), RaceTypeOK, CountInv, NEW p \in Requests,
         CheckServer(p) \/ CheckCount(p) \/ CheckRoom(p) \/ CheckGpus(p)
  PROVE  CountInv'
<1>1. PICK s \in CreateStepNames :
        /\ Becomes(p, [req[p] EXCEPT !.step = s])
        /\ s \in PassedSteps => req[p].step \in PassedSteps \/ CheckCount(p)
  BY DEF CheckServer, CheckCount, CheckRoom, CheckGpus, CreateStepNames,
         PassedSteps, At
<1>2. req[p].step \in CreateStepNames
  BY DEF CheckServer, CheckCount, CheckRoom, CheckGpus, CreateStepNames, At
<1>3. req[p] \in Creating /\ req[p].reg = reg
  BY <1>2, StateAt DEF CountInv
<1> DEFINE q == [req[p] EXCEPT !.step = s]
<1>4. q.step = s /\ q.reg = reg /\ q.user = req[p].user
  BY <1>3 DEF Creating
<1>5. UNCHANGED vars
  BY DEF CheckServer, CheckCount, CheckRoom, CheckGpus, Reads
<1>6. \A u : HeldUpcoming(u)' = HeldUpcoming(u)
  BY <1>5 DEF vars, HeldUpcoming, Rows, IsRow, Live
<1>7. reg' = reg
  BY <1>5 DEF vars
<1> HIDE DEF q
<1>8. Becomes(p, q)
  BY <1>1 DEF q
<1>9. req'[p] = q /\ \A o \in Requests : o # p => req'[o] = req[o]
  BY <1>8 DEF Becomes, RaceTypeOK
<1>10. \A o \in Requests : req'[o].step \in CreateStepNames => req'[o].reg = reg'
  BY <1>4, <1>7, <1>9 DEF CountInv
<1>11. ASSUME NEW u \in Users, u # req[p].user \/ s \notin PassedSteps
                                 \/ req[p].step \in PassedSteps
       PROVE  Cardinality(HeldUpcoming(u)') + Cardinality(Passed(u)')
                <= reg'.maxActive + Cardinality(Requests) - 1
  <2>1. Passed(u)' \subseteq Passed(u)
    BY <1>4, <1>9, <1>11 DEF Passed
  <2> QED
    BY <1>6, <1>7, <2>1, LoweredCount
<1>12. ASSUME NEW u \in Users, u = req[p].user, CheckCount(p)
       PROVE  Cardinality(HeldUpcoming(u)') + Cardinality(Passed(u)')
                <= reg'.maxActive + Cardinality(Requests) - 1
  <2>1. Cardinality(HeldUpcoming(u)) < reg.maxActive
    BY <1>3, <1>12 DEF CheckCount
  <2>2. Passed(u)' \subseteq Requests
    BY DEF Passed
  <2>3. /\ Cardinality(Passed(u)') \in Nat
        /\ Cardinality(Passed(u)') <= Cardinality(Requests)
    BY <2>2, PartCounts
  <2>4. Cardinality(HeldUpcoming(u)') = Cardinality(HeldUpcoming(u))
    BY <1>6
  <2> QED
    BY <1>7, <2>1, <2>3, <2>4, Numbers
<1>13. ASSUME NEW u \in Users
       PROVE  Cardinality(HeldUpcoming(u)') + Cardinality(Passed(u)')
                <= reg'.maxActive + Cardinality(Requests) - 1
  BY <1>1, <1>11, <1>12
<1> QED
  BY <1>10, <1>13 DEF CountInv

(* What is written was counted before.                                     *)
LEMMA InsertKeepsCount ==
  ASSUME IsFiniteSet(Requests), RaceTypeOK, CountInv, NEW p \in Requests,
         Insert(p)
  PROVE  CountInv'
<1>1. Becomes(p, Idle) /\ reg' = reg /\ now' = now /\ At(p, "create-insert")
  BY DEF Insert
<1>2. /\ \A u : Passed(u)' \subseteq Passed(u) \ {p}
      /\ req'[p] = Idle
      /\ \A o \in Requests : o # p => req'[o] = req[o]
  BY <1>1, LeftPassed DEF Idle, PassedSteps
<1>3. PICK r \in Rids :
        /\ ~IsRow(r) /\ res'[r].user = req[p].user
        /\ \A q \in Rids : q # r => res'[q] = res[q]
  BY InsertedRow
<1>4. \A o \in Requests : req'[o].step \in CreateStepNames => req'[o].reg = reg'
  BY <1>1, <1>2 DEF CountInv, Idle, CreateStepNames
<1>5. ASSUME NEW u \in Users, u # req[p].user
      PROVE  Cardinality(HeldUpcoming(u)') + Cardinality(Passed(u)')
               <= reg'.maxActive + Cardinality(Requests) - 1
  <2>1. HeldUpcoming(u)' \subseteq HeldUpcoming(u)
    BY <1>1, <1>3, <1>5 DEF HeldUpcoming, Rows, IsRow, Live
  <2> QED
    BY <1>1, <1>2, <2>1, LoweredCount
<1>6. ASSUME NEW u \in Users, u = req[p].user
      PROVE  Cardinality(HeldUpcoming(u)') + Cardinality(Passed(u)')
               <= reg'.maxActive + Cardinality(Requests) - 1
  <2> DEFINE H == HeldUpcoming(u)
             Q == Passed(u)
             H2 == HeldUpcoming(u)'
             Q2 == Passed(u)'
  <2>1. H2 \subseteq H \cup {r}
    BY <1>1, <1>3 DEF HeldUpcoming, Rows, IsRow, Live
  <2>2. Q2 \subseteq Q \ {p} /\ p \in Q
    BY <1>1, <1>2, <1>6 DEF Passed, PassedSteps, At
  <2>3. /\ IsFiniteSet(H) /\ IsFiniteSet(Q)
        /\ Cardinality(H) \in Nat /\ Cardinality(Q) \in Nat
        /\ Cardinality(Requests) \in Nat /\ reg.maxActive \in Nat
    BY Numbers
  <2>4. Cardinality(H) + Cardinality(Q) <= reg.maxActive + Cardinality(Requests) - 1
    BY DEF CountInv
  <2> HIDE DEF H, Q, H2, Q2
  <2>5. /\ IsFiniteSet(H \cup {r})
        /\ Cardinality(H \cup {r}) = IF r \in H THEN Cardinality(H)
                                     ELSE Cardinality(H) + 1
    BY <2>3, FS_AddElement
  <2>6. /\ Cardinality(H2) \in Nat
        /\ Cardinality(H2) <= Cardinality(H) + 1
    BY <2>1, <2>3, <2>5, PartCounts
  <2>7. /\ IsFiniteSet(Q \ {p}) /\ Cardinality(Q \ {p}) = Cardinality(Q) - 1
    BY <2>2, <2>3, FS_RemoveElement
  <2>8. /\ Cardinality(Q2) \in Nat
        /\ Cardinality(Q2) <= Cardinality(Q) - 1
    BY <2>2, <2>7, PartCounts
  <2>9. Cardinality(H2) + Cardinality(Q2) <= reg.maxActive + Cardinality(Requests) - 1
    BY <2>3, <2>4, <2>6, <2>8
  <2> QED
    BY <1>1, <2>9 DEF H2, Q2
<1> QED
  BY <1>4, <1>5, <1>6 DEF CountInv

LEMMA CountStep ==
  ASSUME IsFiniteSet(Requests), RaceTypeOK, CountInv,
         StudentsNext \/ UNCHANGED raceVars
  PROVE  CountInv'
<1>1. ASSUME UNCHANGED vars
      PROVE  reg' = reg /\ \A u \in Users : HeldUpcoming(u)' \subseteq HeldUpcoming(u)
  BY <1>1 DEF vars, HeldUpcoming, Rows, IsRow, Live
<1>2. ASSUME NEW p \in Requests, NEW u \in Users, NEW g \in Gpus,
             NEW start \in 0..MaxTime, NEW end \in 0..MaxTime, NEW ram \in Rams,
             LoadForCreate(p, u, g, start, end, ram)
      PROVE  CountInv'
  <2> DEFINE q == [step |-> "create-server", user |-> u, gpu |-> g,
                   start |-> start, end |-> end, ram |-> ram,
                   total |-> gpus[g].ram, limit |-> gpuLimit[u], reg |-> reg]
  <2>1. q.step \notin PassedSteps /\ q.reg = reg
    BY DEF PassedSteps
  <2>2. Becomes(p, q) /\ UNCHANGED vars
    BY <1>2 DEF LoadForCreate, Reads
  <2> HIDE DEF q
  <2> QED
    BY <1>1, <2>1, <2>2, LeavingKeepsCount
<1>3. Idle.step \notin CreateStepNames
  BY DEF Idle, CreateStepNames
<1>4. ASSUME NEW p \in Requests, NEW S, LoadToCancel(p, S) PROVE CountInv'
  <2> DEFINE q == [step |-> "cancel", rows |-> S]
  <2>1. q.step \notin CreateStepNames
    BY DEF CreateStepNames
  <2>2. Becomes(p, q) /\ UNCHANGED vars
    BY <1>4 DEF LoadToCancel, Reads
  <2> HIDE DEF q
  <2> QED
    BY <1>1, <2>1, <2>2, LeavingKeepsCount
<1>5. ASSUME NEW p \in Requests, WriteCancel(p) PROVE CountInv'
  <2> DEFINE S == req[p].rows
  <2>1. /\ Becomes(p, Idle) /\ reg' = reg /\ now' = now
        /\ S \in SUBSET Rows /\ res' = Cancelled(S) /\ TypeOK
    BY <1>5 DEF WriteCancel, RaceTypeOK
  <2> HIDE DEF S
  <2>2. ASSUME NEW u \in Users PROVE HeldUpcoming(u)' \subseteq HeldUpcoming(u)
    <3>1. ASSUME NEW r \in Rids, IsRow(r)', Live(r)'
          PROVE  IsRow(r) /\ Live(r) /\ res'[r] = res[r]
      BY <2>1, <3>1, CancelledRow DEF IsRow, Live
    <3> QED
      BY <2>1, <3>1 DEF HeldUpcoming, Rows
  <2> QED
    BY <1>3, <2>1, <2>2, LeavingKeepsCount
<1>6. ASSUME NEW p \in Requests, Fail(p) PROVE CountInv'
  BY <1>1, <1>3, <1>6, LeavingKeepsCount DEF Fail, Reads
<1>7. CASE RaceTick
  <2>1. /\ now \in Nat /\ now' = now + 1 /\ res' = res /\ reg' = reg
        /\ req' = req
    BY <1>7 DEF RaceTick, Tick, RaceTypeOK, TypeOK
  <2>2. ASSUME NEW u \in Users PROVE HeldUpcoming(u)' \subseteq HeldUpcoming(u)
    <3> SUFFICES ASSUME NEW r \in Rids, IsRow(r), res[r].end > now'
                 PROVE  res[r].end > now
      BY <2>1 DEF HeldUpcoming, Rows, IsRow, Live
    <3>1. res[r].end \in Nat
      BY RowRange DEF RaceTypeOK
    <3> QED
      BY <2>1, <3>1
  <2>3. \A u : Passed(u)' = Passed(u)
    BY <2>1 DEF Passed
  <2> QED
    BY <2>1, <2>2, <2>3, LoweredCount DEF CountInv
<1>8. CASE UNCHANGED raceVars
  <2>1. UNCHANGED vars /\ req' = req
    BY <1>8 DEF raceVars
  <2>2. \A u : Passed(u)' = Passed(u)
    BY <2>1 DEF Passed
  <2> QED
    BY <1>1, <2>1, <2>2, LoweredCount DEF CountInv
<1> QED
  BY <1>2, <1>4, <1>5, <1>6, <1>7, <1>8, CheckKeepsCount, InsertKeepsCount
  DEF StudentsNext, CreateSteps, CancelSteps, LoadForCancel,
      LoadForUserCancel, LoadForCancelAll
LEMMA CountInit ==
  ASSUME IsFiniteSet(Requests), RaceInit, Requests # {} \/ reg.maxActive = 1
  PROVE  CountInv
<1>1. /\ \A u : HeldUpcoming(u) = {} /\ Passed(u) = {}
      /\ \A p \in Requests : req[p].step \notin CreateStepNames
  BY DEF RaceInit, Init, HeldUpcoming, Rows, IsRow, Passed, PassedSteps, Idle,
         CreateStepNames
<1>2. Cardinality({}) = 0 /\ Cardinality(Requests) \in Nat
  BY FS_EmptySet, FS_CardinalityType
<1>3. Requests # {} => Cardinality(Requests) # 0
  BY FS_EmptySet
<1>4. reg.maxActive \in Nat
  BY RaceTypeInit, RegulationsAssumption DEF RaceTypeOK, TypeOK
<1>5. 0 + 0 <= reg.maxActive + Cardinality(Requests) - 1
  BY <1>2, <1>3, <1>4
<1> QED
  BY <1>1, <1>2, <1>5 DEF CountInv

LEMMA CountEnough ==
  ASSUME IsFiniteSet(Requests), RaceTypeOK, CountInv
  PROVE  CountIsBounded
<1> SUFFICES ASSUME NEW u \in Users
             PROVE  Cardinality(HeldUpcoming(u))
                      <= reg.maxActive + Cardinality(Requests) - 1
  BY DEF CountIsBounded
<1>1. Cardinality(HeldUpcoming(u)) + Cardinality(Passed(u))
        <= reg.maxActive + Cardinality(Requests) - 1
  BY DEF CountInv
<1> QED
  BY <1>1, Numbers

LEMMA StudentsRace == StudentsNext => [RaceNext]_raceVars
  BY DEF StudentsNext, RaceNext

(* Threads that only book and cancel: nothing else is ever under way.      *)
OnlyBooksAndCancels ==
  \A p \in Requests : req[p].step \in CreateStepNames \cup {"idle", "cancel"}

LEMMA BooksAndCancelsStep ==
  ASSUME Kinds \subseteq {"create", "cancel", "bulk"}, RaceTypeOK,
         OnlyBooksAndCancels, [RaceNext]_raceVars
  PROVE  OnlyBooksAndCancels' /\ (StudentsNext \/ UNCHANGED raceVars)
<1>1. StudentsNext \/ UNCHANGED raceVars
  <2>1. ASSUME NEW p \in Requests
        PROVE  ~(SwitchSteps(p) \/ FleetSteps(p) \/ AccessSteps(p) \/ Settings(p))
    <3>1. req[p].step \in CreateStepNames \cup {"idle", "cancel"}
      BY DEF OnlyBooksAndCancels
    <3>2. /\ ~At(p, "gpu-server") /\ ~At(p, "gpu-off") /\ ~At(p, "gpu-on")
          /\ ~At(p, "server-switch") /\ ~At(p, "register-server")
          /\ ~At(p, "register-gpu") /\ ~At(p, "delete-rows")
          /\ ~At(p, "delete") /\ ~At(p, "access")
      BY <3>1 DEF At, CreateStepNames
    <3>3. ~SwitchSteps(p)
      BY <3>2 DEF SwitchSteps, LoadGpuToSwitch, LoadServerOfGpu, WriteGpuOff,
                  WriteGpuOn, LoadServerToSwitch, WriteServerSwitch
    <3>4. ~FleetSteps(p)
      BY <3>2 DEF FleetSteps, LoadToRegister, LoadToDeleteServer, LoadToAddGpu,
                  LoadToDeleteGpu, LoadToDelete, WriteServer, WriteGpu,
                  LoadRowsToDelete, WriteDelete
    <3> QED
      BY <3>2, <3>3, <3>4 DEF AccessSteps, LoadAccess, WriteAccess, Settings
  <2> QED
    BY <2>1 DEF RaceNext, StudentsNext
<1>2. ASSUME NEW p \in Requests, NEW q, Becomes(p, q),
             q.step \in CreateStepNames \cup {"idle", "cancel"}
      PROVE  OnlyBooksAndCancels'
  BY <1>2 DEF Becomes, OnlyBooksAndCancels, RaceTypeOK
<1>3. ASSUME req' = req PROVE OnlyBooksAndCancels'
  BY <1>3 DEF OnlyBooksAndCancels
<1>4. ASSUME NEW p \in Requests, Becomes(p, Idle) PROVE OnlyBooksAndCancels'
  BY <1>2, <1>4 DEF Idle
<1>5. ASSUME NEW p \in Requests, CreateSteps(p) PROVE OnlyBooksAndCancels'
  <2>1. ASSUME NEW u \in Users, NEW g \in Gpus, NEW start \in 0..MaxTime,
               NEW end \in 0..MaxTime, NEW ram \in Rams,
               LoadForCreate(p, u, g, start, end, ram)
        PROVE  OnlyBooksAndCancels'
    BY <1>2, <2>1 DEF LoadForCreate, CreateStepNames
  <2>2. ASSUME CheckServer(p) \/ CheckCount(p) \/ CheckRoom(p) \/ CheckGpus(p)
        PROVE  OnlyBooksAndCancels'
    <3>1. PICK s \in CreateStepNames : Becomes(p, [req[p] EXCEPT !.step = s])
      BY <2>2 DEF CheckServer, CheckCount, CheckRoom, CheckGpus,
                  CreateStepNames
    <3>2. req[p] \in Creating
      BY <2>2, StateAt DEF CheckServer, CheckCount, CheckRoom, CheckGpus, At,
                           CreateStepNames
    <3>3. [req[p] EXCEPT !.step = s].step = s
      BY <3>2 DEF Creating
    <3> QED
      BY <1>2, <3>1, <3>3
  <2> QED
    BY <1>4, <1>5, <2>1, <2>2 DEF CreateSteps, Insert
<1>6. ASSUME NEW p \in Requests, CancelSteps(p) PROVE OnlyBooksAndCancels'
  <2>1. ASSUME NEW S, LoadToCancel(p, S) PROVE OnlyBooksAndCancels'
    BY <1>2, <2>1 DEF LoadToCancel
  <2> QED
    BY <1>4, <1>6, <2>1 DEF CancelSteps, WriteCancel, LoadForCancel,
                            LoadForUserCancel, LoadForCancelAll
<1> QED
  BY <1>1, <1>3, <1>4, <1>5, <1>6
  DEF StudentsNext, Fail, RaceTick, raceVars

(* Bookings and cancellations by any number of threads: a student holds at *)
(* most one reservation more than the limit for every thread beyond the    *)
(* first.                                                                  *)
THEOREM CountIsBoundedByThreads ==
  ASSUME Kinds \subseteq {"create", "cancel", "bulk"},
         IsFiniteSet(Requests), Requests # {}
  PROVE  RaceSpec => []CountIsBounded
<1>1. RaceInit => OnlyBooksAndCancels /\ CountInv
  BY CountInit DEF RaceInit, OnlyBooksAndCancels, Idle
<1>2. RaceTypeOK /\ OnlyBooksAndCancels /\ CountInv /\ [RaceNext]_raceVars
        => OnlyBooksAndCancels' /\ CountInv'
  BY BooksAndCancelsStep, CountStep
<1>3. RaceTypeOK /\ CountInv => CountIsBounded
  BY CountEnough
<1> QED
  BY <1>1, <1>2, <1>3, RaceTyped, PTL DEF RaceSpec

-----------------------------------------------------------------------------
(***************************************************************************)
(* How far a GPU can be overfilled.  A thread that has passed the check of *)
(* the RAM is counted as if it had booked already.  When the next one      *)
(* passes it there was room for it beside what is held, and each of the    *)
(* others adds the largest amount at most.                                 *)
(***************************************************************************)
RoomSteps == {"create-gpus", "create-insert"}
Roomed(g, t) == {p \in Requests : /\ req[p].step \in RoomSteps
                                  /\ req[p].gpu = g
                                  /\ req[p].start <= t /\ t < req[p].end}
Asked == [p \in Requests |-> IF req[p].step \in CreateStepNames
                             THEN req[p].ram ELSE 0]
RoomFacts ==
  /\ RamsPositive
  /\ \A p \in Requests :
       /\ req[p].step \in CreateStepNames =>
            req[p].total = gpus[req[p].gpu].ram
       /\ req[p].step \in CreateStepNames \ {"create-server"} =>
            req[p].ram > 0
RoomSum ==
  \A g \in Gpus, t \in Instants :
    Held(g, t) + WeightOf(Asked, Roomed(g, t))
      <= gpus[g].ram + (Cardinality(Requests) - 1) * MostRam

RamIsBounded ==
  /\ IsFiniteSet(Requests) /\ Requests # {}
  /\ MostRam \in Nat /\ \A m \in Rams : m <= MostRam

LEMMA MostRamIs ==
  ASSUME IsFiniteSet(Rams), Rams \cap Nat # {}
  PROVE  MostRam \in Nat /\ \A m \in Rams : m <= MostRam
<1>1. Max(Rams) \in Rams /\ \A m \in Rams : Max(Rams) >= m
  BY RamsAssumption, MaxOfFinite
<1>2. \A m \in Rams : m \in Int
  BY RamsAssumption
<1>3. \E m \in Rams : \A n \in Rams : n <= m
  BY <1>1, <1>2
<1>4. MostRam \in Rams /\ \A n \in Rams : n <= MostRam
  BY <1>3 DEF MostRam
<1>5. PICK n \in Rams : n \in Nat
  OBVIOUS
<1> QED
  BY <1>2, <1>4, <1>5

LEMMA RoomNumbers ==
  ASSUME RamIsBounded, RaceTypeOK, RoomFacts, NEW g \in Gpus, NEW t
  PROVE  /\ Held(g, t) \in Int /\ gpus[g].ram \in Int
         /\ (Cardinality(Requests) - 1) * MostRam \in Int
         /\ \A p \in Requests :
              req[p].step \in CreateStepNames \ {"create-server"} =>
                /\ Asked[p] = req[p].ram
                /\ Asked[p] \in Int /\ Asked[p] > 0 /\ Asked[p] <= MostRam
         /\ \A P \in SUBSET Requests : IsFiniteSet(P)
<1>1. Held(g, t) \in Int
  BY ActiveInIs, UsageOfActive, HeldIs
  DEF RaceTypeOK, TypeOK, RoomFacts, RamsPositive, IsRow, Live
<1>2. gpus[g].ram \in Int
  BY DEF RaceTypeOK, TypeOK
<1>3. (Cardinality(Requests) - 1) * MostRam \in Int
  <2>1. Cardinality(Requests) \in Nat /\ MostRam \in Nat
    BY FS_CardinalityType DEF RamIsBounded
  <2> DEFINE n == Cardinality(Requests) - 1
  <2>2. n \in Int
    BY <2>1
  <2> HIDE DEF n
  <2>3. n * MostRam \in Int
    BY <2>1, <2>2
  <2> QED
    BY <2>3 DEF n
<1>4. ASSUME NEW p \in Requests,
             req[p].step \in CreateStepNames \ {"create-server"}
      PROVE  /\ Asked[p] = req[p].ram
             /\ Asked[p] \in Int /\ Asked[p] > 0 /\ Asked[p] <= MostRam
  <2>1. req[p].ram \in Rams
    BY <1>4, StateAt DEF Creating
  <2>2. Asked[p] = req[p].ram
    BY <1>4 DEF Asked
  <2>3. req[p].ram > 0
    BY <1>4 DEF RoomFacts
  <2> QED
    BY <2>1, <2>2, <2>3, RamsAssumption DEF RamIsBounded
<1>5. \A P \in SUBSET Requests : IsFiniteSet(P)
  BY FS_Subset DEF RamIsBounded
<1> QED
  BY <1>1, <1>2, <1>3, <1>4, <1>5

(* Fewer threads past the check, and no more held.                         *)
LEMMA RoomStays ==
  ASSUME RamIsBounded, RaceTypeOK, RoomFacts, RoomSum,
         NEW g \in Gpus, NEW t \in Instants, gpus'[g].ram = gpus[g].ram,
         Held(g, t)' \in Int, Held(g, t)' <= Held(g, t),
         Roomed(g, t)' \subseteq Roomed(g, t),
         \A o \in Roomed(g, t)' : Asked'[o] = Asked[o]
  PROVE  Held(g, t)' + WeightOf(Asked', Roomed(g, t)')
           <= gpus'[g].ram + (Cardinality(Requests) - 1) * MostRam
<1> DEFINE P == Roomed(g, t)
           N == Roomed(g, t)'
           B == gpus[g].ram + (Cardinality(Requests) - 1) * MostRam
<1>1. \A o \in P : Asked[o] \in Int /\ Asked[o] > 0
  BY RoomNumbers DEF Roomed, RoomSteps, CreateStepNames
<1>2. P \in SUBSET Requests
  BY DEF Roomed
<1>3. IsFiniteSet(P)
  BY <1>2, RoomNumbers
<1>4. N \in SUBSET P /\ \A o \in N : Asked'[o] = Asked[o]
  OBVIOUS
<1>5. Held(g, t) + WeightOf(Asked, P) <= B
  BY DEF RoomSum
<1>6. Held(g, t) \in Int /\ B \in Int
  BY RoomNumbers
<1> HIDE DEF P, N, B
<1>7. IsFiniteSet(N)
  BY <1>3, <1>4, FS_Subset
<1>8. WeightOf(Asked', N) = WeightOf(Asked, N)
  BY <1>4, <1>7, WeightSame
<1>9. WeightOf(Asked, N) <= WeightOf(Asked, P)
  BY <1>1, <1>3, <1>4, WeightGrows
<1>10. WeightOf(Asked, N) \in Int /\ WeightOf(Asked, P) \in Int
  BY <1>1, <1>3, <1>4, <1>7, WeightType
<1>11. Held(g, t)' + WeightOf(Asked', N) <= B
  BY <1>5, <1>6, <1>8, <1>9, <1>10
<1> QED
  BY <1>11 DEF N, B

(* What the students' threads do, seen from the RAM that is held.          *)
SameRequest(o) ==
  /\ req'[o].ram = req[o].ram /\ req'[o].gpu = req[o].gpu
  /\ req'[o].start = req[o].start /\ req'[o].end = req[o].end
OnlyLeft ==
  \A o \in Requests :
    req'[o].step \in RoomSteps => req[o].step \in RoomSteps /\ SameRequest(o)

LEMMA SameRoomed ==
  ASSUME NEW g, NEW t, NEW P \in SUBSET Requests,
         \A o \in P : req'[o].step \in RoomSteps =>
                        req[o].step \in RoomSteps /\ SameRequest(o)
  PROVE  /\ \A o \in P : o \in Roomed(g, t)' => o \in Roomed(g, t)
         /\ \A o \in P : o \in Roomed(g, t)' => Asked'[o] = Asked[o]
<1> SUFFICES ASSUME NEW o \in P, o \in Roomed(g, t)'
             PROVE  o \in Roomed(g, t) /\ Asked'[o] = Asked[o]
  OBVIOUS
<1>1. /\ o \in Requests /\ req'[o].step \in RoomSteps
      /\ req'[o].gpu = g /\ req'[o].start <= t /\ t < req'[o].end
  BY DEF Roomed
<1>2. req[o].step \in RoomSteps /\ SameRequest(o)
  BY <1>1
<1>3. o \in Roomed(g, t)
  BY <1>1, <1>2 DEF Roomed, SameRequest
<1>4. Asked[o] = req[o].ram /\ Asked'[o] = req'[o].ram
  BY <1>1, <1>2 DEF Asked, RoomSteps, CreateStepNames
<1> QED
  BY <1>2, <1>3, <1>4 DEF SameRequest

(* Passing the check of the RAM.                                           *)
LEMMA CheckedRoom ==
  ASSUME RamIsBounded, RaceTypeOK, RaceTypeOK', RoomFacts, RoomFacts', RoomSum,
         NEW p \in Requests, CheckRoom(p)
  PROVE  RoomSum'
<1>1. /\ req[p] \in Creating /\ req[p].step = "create-room"
      /\ UNCHANGED vars /\ gpus' = gpus
  BY StateAt DEF CheckRoom, At, CreateStepNames, Reads, vars
<1> DEFINE n == [req[p] EXCEPT !.step = "create-gpus"]
<1>2. /\ n.step = "create-gpus" /\ n.ram = req[p].ram /\ n.gpu = req[p].gpu
      /\ n.start = req[p].start /\ n.end = req[p].end
  BY <1>1 DEF Creating
<1>3. Becomes(p, n)
  BY DEF CheckRoom
<1> HIDE DEF n
<1>4. req'[p] = n /\ \A o \in Requests : o # p => req'[o] = req[o]
  BY <1>3 DEF Becomes, RaceTypeOK
<1>5. \A g, t : Held(g, t)' = Held(g, t)
  BY <1>1 DEF vars, Held, ActiveRowsOf, Rows, IsRow
<1>6. \A g, t : \A o \in Requests \ {p} :
        o \in Roomed(g, t)' => o \in Roomed(g, t) /\ Asked'[o] = Asked[o]
  BY <1>4, SameRoomed DEF SameRequest
<1>7. ASSUME NEW g \in Gpus, NEW t \in Instants,
             ~(req[p].gpu = g /\ req[p].start <= t /\ t < req[p].end)
      PROVE  Held(g, t)' + WeightOf(Asked', Roomed(g, t)')
               <= gpus'[g].ram + (Cardinality(Requests) - 1) * MostRam
  <2>1. p \notin Roomed(g, t)'
    BY <1>2, <1>4, <1>7 DEF Roomed
  <2>2. Roomed(g, t)' \subseteq Requests
    BY DEF Roomed
  <2>3. /\ Roomed(g, t)' \subseteq Roomed(g, t)
        /\ \A o \in Roomed(g, t)' : Asked'[o] = Asked[o]
    BY <1>6, <2>1, <2>2
  <2>4. Held(g, t)' \in Int /\ Held(g, t)' <= Held(g, t)
    BY <1>5, RoomNumbers
  <2> QED
    BY <1>1, <2>3, <2>4, RoomStays
<1>8. ASSUME NEW g \in Gpus, NEW t \in Instants,
             req[p].gpu = g /\ req[p].start <= t /\ t < req[p].end
      PROVE  Held(g, t)' + WeightOf(Asked', Roomed(g, t)')
               <= gpus'[g].ram + (Cardinality(Requests) - 1) * MostRam
  <2> DEFINE N == Roomed(g, t)'
             R == N \ {p}
             k == Cardinality(Requests)
             w == Asked'
             total == gpus[g].ram
  <2>1. Held(g, t) \in Int /\ total \in Int
    BY RoomNumbers
  <2>2. Held(g, t) + req[p].ram <= total
    <3> DEFINE start == req[p].start
               end == req[p].end
               peak == PeakConcurrentRam(OverlappingActive(g, start, end),
                                         start, end)
    <3>1. start \in Int /\ end \in Int /\ t \in Int
      BY <1>1, TimeAssumption DEF Creating, Instants
    <3>2. t \in start..(end - 1)
      BY <1>8, <3>1
    <3>3. peak + req[p].ram <= req[p].total
      BY <1>8 DEF CheckRoom
    <3>4. req[p].total = total
      BY <1>1, <1>8 DEF RoomFacts, CreateStepNames
    <3>5. TypeOK /\ RamsPositive
      BY DEF RaceTypeOK, RoomFacts
    <3> HIDE DEF start, end
    <3>6. peak \in Int /\ peak >= Held(g, t)
      BY <3>1, <3>2, <3>5, RoomIsSeen
    <3>7. req[p].ram \in Int
      BY <1>1, RamsAssumption DEF Creating
    <3> HIDE DEF peak, total
    <3> QED
      BY <2>1, <3>3, <3>4, <3>6, <3>7
  <2>3. /\ p \in N /\ N \in SUBSET Requests /\ w[p] = req[p].ram
        /\ \A o \in N : req'[o].step \in CreateStepNames \ {"create-server"}
    BY <1>2, <1>4, <1>8 DEF Roomed, RoomSteps, Asked, CreateStepNames
  <2>4. IsFiniteSet(N) /\ IsFiniteSet(R) /\ IsFiniteSet(Requests)
    BY <2>3, FS_Subset DEF RamIsBounded
  <2>5. \A o \in N : w[o] \in Int /\ w[o] <= MostRam
    <3> SUFFICES ASSUME NEW o \in N PROVE w[o] \in Int /\ w[o] <= MostRam
      OBVIOUS
    <3>1. CASE o = p
      <4>1. req[p].ram \in Rams /\ \A m \in Rams : m \in Int
        BY <1>1, RamsAssumption DEF Creating
      <4> QED
        BY <2>3, <3>1, <4>1 DEF RamIsBounded
    <3>2. CASE o # p
      <4>1. o \in Requests /\ o \in Roomed(g, t) /\ w[o] = Asked[o]
        BY <1>6, <2>3, <3>2
      <4>2. req[o].step \in CreateStepNames \ {"create-server"}
        BY <4>1 DEF Roomed, RoomSteps, CreateStepNames
      <4> QED
        BY <4>1, <4>2, RoomNumbers
    <3> QED
      BY <3>1, <3>2
  <2>6. MostRam \in Nat /\ MostRam \in Int
    BY DEF RamIsBounded
  <2>7. R \subseteq Requests \ {p}
    BY <2>3
  <2> HIDE DEF w, N
  <2>8. WeightOf(w, N) = w[p] + WeightOf(w, R)
    BY <2>3, <2>4, <2>5, WeightApart
  <2>9. WeightOf(w, R) <= Cardinality(R) * MostRam /\ WeightOf(w, R) \in Int
    <3>1. \A o \in R : w[o] \in Int /\ w[o] <= MostRam
      BY <2>5
    <3> HIDE DEF R
    <3> QED
      BY <2>4, <2>6, <3>1, WeightBounded, WeightType
  <2>10. Cardinality(Requests \ {p}) = k - 1 /\ IsFiniteSet(Requests \ {p})
    BY <2>4, FS_RemoveElement
  <2> HIDE DEF R
  <2>11. Cardinality(R) \in Nat /\ Cardinality(R) <= Cardinality(Requests \ {p})
    BY <2>7, <2>10, PartCounts
  <2>12. k \in Nat
    BY <2>4, FS_CardinalityType
  <2> DEFINE c == Cardinality(R)
             m == k - 1
  <2>13. c \in Int /\ m \in Int /\ c <= m
    BY <2>10, <2>11, <2>12
  <2> HIDE DEF c, m, k
  <2>14. c * MostRam <= m * MostRam /\ c * MostRam \in Int /\ m * MostRam \in Int
    BY <2>6, <2>13
  <2>15. WeightOf(w, R) <= m * MostRam
    BY <2>9, <2>14 DEF c
  <2>16. w[p] \in Int
    BY <2>3, <2>5
  <2> HIDE DEF total
  <2>17. Held(g, t) + WeightOf(w, N) <= total + m * MostRam
    BY <2>1, <2>2, <2>3, <2>8, <2>9, <2>14, <2>15, <2>16
  <2> QED
    BY <1>1, <1>5, <2>17 DEF w, N, m, k, total
<1> QED
  BY <1>7, <1>8 DEF RoomSum

(* What is written was counted before.                                     *)
LEMMA InsertedRoom ==
  ASSUME RamIsBounded, RaceTypeOK, RaceTypeOK', RoomFacts, RoomFacts', RoomSum,
         NEW p \in Requests, Insert(p)
  PROVE  RoomSum'
<1>1. /\ req[p] \in Creating /\ req[p].step = "create-insert"
      /\ Becomes(p, Idle) /\ gpus' = gpus
  BY StateAt DEF Insert, At, CreateStepNames
<1>2. req'[p] = Idle /\ \A o \in Requests : o # p => req'[o] = req[o]
  BY <1>1 DEF Becomes, RaceTypeOK
<1>3. PICK r \in Rids :
        /\ ~IsRow(r) /\ IsRow(r)' /\ res'[r].gpu = req[p].gpu
        /\ res'[r].start = req[p].start /\ res'[r].end = req[p].end
        /\ res'[r].ram = req[p].ram /\ res'[r].status = "ACTIVE"
        /\ \A q \in Rids : q # r => res'[q] = res[q]
  BY InsertedRow
<1>4. IsRow(r)'
  BY <1>3
<1>5. \A g, t : Held(g, t)' = IF /\ req[p].gpu = g
                                 /\ req[p].start <= t /\ t < req[p].end
                              THEN Held(g, t) + req[p].ram
                              ELSE Held(g, t)
  BY <1>3, <1>4, BookingAdds DEF RaceTypeOK, RoomFacts
<1>6. \A g, t : \A o \in Requests \ {p} :
        o \in Roomed(g, t)' => o \in Roomed(g, t) /\ Asked'[o] = Asked[o]
  BY <1>2, SameRoomed DEF SameRequest
<1>7. \A g, t : Roomed(g, t)' \subseteq Requests \ {p}
  BY <1>2 DEF Roomed, RoomSteps, Idle
<1>8. ASSUME NEW g \in Gpus, NEW t \in Instants,
             ~(req[p].gpu = g /\ req[p].start <= t /\ t < req[p].end)
      PROVE  Held(g, t)' + WeightOf(Asked', Roomed(g, t)')
               <= gpus'[g].ram + (Cardinality(Requests) - 1) * MostRam
  <2>1. /\ Roomed(g, t)' \subseteq Roomed(g, t)
        /\ \A o \in Roomed(g, t)' : Asked'[o] = Asked[o]
    BY <1>6, <1>7
  <2>2. Held(g, t)' \in Int /\ Held(g, t)' <= Held(g, t)
    BY <1>5, <1>8, RoomNumbers
  <2> QED
    BY <1>1, <2>1, <2>2, RoomStays
<1>9. ASSUME NEW g \in Gpus, NEW t \in Instants,
             req[p].gpu = g /\ req[p].start <= t /\ t < req[p].end
      PROVE  Held(g, t)' + WeightOf(Asked', Roomed(g, t)')
               <= gpus'[g].ram + (Cardinality(Requests) - 1) * MostRam
  <2> DEFINE P == Roomed(g, t)
             N == Roomed(g, t)'
             d == P \ {p}
             B == gpus[g].ram + (Cardinality(Requests) - 1) * MostRam
  <2>1. /\ p \in P /\ P \in SUBSET Requests
        /\ \A o \in P : req[o].step \in CreateStepNames \ {"create-server"}
    BY <1>1, <1>9 DEF Roomed, RoomSteps, CreateStepNames
  <2>2. \A o \in P : Asked[o] \in Int /\ Asked[o] > 0
    BY <2>1, RoomNumbers
  <2>3. Asked[p] = req[p].ram
    BY <2>1, RoomNumbers
  <2>4. IsFiniteSet(P) /\ IsFiniteSet(N) /\ IsFiniteSet(d)
    BY <1>7, <2>1, FS_Subset DEF RamIsBounded
  <2>5. N \subseteq d /\ \A o \in N : Asked'[o] = Asked[o]
    BY <1>6, <1>7
  <2>6. Held(g, t) + WeightOf(Asked, P) <= B
    BY DEF RoomSum
  <2>7. Held(g, t) \in Int /\ B \in Int
    BY RoomNumbers
  <2>8. Held(g, t)' = Held(g, t) + req[p].ram
    BY <1>5, <1>9
  <2> HIDE DEF P, N, B
  <2>9. WeightOf(Asked, P) = Asked[p] + WeightOf(Asked, d)
    BY <2>1, <2>2, <2>4, WeightApart
  <2>10. d \subseteq P
    OBVIOUS
  <2> HIDE DEF d
  <2>11. WeightOf(Asked', N) = WeightOf(Asked, N)
    BY <2>4, <2>5, WeightSame
  <2>12. WeightOf(Asked, N) <= WeightOf(Asked, d)
    BY <2>2, <2>4, <2>5, <2>10, WeightGrows
  <2>13. WeightOf(Asked, N) \in Int /\ WeightOf(Asked, d) \in Int
    BY <2>2, <2>4, <2>5, <2>10, WeightType
  <2>14. Held(g, t)' + WeightOf(Asked', N) <= B
    BY <2>1, <2>2, <2>3, <2>6, <2>7, <2>8, <2>9, <2>11, <2>12, <2>13
  <2> QED
    BY <1>1, <2>14 DEF N, B
<1> QED
  BY <1>8, <1>9 DEF RoomSum

(* Everything else the students' threads do.                               *)
LEMMA CancelledFades ==
  ASSUME TypeOK, NEW S \in SUBSET Rows, res' = Cancelled(S), now' = now
  PROVE  Fades /\ ~Resumes
<1>1. ASSUME NEW r \in Rids, IsRow(r)', Live(r)'
      PROVE  IsRow(r) /\ Live(r) /\ res'[r] = res[r]
  BY <1>1, CancelledRow DEF IsRow, Live
<1>2. now' >= now
  BY DEF TypeOK
<1>3. Fades
  BY <1>1, <1>2 DEF Fades, SameTerms
<1>4. ~Resumes
  BY <1>1 DEF Resumes, Rows, IsRow, Live
<1> QED
  BY <1>3, <1>4

LEMMA TablesFade ==
  ASSUME TypeOK, res' = res, now' \in {now, now + 1}
  PROVE  Fades /\ ~Resumes
<1>1. now' >= now
  BY DEF TypeOK
<1> QED
  BY <1>1 DEF Fades, SameTerms, Resumes, Rows, IsRow, Live

LEMMA StudentsMove ==
  ASSUME RaceTypeOK, StudentsNext \/ UNCHANGED raceVars
  PROVE  /\ gpus' = gpus
         /\ \/ \E p \in Requests : CheckRoom(p)
            \/ \E p \in Requests : Insert(p)
            \/ Fades /\ ~Resumes /\ OnlyLeft
<1>0. TypeOK
  BY DEF RaceTypeOK
<1>1. ASSUME UNCHANGED vars PROVE gpus' = gpus /\ Fades /\ ~Resumes
  BY <1>0, <1>1, TablesFade DEF vars
<1>2. ASSUME NEW p \in Requests, NEW q, Becomes(p, q), q.step \notin RoomSteps
      PROVE  OnlyLeft
  <2>1. req'[p] = q /\ \A o \in Requests : o # p => req'[o] = req[o]
    BY <1>2 DEF Becomes, RaceTypeOK
  <2> QED
    BY <1>2, <2>1 DEF OnlyLeft, SameRequest
<1>3. Idle.step \notin RoomSteps
  BY DEF Idle, RoomSteps
<1>4. ASSUME NEW p \in Requests, NEW u \in Users, NEW g \in Gpus,
             NEW start \in 0..MaxTime, NEW end \in 0..MaxTime, NEW ram \in Rams,
             LoadForCreate(p, u, g, start, end, ram)
      PROVE  gpus' = gpus /\ Fades /\ ~Resumes /\ OnlyLeft
  <2> DEFINE q == [step |-> "create-server", user |-> u, gpu |-> g,
                   start |-> start, end |-> end, ram |-> ram,
                   total |-> gpus[g].ram, limit |-> gpuLimit[u], reg |-> reg]
  <2>1. q.step \notin RoomSteps
    BY DEF RoomSteps
  <2>2. Becomes(p, q) /\ UNCHANGED vars
    BY <1>4 DEF LoadForCreate, Reads
  <2> HIDE DEF q
  <2> QED
    BY <1>1, <1>2, <2>1, <2>2
<1>5. ASSUME NEW p \in Requests, CheckServer(p) \/ CheckCount(p)
      PROVE  gpus' = gpus /\ Fades /\ ~Resumes /\ OnlyLeft
  <2>1. PICK s \in {"create-count", "create-room"} :
          Becomes(p, [req[p] EXCEPT !.step = s])
    BY <1>5 DEF CheckServer, CheckCount
  <2>2. req[p] \in Creating
    BY <1>5, StateAt DEF CheckServer, CheckCount, At, CreateStepNames
  <2>3. [req[p] EXCEPT !.step = s].step \notin RoomSteps
    BY <2>2 DEF Creating, RoomSteps
  <2>4. UNCHANGED vars
    BY <1>5 DEF CheckServer, CheckCount, Reads
  <2> QED
    BY <1>1, <1>2, <2>1, <2>3, <2>4
<1>6. ASSUME NEW p \in Requests, CheckGpus(p)
      PROVE  gpus' = gpus /\ Fades /\ ~Resumes /\ OnlyLeft
  <2> DEFINE q == [req[p] EXCEPT !.step = "create-insert"]
  <2>1. req[p] \in Creating /\ req[p].step = "create-gpus"
    BY <1>6, StateAt DEF CheckGpus, At, CreateStepNames
  <2>2. /\ q.ram = req[p].ram /\ q.gpu = req[p].gpu
        /\ q.start = req[p].start /\ q.end = req[p].end
    BY <2>1 DEF Creating
  <2>3. Becomes(p, q) /\ UNCHANGED vars
    BY <1>6 DEF CheckGpus, Reads
  <2> HIDE DEF q
  <2>4. req'[p] = q /\ \A o \in Requests : o # p => req'[o] = req[o]
    BY <2>3 DEF Becomes, RaceTypeOK
  <2>5. OnlyLeft
    BY <2>1, <2>2, <2>4 DEF OnlyLeft, SameRequest, RoomSteps
  <2> QED
    BY <1>1, <2>3, <2>5
<1>7. ASSUME NEW p \in Requests, NEW S, LoadToCancel(p, S)
      PROVE  gpus' = gpus /\ Fades /\ ~Resumes /\ OnlyLeft
  <2> DEFINE q == [step |-> "cancel", rows |-> S]
  <2>1. q.step \notin RoomSteps
    BY DEF RoomSteps
  <2>2. Becomes(p, q) /\ UNCHANGED vars
    BY <1>7 DEF LoadToCancel, Reads
  <2> HIDE DEF q
  <2> QED
    BY <1>1, <1>2, <2>1, <2>2
<1>8. ASSUME NEW p \in Requests, WriteCancel(p)
      PROVE  gpus' = gpus /\ Fades /\ ~Resumes /\ OnlyLeft
  <2> DEFINE S == req[p].rows
  <2>1. /\ Becomes(p, Idle) /\ gpus' = gpus /\ now' = now
        /\ S \in SUBSET Rows /\ res' = Cancelled(S)
    BY <1>8 DEF WriteCancel
  <2> HIDE DEF S
  <2>2. Fades /\ ~Resumes
    BY <1>0, <2>1, CancelledFades
  <2> QED
    BY <1>2, <1>3, <2>1, <2>2
<1>9. ASSUME NEW p \in Requests, Fail(p)
      PROVE  gpus' = gpus /\ Fades /\ ~Resumes /\ OnlyLeft
  BY <1>1, <1>2, <1>3, <1>9 DEF Fail, Reads
<1>10. ASSUME req' = req PROVE OnlyLeft
  BY <1>10 DEF OnlyLeft, SameRequest
<1>11. CASE RaceTick
  <2>1. res' = res /\ now' = now + 1 /\ gpus' = gpus /\ req' = req
    BY <1>11 DEF RaceTick, Tick
  <2> QED
    BY <1>0, <1>10, <2>1, TablesFade
<1>12. CASE UNCHANGED raceVars
  BY <1>1, <1>10, <1>12 DEF raceVars
<1>13. ASSUME NEW p \in Requests, CheckRoom(p) \/ Insert(p) PROVE gpus' = gpus
  BY <1>13 DEF CheckRoom, Insert, Reads, vars
<1> QED
  BY <1>4, <1>5, <1>6, <1>7, <1>8, <1>9, <1>11, <1>12, <1>13
  DEF StudentsNext, CreateSteps, CancelSteps, LoadForCancel,
      LoadForUserCancel, LoadForCancelAll

(* What a thread knows of the GPU it books stays true: nobody else changes *)
(* a GPU here.                                                             *)
LEMMA FactsStep ==
  ASSUME RaceTypeOK, RoomFacts, StudentsNext \/ UNCHANGED raceVars
  PROVE  RoomFacts'
<1> DEFINE Known(q) ==
             /\ q.step \in CreateStepNames => q.total = gpus[q.gpu].ram
             /\ q.step \in CreateStepNames \ {"create-server"} => q.ram > 0
<1>0. TypeOK /\ RamsPositive /\ gpus' = gpus /\ \A o \in Requests : Known(req[o])
  BY StudentsMove DEF RaceTypeOK, RoomFacts
<1>1. RamsPositive'
  <2>1. CASE \E p \in Requests : CheckRoom(p)
    BY <1>0, <2>1 DEF CheckRoom, Reads, vars, RamsPositive, IsRow, Live
  <2>2. CASE \E p \in Requests : Insert(p)
    <3>1. PICK p \in Requests : Insert(p)
      BY <2>2
    <3>2. req[p].ram > 0
      BY <1>0, <3>1 DEF Insert, At, CreateStepNames
    <3>3. PICK r \in Rids : /\ res'[r].ram = req[p].ram
                            /\ \A q \in Rids : q # r => res'[q] = res[q]
      BY <3>1, InsertedRow
    <3> QED
      BY <1>0, <3>2, <3>3 DEF RamsPositive, IsRow, Live
  <2>3. CASE Fades
    BY <1>0, <2>3 DEF Fades, SameTerms, RamsPositive
  <2> QED
    BY <2>1, <2>2, <2>3, StudentsMove
<1>2. ASSUME NEW p \in Requests, NEW q, Becomes(p, q), Known(q)
      PROVE  \A o \in Requests : Known(req'[o])
  <2>1. req'[p] = q /\ \A o \in Requests : o # p => req'[o] = req[o]
    BY <1>2 DEF Becomes, RaceTypeOK
  <2> QED
    BY <1>0, <1>2, <2>1
<1>3. ASSUME NEW p \in Requests, CreateSteps(p)
      PROVE  \A o \in Requests : Known(req'[o])
  <2>1. ASSUME NEW u \in Users, NEW g \in Gpus, NEW start \in 0..MaxTime,
               NEW end \in 0..MaxTime, NEW ram \in Rams,
               LoadForCreate(p, u, g, start, end, ram)
        PROVE  \A o \in Requests : Known(req'[o])
    <3> DEFINE q == [step |-> "create-server", user |-> u, gpu |-> g,
                     start |-> start, end |-> end, ram |-> ram,
                     total |-> gpus[g].ram, limit |-> gpuLimit[u], reg |-> reg]
    <3>1. Known(q)
      OBVIOUS
    <3>2. Becomes(p, q)
      BY <2>1 DEF LoadForCreate
    <3> HIDE DEF q, Known
    <3> QED
      BY <1>2, <3>1, <3>2
  <2>2. ASSUME CheckServer(p) \/ CheckCount(p) \/ CheckRoom(p) \/ CheckGpus(p)
        PROVE  \A o \in Requests : Known(req'[o])
    <3>1. PICK s \in CreateStepNames : Becomes(p, [req[p] EXCEPT !.step = s])
      BY <2>2 DEF CheckServer, CheckCount, CheckRoom, CheckGpus,
                  CreateStepNames
    <3>2. req[p] \in Creating /\ req[p].step \in CreateStepNames
      BY <2>2, StateAt DEF CheckServer, CheckCount, CheckRoom, CheckGpus, At,
                           CreateStepNames
    <3> DEFINE q == [req[p] EXCEPT !.step = s]
    <3>3. q.ram = req[p].ram /\ q.gpu = req[p].gpu /\ q.total = req[p].total
      BY <3>2 DEF Creating
    <3>4. q.ram > 0
      BY <1>0, <2>2, <3>2, <3>3 DEF CheckServer, CheckCount, CheckRoom, CheckGpus,
                                    At, CreateStepNames
    <3>5. Becomes(p, q)
      BY <3>1
    <3>6. q.total = gpus[q.gpu].ram
      BY <1>0, <3>2, <3>3
    <3> HIDE DEF q
    <3>7. Known(q)
      BY <3>4, <3>6
    <3> HIDE DEF Known
    <3> QED
      BY <1>2, <3>5, <3>7
  <2>3. Insert(p) => \A o \in Requests : Known(req'[o])
    <3>1. Known(Idle)
      BY DEF Idle, CreateStepNames
    <3> HIDE DEF Known
    <3> QED
      BY <1>2, <3>1 DEF Insert
  <2> HIDE DEF Known
  <2> QED
    BY <1>3, <2>1, <2>2, <2>3 DEF CreateSteps
<1>4. ASSUME NEW p \in Requests, CancelSteps(p) \/ Fail(p)
      PROVE  \A o \in Requests : Known(req'[o])
  <2>1. Known(Idle)
    BY DEF Idle, CreateStepNames
  <2>2. \A S : Known([step |-> "cancel", rows |-> S])
    BY DEF CreateStepNames
  <2> HIDE DEF Known
  <2> QED
    BY <1>2, <1>4, <2>1, <2>2
    DEF CancelSteps, Fail, WriteCancel, LoadForCancel, LoadForUserCancel,
        LoadForCancelAll, LoadToCancel
<1>5. ASSUME req' = req PROVE \A o \in Requests : Known(req'[o])
  BY <1>0, <1>5
<1>6. \A o \in Requests : Known(req'[o])
  <2> HIDE DEF Known
  <2> QED
    BY <1>3, <1>4, <1>5 DEF StudentsNext, RaceTick, raceVars
<1> QED
  BY <1>0, <1>1, <1>6 DEF RoomFacts

LEMMA HeldIsInt ==
  ASSUME TypeOK', RamsPositive', NEW g, NEW t
  PROVE  Held(g, t)' \in Int
<1> DEFINE L == ActiveIn(res', g)
<1>1. IsList(L)
  BY ActiveInIs DEF TypeOK, RamsPositive, IsRow, Live
<1>2. Held(g, t)' = UsageAt(L, t)
  BY HeldIs
<1> HIDE DEF L
<1> QED
  BY <1>1, <1>2, UsageOfActive

LEMMA RoomStep ==
  ASSUME RamIsBounded, RaceTypeOK, RaceTypeOK', RoomFacts, RoomSum,
         StudentsNext \/ UNCHANGED raceVars
  PROVE  RoomFacts' /\ RoomSum'
<1>1. RoomFacts'
  BY FactsStep
<1>2. CASE \E p \in Requests : CheckRoom(p)
  BY <1>1, <1>2, CheckedRoom
<1>3. CASE \E p \in Requests : Insert(p)
  BY <1>1, <1>3, InsertedRoom
<1>4. CASE Fades /\ ~Resumes /\ OnlyLeft /\ gpus' = gpus
  <2> SUFFICES ASSUME NEW g \in Gpus, NEW t \in Instants
               PROVE  Held(g, t)' + WeightOf(Asked', Roomed(g, t)')
                        <= gpus'[g].ram + (Cardinality(Requests) - 1) * MostRam
    BY <1>1 DEF RoomSum
  <2>0. TypeOK /\ TypeOK' /\ RamsPositive /\ RamsPositive'
    BY <1>1 DEF RaceTypeOK, RoomFacts
  <2>1. Held(g, t)' <= Held(g, t)
    BY <1>4, <2>0, FadingKeepsRoom
  <2>2. Held(g, t)' \in Int
    BY <2>0, HeldIsInt
  <2>3. /\ \A o \in Requests : o \in Roomed(g, t)' => o \in Roomed(g, t)
        /\ \A o \in Requests : o \in Roomed(g, t)' => Asked'[o] = Asked[o]
    BY <1>4, SameRoomed DEF OnlyLeft
  <2>4. Roomed(g, t)' \subseteq Requests
    BY DEF Roomed
  <2> QED
    BY <1>4, <2>1, <2>2, <2>3, <2>4, RoomStays
<1> QED
  BY <1>1, <1>2, <1>3, <1>4, StudentsMove

LEMMA RoomInit ==
  ASSUME RamIsBounded, RaceInit
  PROVE  RoomFacts /\ RoomSum
<1>1. RaceTypeOK
  BY RaceTypeInit
<1>2. RoomFacts
  BY DEF RaceInit, Init, RoomFacts, RamsPositive, IsRow, Idle, CreateStepNames
<1>3. ASSUME NEW g \in Gpus, NEW t \in Instants
      PROVE  Held(g, t) + WeightOf(Asked, Roomed(g, t))
               <= gpus[g].ram + (Cardinality(Requests) - 1) * MostRam
  <2>1. Roomed(g, t) = {}
    BY DEF RaceInit, Roomed, RoomSteps, Idle
  <2>2. WeightOf(Asked, Roomed(g, t)) = 0
    BY <2>1, WeightOfNone
  <2>3. Held(g, t) = 0
    <3> DEFINE L == ActiveIn(res, g)
    <3>0. \A r \in Rids : res[r] = NoRow
      BY DEF RaceInit, Init
    <3>1. /\ IsList(L)
          /\ ActiveAt(L, t) =
               {r \in Rids : /\ res[r] # NoRow /\ res[r].gpu = g
                             /\ res[r].status = "ACTIVE"
                             /\ res[r].start <= t /\ t < res[r].end}
      BY <1>1, <3>0, ActiveInIs DEF RaceTypeOK, TypeOK
    <3>a. ActiveAt(L, t) = {}
      BY <3>0, <3>1
    <3>2. Held(g, t) = UsageAt(L, t)
      BY HeldIs
    <3> HIDE DEF L
    <3> QED
      BY <3>1, <3>a, <3>2, UsageOfActive, WeightOfNone
  <2>4. gpus[g].ram \in Nat
    BY RamsAssumption DEF RaceInit, Init
  <2>5. Cardinality(Requests) - 1 \in Nat /\ MostRam \in Nat
    <3>1. IsFiniteSet(Requests) /\ Requests # {} /\ MostRam \in Nat
      BY DEF RamIsBounded
    <3>2. Cardinality(Requests) \in Nat
      BY <3>1, FS_CardinalityType
    <3>3. Cardinality(Requests) # 0
      BY <3>1, FS_EmptySet
    <3> QED
      BY <3>1, <3>2, <3>3
  <2> DEFINE n == Cardinality(Requests) - 1
  <2> HIDE DEF n
  <2>6. n * MostRam \in Nat
    BY <2>5 DEF n
  <2> QED
    BY <2>2, <2>3, <2>4, <2>6 DEF n
<1> QED
  BY <1>2, <1>3 DEF RoomSum

LEMMA RoomEnough ==
  ASSUME RamIsBounded, RaceTypeOK, RoomFacts, RoomSum
  PROVE  OverfillIsBounded
<1> SUFFICES ASSUME NEW g \in Gpus, NEW t \in Instants
             PROVE  Held(g, t)
                      <= gpus[g].ram + (Cardinality(Requests) - 1) * MostRam
  BY DEF OverfillIsBounded
<1> DEFINE P == Roomed(g, t)
           B == gpus[g].ram + (Cardinality(Requests) - 1) * MostRam
<1>1. Held(g, t) + WeightOf(Asked, P) <= B
  BY DEF RoomSum
<1>2. P \in SUBSET Requests
  BY DEF Roomed
<1>3. \A o \in P : Asked[o] \in Int /\ Asked[o] > 0
  BY RoomNumbers DEF Roomed, RoomSteps, CreateStepNames
<1>4. Held(g, t) \in Int /\ B \in Int /\ IsFiniteSet(P)
  BY <1>2, RoomNumbers
<1> HIDE DEF P, B
<1>5. WeightOf(Asked, {}) <= WeightOf(Asked, P) /\ WeightOf(Asked, {}) = 0
  BY <1>3, <1>4, WeightGrows, WeightOfNone
<1>6. WeightOf(Asked, P) \in Int
  BY <1>3, <1>4, WeightType
<1>7. Held(g, t) <= B
  BY <1>1, <1>4, <1>5, <1>6
<1> QED
  BY <1>7 DEF B

(* Bookings and cancellations by any number of threads overfill a GPU by   *)
(* the largest amount for every thread beyond the first, at most.          *)
THEOREM OverfillIsBoundedByThreads ==
  ASSUME Kinds \subseteq {"create", "cancel", "bulk"},
         IsFiniteSet(Requests), Requests # {},
         IsFiniteSet(Rams), Rams \cap Nat # {}
  PROVE  RaceSpec => []OverfillIsBounded
<1>0. RamIsBounded
  BY MostRamIs DEF RamIsBounded
<1>1. RaceInit => OnlyBooksAndCancels /\ RoomFacts /\ RoomSum
  BY <1>0, RoomInit DEF RaceInit, OnlyBooksAndCancels, Idle
<1>2. RaceTypeOK /\ RaceTypeOK' /\ OnlyBooksAndCancels /\ RoomFacts /\ RoomSum
        /\ [RaceNext]_raceVars
          => OnlyBooksAndCancels' /\ RoomFacts' /\ RoomSum'
  BY <1>0, BooksAndCancelsStep, RoomStep
<1>3. RaceTypeOK /\ RoomFacts /\ RoomSum => OverfillIsBounded
  BY <1>0, RoomEnough
<1> QED
  BY <1>1, <1>2, <1>3, RaceTyped, PTL DEF RaceSpec

-----------------------------------------------------------------------------
(***************************************************************************)
(* The same two bounds beside the administrator.  Switching off, deleting, *)
(* granting and revoking, and everything else that is written meanwhile,   *)
(* only lets rows go; what moves a bound is a resume, which looks at no    *)
(* limit, or a new limit or size.                                          *)
(***************************************************************************)
BookingsStand ==
  \A o \in Requests : req'[o].step \in CreateStepNames => req'[o] = req[o]
SameSizes == \A g \in Gpus : gpus'[g].ram = gpus[g].ram

LEMMA SuspendedFades ==
  ASSUME TypeOK, NEW G, res' = Suspended(G), now' = now
  PROVE  Fades
<1>1. ASSUME NEW r \in Rids, IsRow(r)', Live(r)'
      PROVE  /\ IsRow(r) /\ Live(r) /\ SameTerms(res'[r], r)
             /\ res'[r].start = res[r].start /\ res'[r].end = res[r].end
  BY <1>1, SuspendedRow DEF IsRow, Live
<1>2. now' >= now
  BY DEF TypeOK
<1> QED
  BY <1>1, <1>2 DEF Fades

(* Switching on resumes nothing where nothing is paused.                   *)
LEMMA NothingToResumeFades ==
  ASSUME TypeOK, NEW G, res' = Resumed(G), now' = now, ~Resumes
  PROVE  Fades
<1>1. ASSUME NEW r \in Rids PROVE res'[r] = res[r]
  <2>1. IsRow(r) /\ res[r].gpu \in G => res[r].status # "SUSPENDED"
    BY ResumedRow DEF Resumes, Rows
  <2> QED
    BY <2>1, ResumedRow
<1>2. now' >= now
  BY DEF TypeOK
<1> QED
  BY <1>1, <1>2 DEF Fades, SameTerms, IsRow, Live

LEMMA LoadsFade ==
  ASSUME RaceTypeOK, NEW p \in Requests, NEW q, Becomes(p, q),
         q.step \notin CreateStepNames
  PROVE  BookingsStand
<1>1. req'[p] = q /\ \A o \in Requests : o # p => req'[o] = req[o]
  BY DEF Becomes, RaceTypeOK
<1> QED
  BY <1>1 DEF BookingsStand

(* What the administrator's threads do, seen from what is booked.          *)
LEMMA AdminsMove ==
  ASSUME RaceTypeOK, NEW p \in Requests, ~Resumes,
         SwitchSteps(p) \/ FleetSteps(p) \/ AccessSteps(p) \/ Settings(p)
  PROVE  Fades /\ BookingsStand
<1>0. TypeOK
  BY DEF RaceTypeOK
<1>1. ASSUME UNCHANGED res, now' = now PROVE Fades
  BY <1>0, <1>1, TablesFade
<1>2. Idle.step \notin CreateStepNames
  BY DEF Idle, CreateStepNames
<1>3. ASSUME Becomes(p, Idle) PROVE BookingsStand
  BY <1>2, <1>3, LoadsFade
<1>4. ASSUME SwitchSteps(p) PROVE Fades /\ BookingsStand
  <2>1. ASSUME NEW g \in Gpus, NEW on \in BOOLEAN, LoadGpuToSwitch(p, g, on)
        PROVE  Fades /\ BookingsStand
    <3> DEFINE q == [step |-> IF on THEN "gpu-on" ELSE "gpu-server", gpu |-> g]
    <3>1. Becomes(p, q) /\ UNCHANGED vars
      BY <2>1 DEF LoadGpuToSwitch, Reads
    <3>2. q.step \notin CreateStepNames
      BY DEF CreateStepNames
    <3> HIDE DEF q
    <3> QED
      BY <1>1, <3>1, <3>2, LoadsFade DEF vars
  <2>2. ASSUME LoadServerOfGpu(p) PROVE Fades /\ BookingsStand
    <3> DEFINE q == [step |-> "gpu-off", gpu |-> req[p].gpu,
                     was |-> servers[ServerOf[req[p].gpu]].active]
    <3>1. Becomes(p, q) /\ UNCHANGED vars
      BY <2>2 DEF LoadServerOfGpu, Reads
    <3>2. q.step \notin CreateStepNames
      BY DEF CreateStepNames
    <3> HIDE DEF q
    <3> QED
      BY <1>1, <3>1, <3>2, LoadsFade DEF vars
  <2>3. ASSUME NEW s \in Servers, NEW on \in BOOLEAN,
               LoadServerToSwitch(p, s, on)
        PROVE  Fades /\ BookingsStand
    <3> DEFINE q == [step |-> "server-switch", server |-> s, on |-> on]
    <3>1. Becomes(p, q) /\ UNCHANGED vars
      BY <2>3 DEF LoadServerToSwitch, Reads
    <3>2. q.step \notin CreateStepNames
      BY DEF CreateStepNames
    <3> HIDE DEF q
    <3> QED
      BY <1>1, <3>1, <3>2, LoadsFade DEF vars
  <2>4. ASSUME NEW G, res' \in {Suspended(G), Resumed(G), res}, now' = now
        PROVE  Fades
    BY <1>0, <1>1, <2>4, SuspendedFades, NothingToResumeFades
  <2>5. ASSUME WriteGpuOff(p) \/ WriteGpuOn(p) PROVE Fades /\ BookingsStand
    BY <1>3, <2>4, <2>5 DEF WriteGpuOff, WriteGpuOn
  <2>6. ASSUME WriteServerSwitch(p) PROVE Fades /\ BookingsStand
    <3> DEFINE on == {g \in GpusOf(req[p].server) : gpus[g].active}
    <3>1. /\ res' \in {Suspended(GpusOf(req[p].server)), Resumed(on)}
          /\ now' = now /\ Becomes(p, Idle)
      BY <2>6 DEF WriteServerSwitch
    <3> HIDE DEF on
    <3> QED
      BY <1>3, <2>4, <3>1
  <2> QED
    BY <1>4, <2>1, <2>2, <2>3, <2>5, <2>6 DEF SwitchSteps
<1>5. ASSUME FleetSteps(p) PROVE Fades /\ BookingsStand
  <2>1. ASSUME NEW q, Becomes(p, q), UNCHANGED vars,
               q.step \in {"register-server", "register-gpu", "delete-rows",
                           "delete"}
        PROVE  Fades /\ BookingsStand
    BY <1>1, <2>1, LoadsFade DEF CreateStepNames, vars
  <2>2. ASSUME NEW s \in Servers, LoadToRegister(p, s)
        PROVE  Fades /\ BookingsStand
    <3> DEFINE q == [step |-> "register-server", server |-> s,
                     old |-> servers[s]]
    <3>1. Becomes(p, q) /\ UNCHANGED vars /\ q.step = "register-server"
      BY <2>2 DEF LoadToRegister, Reads
    <3> HIDE DEF q
    <3> QED
      BY <2>1, <3>1
  <2>3. ASSUME NEW g \in Gpus, NEW m \in GpuRams, LoadToAddGpu(p, g, m)
        PROVE  Fades /\ BookingsStand
    <3> DEFINE q == [step |-> "register-gpu", gpu |-> g, ram |-> m,
                     old |-> gpus[g]]
    <3>1. Becomes(p, q) /\ UNCHANGED vars /\ q.step = "register-gpu"
      BY <2>3 DEF LoadToAddGpu, Reads
    <3> HIDE DEF q
    <3> QED
      BY <2>1, <3>1
  <2>4. ASSUME NEW G, NEW S, LoadToDelete(p, G, S)
        PROVE  Fades /\ BookingsStand
    <3> DEFINE q(first) == [step |-> "delete-rows", first |-> first,
                            gpus |-> [g \in G |-> gpus[g]],
                            servers |-> [s \in S |-> servers[s]]]
    <3>1. PICK first \in SUBSET G : Becomes(p, q(first))
      BY <2>4 DEF LoadToDelete
    <3>2. UNCHANGED vars /\ q(first).step = "delete-rows"
      BY <2>4 DEF LoadToDelete, Reads
    <3> HIDE DEF q
    <3> QED
      BY <2>1, <3>1, <3>2
  <2>5. ASSUME LoadRowsToDelete(p) PROVE Fades /\ BookingsStand
    <3> DEFINE q == [step |-> "delete", gpus |-> req[p].gpus,
                     servers |-> req[p].servers, first |-> req[p].first,
                     rows |-> LiveOn(req[p].first)]
    <3>1. Becomes(p, q) /\ UNCHANGED vars /\ q.step = "delete"
      BY <2>5 DEF LoadRowsToDelete, Reads
    <3> HIDE DEF q
    <3> QED
      BY <2>1, <3>1
  <2>6. ASSUME WriteServer(p) \/ WriteGpu(p) PROVE Fades /\ BookingsStand
    BY <1>1, <1>3, <2>6 DEF WriteServer, WriteGpu
  <2>7. ASSUME WriteDelete(p) PROVE Fades /\ BookingsStand
    <3> DEFINE S == req[p].rows \cup LiveOn(DOMAIN req[p].gpus \ req[p].first)
    <3>1. S \in SUBSET Rows
      BY <2>7, DeletedRows
    <3>2. res' = Cancelled(S) /\ now' = now /\ Becomes(p, Idle)
      BY <2>7 DEF WriteDelete
    <3> HIDE DEF S
    <3> QED
      BY <1>0, <1>3, <3>1, <3>2, CancelledFades
  <2> QED
    BY <1>5, <2>2, <2>3, <2>4, <2>5, <2>6, <2>7
    DEF FleetSteps, LoadToDeleteGpu, LoadToDeleteServer
<1>6. ASSUME AccessSteps(p) PROVE Fades /\ BookingsStand
  <2>1. ASSUME NEW u \in Users, NEW S \in SUBSET Servers, LoadAccess(p, u, S)
        PROVE  Fades /\ BookingsStand
    <3> DEFINE q == [step |-> "access", user |-> u, new |-> S,
                     old |-> access[u]]
    <3>1. Becomes(p, q) /\ UNCHANGED vars
      BY <2>1 DEF LoadAccess, Reads
    <3>2. q.step \notin CreateStepNames
      BY DEF CreateStepNames
    <3> HIDE DEF q
    <3> QED
      BY <1>1, <3>1, <3>2, LoadsFade DEF vars
  <2>2. ASSUME WriteAccess(p) PROVE Fades /\ BookingsStand
    <3> DEFINE S == HeldOn(req[p].user, req[p].old \ req[p].new)
    <3>1. S \in SUBSET Rows
      BY DEF HeldOn
    <3>2. res' = Cancelled(S) /\ now' = now /\ Becomes(p, Idle)
      BY <2>2 DEF WriteAccess
    <3> HIDE DEF S
    <3> QED
      BY <1>0, <1>3, <3>1, <3>2, CancelledFades
  <2> QED
    BY <1>6, <2>1, <2>2 DEF AccessSteps
<1>7. ASSUME Settings(p) PROVE Fades /\ BookingsStand
  <2>1. BookingsStand
    BY <1>7 DEF Settings, BookingsStand
  <2>2. ASSUME NEW u \in Users, DeleteUser(u) PROVE Fades
    <3>1. \A r \in Rids : IsRow(r)' => IsRow(r) /\ res'[r] = res[r]
      BY <2>2 DEF DeleteUser, IsRow
    <3>2. now' >= now
      BY <1>0, <2>2 DEF DeleteUser, TypeOK
    <3> QED
      BY <3>1, <3>2 DEF Fades, SameTerms, Live
  <2> QED
    BY <1>1, <1>7, <2>1, <2>2
    DEF Settings, UserSettings, SetMaxConcurrentGpus, UpdateRegulation
<1> QED
  BY <1>4, <1>5, <1>6, <1>7

LEMMA RaceMoves ==
  ASSUME RaceTypeOK, [RaceNext]_raceVars, [~Resumes]_raceVars
  PROVE  StudentsNext \/ UNCHANGED raceVars \/ (Fades /\ ~Resumes /\ BookingsStand)
<1>1. CASE UNCHANGED raceVars
  BY <1>1
<1>2. CASE RaceNext /\ ~Resumes
  BY <1>2, AdminsMove DEF RaceNext, StudentsNext
<1> QED
  BY <1>1, <1>2

LEMMA AdminsKeepCount ==
  ASSUME IsFiniteSet(Requests), RaceTypeOK, RaceTypeOK', CountInv,
         Fades, BookingsStand, reg' = reg
  PROVE  CountInv'
<1>1. ASSUME NEW u \in Users PROVE HeldUpcoming(u)' \subseteq HeldUpcoming(u)
  <2> SUFFICES ASSUME NEW r \in Rids, IsRow(r)', Live(r)',
                      res'[r].user = u, res'[r].end > now'
               PROVE  IsRow(r) /\ Live(r) /\ res[r].user = u /\ res[r].end > now
    BY DEF HeldUpcoming, Rows
  <2>1. /\ IsRow(r) /\ Live(r) /\ SameTerms(res'[r], r)
        /\ res'[r].end = res[r].end /\ now' >= now
    BY DEF Fades
  <2>2. res[r].end \in Nat /\ now \in Nat /\ now' \in Nat
    BY <2>1, RowRange DEF RaceTypeOK, TypeOK
  <2> QED
    BY <2>1, <2>2 DEF SameTerms
<1>2. \A u : Passed(u)' \subseteq Passed(u)
  BY DEF BookingsStand, Passed, PassedSteps, CreateStepNames
<1>3. \A o \in Requests : req'[o].step \in CreateStepNames => req'[o].reg = reg'
  BY DEF BookingsStand, CountInv
<1> QED
  BY <1>1, <1>2, <1>3, LoweredCount DEF CountInv

(* Whatever else the threads do, a student holds at most one reservation   *)
(* more than the limit for every thread beyond the first, as long as       *)
(* nothing paused resumes and the regulation stays.                        *)
THEOREM CountIsBoundedWithoutResumes ==
  ASSUME IsFiniteSet(Requests), Requests # {}
  PROVE  RaceSpec /\ [][~Resumes /\ reg' = reg]_raceVars => []CountIsBounded
<1>1. RaceInit => CountInv
  BY CountInit
<1>2. /\ RaceTypeOK /\ RaceTypeOK' /\ CountInv /\ [RaceNext]_raceVars
      /\ [~Resumes /\ reg' = reg]_raceVars
      => CountInv'
  <2> SUFFICES ASSUME RaceTypeOK, RaceTypeOK', CountInv, [RaceNext]_raceVars,
                      [~Resumes /\ reg' = reg]_raceVars
               PROVE  CountInv'
    OBVIOUS
  <2>1. CASE StudentsNext \/ UNCHANGED raceVars
    BY <2>1, CountStep
  <2>2. CASE Fades /\ ~Resumes /\ BookingsStand /\ ~UNCHANGED raceVars
    BY <2>2, AdminsKeepCount
  <2> QED
    BY <2>1, <2>2, RaceMoves
<1>3. RaceTypeOK /\ CountInv => CountIsBounded
  BY CountEnough
<1> QED
  BY <1>1, <1>2, <1>3, RaceTyped, PTL DEF RaceSpec

LEMMA RoomAmongAdmins ==
  ASSUME RamIsBounded, RaceTypeOK, RaceTypeOK', RoomFacts, RoomSum,
         Fades, ~Resumes, BookingsStand, SameSizes
  PROVE  RoomFacts' /\ RoomSum'
<1>1. RamsPositive'
  BY DEF RoomFacts, Fades, SameTerms, RamsPositive
<1>2. ASSUME NEW o \in Requests, req'[o].step \in CreateStepNames
      PROVE  /\ req'[o].total = gpus'[req'[o].gpu].ram
             /\ req'[o].step # "create-server" => req'[o].ram > 0
  <2>1. req'[o] = req[o]
    BY <1>2 DEF BookingsStand
  <2>2. req[o] \in Creating
    BY <1>2, <2>1, StateAt
  <2>3. req[o].gpu \in Gpus
    BY <2>2 DEF Creating
  <2> QED
    BY <1>2, <2>1, <2>3 DEF RoomFacts, SameSizes
<1>3. RoomFacts'
  BY <1>1, <1>2 DEF RoomFacts
<1>4. OnlyLeft
  BY DEF OnlyLeft, SameRequest, BookingsStand, RoomSteps, CreateStepNames
<1>5. RoomSum'
  <2> SUFFICES ASSUME NEW g \in Gpus, NEW t \in Instants
               PROVE  Held(g, t)' + WeightOf(Asked', Roomed(g, t)')
                        <= gpus'[g].ram + (Cardinality(Requests) - 1) * MostRam
    BY DEF RoomSum
  <2>0. TypeOK /\ TypeOK' /\ RamsPositive /\ RamsPositive'
    BY <1>1 DEF RaceTypeOK, RoomFacts
  <2>1. Held(g, t)' <= Held(g, t)
    BY <2>0, FadingKeepsRoom
  <2>2. Held(g, t)' \in Int
    BY <2>0, HeldIsInt
  <2>3. /\ \A o \in Requests : o \in Roomed(g, t)' => o \in Roomed(g, t)
        /\ \A o \in Requests : o \in Roomed(g, t)' => Asked'[o] = Asked[o]
    BY <1>4, SameRoomed DEF OnlyLeft
  <2>4. Roomed(g, t)' \subseteq Requests
    BY DEF Roomed
  <2>5. gpus'[g].ram = gpus[g].ram
    BY DEF SameSizes
  <2> QED
    BY <2>1, <2>2, <2>3, <2>4, <2>5, RoomStays
<1> QED
  BY <1>3, <1>5

(* Nor is a GPU overfilled by more than the largest amount for every       *)
(* thread beyond the first, as long as nothing paused resumes and the GPUs *)
(* keep their size, whatever is switched off, deleted or revoked meanwhile.*)
THEOREM OverfillIsBoundedWithoutResumes ==
  ASSUME IsFiniteSet(Requests), Requests # {},
         IsFiniteSet(Rams), Rams \cap Nat # {}
  PROVE  RaceSpec /\ [][~Resumes /\ SameSizes]_raceVars => []OverfillIsBounded
<1>0. RamIsBounded
  BY MostRamIs DEF RamIsBounded
<1>1. RaceInit => RoomFacts /\ RoomSum
  BY <1>0, RoomInit
<1>2. /\ RaceTypeOK /\ RaceTypeOK' /\ RoomFacts /\ RoomSum
      /\ [RaceNext]_raceVars /\ [~Resumes /\ SameSizes]_raceVars
      => RoomFacts' /\ RoomSum'
  <2> SUFFICES ASSUME RaceTypeOK, RaceTypeOK', RoomFacts, RoomSum,
                      [RaceNext]_raceVars, [~Resumes /\ SameSizes]_raceVars
               PROVE  RoomFacts' /\ RoomSum'
    OBVIOUS
  <2>1. CASE StudentsNext \/ UNCHANGED raceVars
    BY <1>0, <2>1, RoomStep
  <2>2. CASE Fades /\ ~Resumes /\ BookingsStand /\ ~UNCHANGED raceVars
    BY <1>0, <2>2, RoomAmongAdmins
  <2> QED
    BY <2>1, <2>2, RaceMoves
<1>3. RaceTypeOK /\ RoomFacts /\ RoomSum => OverfillIsBounded
  BY <1>0, RoomEnough
<1> QED
  BY <1>1, <1>2, <1>3, RaceTyped, PTL DEF RaceSpec

-----------------------------------------------------------------------------
(***************************************************************************)
(* The same of the regimes TLC runs, and what is told of the pauses there. *)
(***************************************************************************)
RegimeInv ==
  /\ regime = "students" => RaceTypeOK /\ CountInv
  /\ regime = "notices" => TypeOK /\ FleetInv /\ InboxOK

LEMMA RegimeInvInit ==
  ASSUME IsFiniteSet(Requests), RegimeInit
  PROVE  RegimeInv
<1>1. RaceTypeOK /\ TypeOK /\ FleetInv /\ InboxOK
  BY RaceTypeInit, TypeInit, FleetInit
  DEF RegimeInit, RaceInit, NotesInit, InboxOK
<1>2. regime = "students" => CountInv
  BY CountInit DEF RegimeInit
<1> QED
  BY <1>1, <1>2 DEF RegimeInv

LEMMA RegimeInvStep ==
  ASSUME IsFiniteSet(Requests), RegimeInv, [RegimeNext]_regimeVars
  PROVE  RegimeInv'
<1>1. regime' = regime
  BY DEF RegimeNext, regimeVars
<1>2. CASE regime = "students"
  <2>1. RaceTypeOK /\ CountInv /\ (StudentsNext \/ UNCHANGED raceVars)
    BY <1>2 DEF RegimeInv, RegimeNext, regimeVars
  <2>2. CountInv'
    BY <2>1, CountStep
  <2>3. RaceTypeOK'
    BY <2>1, StudentsRace, RaceTypeStep
  <2> QED
    BY <1>1, <1>2, <2>2, <2>3 DEF RegimeInv
<1>3. CASE regime = "notices"
  <2>1. /\ TypeOK /\ FleetInv /\ InboxOK
        /\ [NotesNext]_noteVars
    BY <1>3 DEF RegimeInv, RegimeNext, regimeVars, raceVars, noteVars
  <2>2. TypeOK' /\ FleetInv' /\ InboxOK'
    BY <2>1, StepOfBooking, TypeStep, FleetStep, InboxStep
  <2> QED
    BY <1>1, <1>3, <2>2 DEF RegimeInv
<1>4. CASE regime # "students" /\ regime # "notices"
  BY <1>1, <1>4 DEF RegimeInv
<1> QED
  BY <1>2, <1>3, <1>4

(* However two bookings, or a booking and a cancellation, interleave.      *)
THEOREM StudentsCountBounded ==
  ASSUME IsFiniteSet(Requests)
  PROVE  RegimeSpec => []StudentsCountIsBounded
<1>1. RegimeInv => StudentsCountIsBounded
  BY CountEnough DEF RegimeInv, StudentsCountIsBounded
<1> QED
  BY <1>1, RegimeInvInit, RegimeInvStep, PTL DEF RegimeSpec

(* However bookings and cancellations interleave, a GPU is overfilled by   *)
(* one booking at most for every thread but one.                           *)
THEOREM StudentsOverfillBounded ==
  ASSUME IsFiniteSet(Requests), Requests # {},
         IsFiniteSet(Rams), Rams \cap Nat # {}
  PROVE  RegimeSpec => []StudentsOverfillIsBounded
<1> DEFINE Room == regime = "students" => RoomFacts /\ RoomSum
<1>0. RamIsBounded
  BY MostRamIs DEF RamIsBounded
<1>1. RegimeInit => Room
  BY <1>0, RoomInit DEF RegimeInit
<1>2. RegimeInv /\ RegimeInv' /\ Room /\ [RegimeNext]_regimeVars => Room'
  <2> SUFFICES ASSUME RegimeInv, RegimeInv', Room, [RegimeNext]_regimeVars,
                      regime' = "students"
               PROVE  RoomFacts' /\ RoomSum'
    OBVIOUS
  <2>1. regime = "students"
    BY DEF RegimeNext, regimeVars
  <2>2. /\ RaceTypeOK /\ RaceTypeOK' /\ RoomFacts /\ RoomSum
        /\ StudentsNext \/ UNCHANGED raceVars
    BY <2>1 DEF RegimeInv, RegimeNext, regimeVars
  <2> QED
    BY <1>0, <2>2, RoomStep
<1>3. RegimeInv /\ Room => StudentsOverfillIsBounded
  BY <1>0, RoomEnough DEF RegimeInv, StudentsOverfillIsBounded
<1>4. IsFiniteSet(Requests)
  OBVIOUS
<1> QED
  BY <1>1, <1>2, <1>3, <1>4, RegimeInvInit, RegimeInvStep, PTL DEF RegimeSpec

(* No pause and no end of a pause goes without a word to the owner.        *)
THEOREM NoticesTold ==
  ASSUME IsFiniteSet(Requests)
  PROVE  RegimeSpec => NoticesAreTold
<1>1. RegimeInv /\ [RegimeNext]_regimeVars
        => [regime = "notices" => ToldStep]_regimeVars
  <2> SUFFICES ASSUME RegimeInv, RegimeNext, regime = "notices"
               PROVE  ToldStep
    OBVIOUS
  <2>1. TypeOK /\ FleetInv /\ InboxOK /\ NotesNext
    BY DEF RegimeInv, RegimeNext
  <2> QED
    BY <2>1, GpuSwitchIsTold, ServerSwitchIsTold, SilentTurnsNothing
    DEF NotesNext, Dismiss, vars
<1> QED
  BY <1>1, RegimeInvInit, RegimeInvStep, PTL DEF RegimeSpec, NoticesAreTold
===============================================================================
