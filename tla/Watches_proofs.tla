---------------------------- MODULE Watches_proofs ----------------------------
(***************************************************************************)
(* Proofs about Watches: the requests, the poll taken apart, its aborts.   *)
(* The fairness of the specification plays no part in them.                *)
(***************************************************************************)
EXTENDS Watches, Booking_proofs

-----------------------------------------------------------------------------
(***************************************************************************)
(* The state of the poll.  What an abort would put back is good as well:   *)
(* its watches wait for GPUs that are there, whatever is still pending is  *)
(* pending there too, and it holds no reservation that is not there now    *)
(* or differs from what is there now.                                      *)
(***************************************************************************)
WatchRow ==
  [user : Users, gpu : Gpus, start : 0..MaxTime, end : 0..MaxTime, ram : Rams,
   active : BOOLEAN, booked : BOOLEAN, created : Nat]
WatchTable == [Wids -> WatchRow \cup {NoRow}]
ResTable == [Rids -> Row \cup {NoRow}]
FoundWatches == UNION {[W -> WatchRow] : W \in SUBSET Wids}
Polls ==
  [at : {"polling"}, rg : Regulations,
   undo : {<<>>} \cup (ResTable \X WatchTable),
   found : FoundWatches, servers : SUBSET Servers, gpus : SUBSET Gpus,
   rams : [Gpus -> Int], limit : Nat,
   step : {"next", "count", "room", "gpus", "insert"}]

PollTypeOK == poll \in {Idle, [at |-> "aborted"]} \cup Polls

GoodWatches(ws, gs) ==
  /\ ws \in WatchTable
  /\ \A w \in Wids : ws[w] # NoRow =>
       gs[ws[w].gpu].present /\ (ws[w].active => ~ws[w].booked)
UndoOK ==
  Locked =>
    /\ GoodWatches(poll.undo[2], gpus)
    /\ \A w \in Wids : Pending(w) => poll.undo[2][w] = watches[w]
    /\ \A r \in Rids : poll.undo[1][r] # NoRow => poll.undo[1][r] = res[r]

(* What an attempt has checked.  The window is good whatever requests come *)
(* in between, since the clock stands still; the answers of the queries    *)
(* are good for as long as the poll holds the lock.                        *)
Past(steps) == poll.step \in steps
Admitted(w) ==
  LET x == poll.found[w]
  IN  /\ InRules(x, poll.rg, poll.rams[x.gpu])
      /\ Locked =>
           /\ poll.limit = gpuLimit[x.user]
           /\ Past({"room", "gpus", "insert"}) => CountLeft(x, poll.rg)
           /\ Past({"gpus", "insert"}) =>
                HasRoom(x, poll.rg, poll.rams[x.gpu])
           /\ Past({"insert"}) => GpuLeft(x, poll.rg, poll.limit)
AttemptOK ==
  Attempting => Trying /\ \A w \in Wids : Foremost(w) => Admitted(w)

WatchesInv ==
  /\ TypeOK
  /\ GoodWatches(watches, gpus)
  /\ PollTypeOK
  /\ UndoOK
  /\ AttemptOK

LEMMA PollFields ==
  ASSUME PollTypeOK, Polling
  PROVE  /\ poll \in Polls
         /\ poll.rg \in Regulations /\ poll.found \in FoundWatches
         /\ DOMAIN poll.found \subseteq Wids
         /\ \A w \in DOMAIN poll.found : poll.found[w] \in WatchRow
         /\ poll.rams \in [Gpus -> Int] /\ poll.limit \in Nat
<1>1. poll # Idle /\ poll # [at |-> "aborted"]
  BY DEF Polling, Idle
<1>2. poll \in Polls
  BY <1>1 DEF PollTypeOK
<1>3. /\ poll.rg \in Regulations /\ poll.found \in FoundWatches
      /\ poll.rams \in [Gpus -> Int] /\ poll.limit \in Nat
  BY <1>2 DEF Polls
<1> QED
  BY <1>2, <1>3 DEF FoundWatches

LEMMA RestIsFound ==
  ASSUME PollTypeOK, Polling, NEW w
  PROVE  Rest(w) \in FoundWatches
<1> DEFINE W == DOMAIN poll.found \ {w}
<1>1. W \in SUBSET Wids /\ \A v \in W : poll.found[v] \in WatchRow
  BY PollFields
<1>2. Rest(w) = [v \in W |-> poll.found[v]]
  BY DEF Rest
<1> HIDE DEF W
<1>3. Rest(w) \in [W -> WatchRow]
  BY <1>1, <1>2
<1> QED
  BY <1>1, <1>3 DEF FoundWatches

LEMMA LockedUndo ==
  ASSUME PollTypeOK, Locked
  PROVE  poll.undo[1] \in ResTable /\ poll.undo[2] \in WatchTable
<1>1. poll \in Polls
  BY PollFields DEF Locked, Polling
<1>2. poll.undo \in ResTable \X WatchTable
  BY <1>1 DEF Polls, Locked
<1> QED
  BY <1>2

(* The foremost watch is one.                                              *)
LEMMA OnlyForemost ==
  ASSUME NEW v \in Wids, NEW w \in Wids, Foremost(v), Foremost(w)
  PROVE  v = w
<1>1. v <= w /\ w <= v
  BY DEF Foremost
<1> QED
  BY <1>1 DEF Wids

LEMMA ForemostIs ==
  ASSUME PollTypeOK, NEW w, Foremost(w)
  PROVE  /\ Polling /\ poll \in Polls /\ w \in Wids
         /\ poll.found[w] \in WatchRow /\ poll.rg \in Regulations
         /\ poll.found[w].user \in Users /\ poll.found[w].gpu \in Gpus
         /\ poll.found[w].ram \in Rams /\ poll.found[w].ram \in Int
<1>1. Polling /\ w \in DOMAIN poll.found
  BY DEF Foremost
<1>2. /\ poll \in Polls /\ w \in Wids /\ poll.rg \in Regulations
      /\ poll.found[w] \in WatchRow
  BY <1>1, PollFields
<1> QED
  BY <1>1, <1>2, RamsAssumption DEF WatchRow

(* No attempt, nothing to say; and a request that comes in between leaves  *)
(* what was said of the window.                                            *)
LEMMA NoAttempt ==
  ASSUME ~Attempting'
  PROVE  AttemptOK'
  BY DEF AttemptOK

LEMMA WindowStays ==
  ASSUME now' = now, NEW x, NEW rg
  PROVE  /\ WindowStart(x, rg)' = WindowStart(x, rg)
         /\ WindowEnd(x, rg)' = WindowEnd(x, rg)
         /\ \A total : InRules(x, rg, total)' = InRules(x, rg, total)
  BY DEF InRules, WindowStart, WindowEnd, FloorToSlot, AlignDownToSlot, Later,
         Earlier, AlignedTo

LEMMA AttemptStays ==
  ASSUME AttemptOK, ~Locked, poll' = poll, now' = now
  PROVE  AttemptOK'
<1> SUFFICES ASSUME Attempting'
             PROVE  Trying' /\ \A w \in Wids : Foremost(w)' => Admitted(w)'
  BY DEF AttemptOK
<1>1. Attempting /\ ~Locked'
  BY DEF Attempting, Polling, Locked
<1>2. Trying'
  BY <1>1 DEF AttemptOK, Trying
<1>3. ASSUME NEW w \in Wids, Foremost(w)' PROVE Admitted(w)'
  <2>1. Foremost(w)
    BY <1>3 DEF Foremost, Polling
  <2>2. InRules(poll.found[w], poll.rg, poll.rams[poll.found[w].gpu])
    BY <1>1, <2>1 DEF AttemptOK, Admitted
  <2>3. InRules(poll.found[w], poll.rg, poll.rams[poll.found[w].gpu])'
    BY <2>2, WindowStays
  <2> QED
    BY <1>1, <2>3 DEF Admitted
<1> QED
  BY <1>2, <1>3

(* Requests change the watches only while nothing can be put back.         *)
LEMMA UnlockedStep ==
  ASSUME WatchesInv, ~Locked, poll' = poll, now' = now, TypeOK',
         GoodWatches(watches, gpus)'
  PROVE  WatchesInv'
<1>1. ~Locked'
  BY DEF Locked
<1>2. AttemptOK'
  BY AttemptStays DEF WatchesInv
<1> QED
  BY <1>1, <1>2 DEF WatchesInv, PollTypeOK, UndoOK

LEMMA WithoutIsGood ==
  ASSUME WatchesInv, NEW S, watches' = Without(S),
         \A w \in Wids \ S : IsWatch(w) => gpus'[watches[w].gpu].present
  PROVE  GoodWatches(watches, gpus)'
  BY DEF WatchesInv, GoodWatches, Without, WatchTable, IsWatch

LEMMA CreateWatchStep ==
  ASSUME WatchesInv, NEW u \in Users, NEW g \in Gpus, NEW start \in 0..MaxTime,
         NEW end \in 0..MaxTime, NEW ram \in Rams,
         CreateWatch(u, g, start, end, ram)
  PROVE  WatchesInv' /\ ConsumedStep
<1> DEFINE new == [user |-> u, gpu |-> g, start |-> start, end |-> end,
                   ram |-> ram, active |-> TRUE, booked |-> FALSE,
                   created |-> now]
<1>1. PICK w \in Wids : IsNextWid(w) /\ watches' = [watches EXCEPT ![w] = new]
  BY DEF CreateWatch
<1>2. /\ new \in WatchRow /\ new.gpu = g /\ ~new.booked
      /\ gpus[g].present
  BY DEF CreateWatch, WatchRow, WatchesInv, TypeOK
<1>3. ~Locked /\ UNCHANGED <<vars, poll>>
  BY DEF CreateWatch
<1>4. ~IsWatch(w)
  <2>1. w \in Int
    BY <1>1 DEF Wids
  <2> QED
    BY <1>1, <2>1 DEF IsNextWid
<1> HIDE DEF new
<1>5. /\ watches' \in WatchTable /\ watches'[w] = new
      /\ \A v \in Wids : v # w => watches'[v] = watches[v]
  BY <1>1, <1>2 DEF WatchesInv, GoodWatches, WatchTable
<1>6. GoodWatches(watches, gpus)'
  BY <1>2, <1>3, <1>5 DEF WatchesInv, GoodWatches, vars
<1>7. TypeOK'
  BY <1>3 DEF WatchesInv, TypeOK, vars
<1>8. ConsumedStep
  BY <1>4, <1>5 DEF ConsumedStep, Pending, IsWatch, WatchesInv, GoodWatches
<1> QED
  BY <1>3, <1>6, <1>7, <1>8, UnlockedStep DEF vars

LEMMA CancelWatchStep ==
  ASSUME WatchesInv, NEW w \in Wids, CancelWatch(w)
  PROVE  WatchesInv' /\ ConsumedStep
<1>1. watches[w] \in WatchRow
  BY DEF CancelWatch, IsWatch, WatchesInv, GoodWatches, WatchTable
<1> DEFINE new == [watches[w] EXCEPT !.active = FALSE]
<1>2. /\ new \in WatchRow /\ new.gpu = watches[w].gpu /\ ~new.active
      /\ new.booked = watches[w].booked
  BY <1>1 DEF WatchRow
<1>3. ~Locked /\ UNCHANGED <<vars, poll>> /\ IsWatch(w)
  BY DEF CancelWatch
<1>4. watches' = [watches EXCEPT ![w] = new]
  BY DEF CancelWatch
<1> HIDE DEF new
<1>5. /\ watches' \in WatchTable /\ watches'[w] = new
      /\ \A v \in Wids : v # w => watches'[v] = watches[v]
  BY <1>2, <1>4 DEF WatchesInv, GoodWatches, WatchTable
<1>6. GoodWatches(watches, gpus)'
  BY <1>2, <1>3, <1>5 DEF WatchesInv, GoodWatches, vars, IsWatch
<1>7. TypeOK'
  BY <1>3 DEF WatchesInv, TypeOK, vars
<1>8. ConsumedStep
  BY <1>2, <1>5 DEF ConsumedStep, Pending, IsWatch, WatchesInv, GoodWatches
<1> QED
  BY <1>3, <1>6, <1>7, <1>8, UnlockedStep DEF vars

(* Watches that stay or go, but never change, are not consumed.            *)
LEMMA NothingConsumed ==
  ASSUME WatchesInv,
         \A w \in Wids : Pending(w) /\ watches'[w] # NoRow =>
           watches'[w] = watches[w]
  PROVE  ConsumedStep
  BY DEF ConsumedStep, Pending, IsWatch, WatchesInv, GoodWatches

LEMMA RequestIsBooking == RequestNext => Next
  BY DEF RequestNext, Deletions, Registrations, Switches, Settings, Next,
         FleetNext, UserAdminNext, UserSettings

LEMMA RequestTakesNoTime == RequestNext => now' = now
  BY DEF RequestNext, Deletions, DeleteUser, DeleteGpu, DeleteServer,
         StudentNext, CreateReservation, CancelReservation,
         ReservationAdminNext, CancelForUser, CancelAll, Switches,
         SetGpuActive, SetServerActive, Registrations, CreateServer, AddGpu,
         Settings, SetServerAccess, SetMaxConcurrentGpus, UpdateRegulation

LEMMA RequestStep ==
  ASSUME WatchesInv, RequestNext
  PROVE  WatchesInv' /\ ConsumedStep
<1>1. TypeOK' /\ TypeOK /\ ~Locked /\ poll' = poll /\ now' = now
  BY TypeStep, RequestIsBooking, RequestTakesNoTime DEF RequestNext, WatchesInv
<1>2. ASSUME NEW S, watches' = Without(S),
             \A w \in Wids \ S : IsWatch(w) => gpus'[watches[w].gpu].present
      PROVE  WatchesInv' /\ ConsumedStep
  <2>1. GoodWatches(watches, gpus)'
    BY <1>2, WithoutIsGood
  <2>2. ConsumedStep
    BY <1>2, NothingConsumed DEF Without
  <2> QED
    BY <1>1, <2>1, <2>2, UnlockedStep
<1>3. \A w \in Wids : IsWatch(w) => /\ watches[w].gpu \in Gpus
                                    /\ gpus[watches[w].gpu].present
  BY DEF WatchesInv, GoodWatches, WatchTable, WatchRow, IsWatch
<1>4. ASSUME NEW u \in Users, DeleteUser(u), watches' = Without(WatchesOf(u))
      PROVE  WatchesInv' /\ ConsumedStep
  BY <1>2, <1>3, <1>4 DEF DeleteUser
<1>5. ASSUME NEW g \in Gpus, DeleteGpu(g), watches' = Without(WatchesOn({g}))
      PROVE  WatchesInv' /\ ConsumedStep
  <2>1. \A h \in Gpus : h # g => gpus'[h] = gpus[h]
    BY <1>5 DEF DeleteGpu, RetireGpus
  <2> QED
    BY <1>2, <1>3, <1>5, <2>1 DEF WatchesOn
<1>6. ASSUME NEW s \in Servers, DeleteServer(s),
             watches' = Without(WatchesOn(PresentGpusOf(s)))
      PROVE  WatchesInv' /\ ConsumedStep
  <2>1. \A h \in Gpus : h \notin PresentGpusOf(s) => gpus'[h] = gpus[h]
    BY <1>6 DEF DeleteServer, RetireGpus
  <2> QED
    BY <1>2, <1>3, <1>6, <2>1 DEF WatchesOn
<1>7. ASSUME watches' = watches,
             \A g \in Gpus : gpus[g].present => gpus'[g].present
      PROVE  WatchesInv' /\ ConsumedStep
  <2>1. GoodWatches(watches, gpus)'
    BY <1>3, <1>7 DEF WatchesInv, GoodWatches, IsWatch
  <2> QED
    BY <1>1, <1>7, <2>1, UnlockedStep, NothingConsumed
<1>8. ASSUME NEW g \in Gpus, NEW on \in BOOLEAN, SetGpuActive(g, on)
      PROVE  \A h \in Gpus : gpus[h].present => gpus'[h].present
  BY <1>1, <1>8 DEF SetGpuActive, TypeOK
<1>9. ASSUME NEW g \in Gpus, NEW m \in GpuRams, AddGpu(g, m)
      PROVE  \A h \in Gpus : gpus[h].present => gpus'[h].present
  BY <1>1, <1>9 DEF AddGpu, TypeOK
<1>10. ASSUME StudentNext \/ ReservationAdminNext \/ Settings
       PROVE  gpus' = gpus
  BY <1>10 DEF StudentNext, ReservationAdminNext, Settings, CreateReservation,
               CancelReservation, CancelForUser, CancelAll, SetServerAccess,
               SetMaxConcurrentGpus, UpdateRegulation
<1>11. ASSUME Switches \/ Registrations
       PROVE  \A h \in Gpus : gpus[h].present => gpus'[h].present
  BY <1>8, <1>9, <1>11 DEF Switches, Registrations, SetServerActive, CreateServer
<1> QED
  BY <1>4, <1>5, <1>6, <1>7, <1>10, <1>11 DEF RequestNext, Deletions

LEMMA CleanUpStep ==
  ASSUME WatchesInv, CleanUp
  PROVE  WatchesInv' /\ ConsumedStep
<1> DEFINE S == {w \in Wids : /\ IsWatch(w) /\ ~watches[w].active
                              /\ watches[w].created < now - Retention}
<1>1. watches' = Without(S) /\ ~Locked /\ UNCHANGED <<vars, poll>>
  BY DEF CleanUp
<1> HIDE DEF S
<1>2. TypeOK' /\ gpus' = gpus
  BY <1>1 DEF WatchesInv, TypeOK, vars
<1>3. GoodWatches(watches, gpus)'
  BY <1>1, <1>2, WithoutIsGood DEF WatchesInv, GoodWatches, IsWatch
<1> QED
  BY <1>1, <1>2, <1>3, UnlockedStep, NothingConsumed DEF Without, vars
-----------------------------------------------------------------------------
(***************************************************************************)
(* The poll.  Reading changes nothing but the poll.                        *)
(***************************************************************************)
LEMMA ReadingPoll ==
  ASSUME WatchesInv, UNCHANGED <<vars, watches>>, PollTypeOK', AttemptOK',
         Locked' => Locked /\ poll'.undo = poll.undo
  PROVE  WatchesInv' /\ ConsumedStep
<1>1. TypeOK' /\ GoodWatches(watches, gpus)' /\ gpus' = gpus /\ res' = res
  BY DEF WatchesInv, TypeOK, vars, GoodWatches
<1>2. UndoOK'
  BY <1>1 DEF WatchesInv, UndoOK, Pending, IsWatch
<1> QED
  BY <1>1, <1>2, NothingConsumed DEF WatchesInv

LEMMA PollStartStep ==
  ASSUME WatchesInv, PollStart
  PROVE  WatchesInv' /\ ConsumedStep
<1>1. <<>> \in FoundWatches
  <2>1. <<>> \in [{} -> WatchRow]
    OBVIOUS
  <2> QED
    BY <2>1 DEF FoundWatches
<1>2. [g \in Gpus |-> gpus[g].ram] \in [Gpus -> Int]
  BY DEF WatchesInv, TypeOK
<1>3. Begun \in Polls /\ Begun.undo = <<>> /\ Begun.step = "next"
  BY <1>1, <1>2 DEF Begun, Polls, WatchesInv, TypeOK
<1>4. poll' = Begun /\ UNCHANGED <<vars, watches>>
  BY DEF PollStart
<1> HIDE DEF Begun
<1>5. AttemptOK'
  BY <1>3, <1>4, NoAttempt DEF Attempting
<1> QED
  BY <1>3, <1>4, <1>5, ReadingPoll DEF PollTypeOK, Locked

(* Loading a server's GPUs and finding watches: between attempts.          *)
LEMMA PollLoadsStep ==
  ASSUME WatchesInv,
         \/ \E s \in Servers : PollServer(s)
         \/ \E g \in Gpus : PollFind(g)
  PROVE  /\ WatchesInv' /\ ConsumedStep
         /\ poll' \in Polls /\ poll'.undo = poll.undo /\ poll'.at = poll.at
         /\ poll'.rg = poll.rg /\ ~Attempting'
<1>1. Polling /\ UNCHANGED <<vars, watches>> /\ ~Trying
  BY DEF PollServer, PollFind
<1>2. poll \in Polls /\ poll.step = "next"
  BY <1>1, PollFields DEF WatchesInv, AttemptOK, Attempting
<1>3. ASSUME NEW s \in Servers, PollServer(s)
      PROVE  /\ poll' \in Polls /\ poll'.undo = poll.undo
             /\ poll'.at = poll.at /\ poll'.rg = poll.rg
             /\ poll'.step = poll.step
  <2>1. [g \in Gpus |-> gpus[g].ram] \in [Gpus -> Int]
    BY DEF WatchesInv, TypeOK
  <2> QED
    BY <1>2, <1>3, <2>1 DEF PollServer, Polls, ActiveGpusOf, GpusOf
<1>4. ASSUME NEW g \in Gpus, PollFind(g)
      PROVE  /\ poll' \in Polls /\ poll'.undo = poll.undo
             /\ poll'.at = poll.at /\ poll'.rg = poll.rg
             /\ poll'.step = poll.step
  <2> DEFINE found == [w \in Matching(g) |-> watches[w]]
  <2>1. \A w \in Matching(g) : w \in Wids /\ watches[w] \in WatchRow
    BY DEF Matching, Pending, IsWatch, WatchesInv, GoodWatches, WatchTable
  <2>2. found \in FoundWatches
    BY <2>1 DEF FoundWatches
  <2>3. poll' = [poll EXCEPT !.gpus = @ \ {g}, !.found = found]
    BY <1>4 DEF PollFind
  <2> HIDE DEF found
  <2> QED
    BY <1>2, <2>2, <2>3 DEF Polls
<1>5. /\ poll' \in Polls /\ poll'.undo = poll.undo /\ poll'.at = poll.at
      /\ poll'.rg = poll.rg /\ poll'.step = "next"
  BY <1>2, <1>3, <1>4
<1>6. ~Attempting' /\ AttemptOK'
  BY <1>5, NoAttempt DEF Attempting
<1> QED
  BY <1>1, <1>5, <1>6, ReadingPoll DEF PollTypeOK, Locked, Polling

(* What a checking step leaves of the poll.                                *)
LEMMA CheckIs ==
  ASSUME WatchesInv, NEW w \in Wids,
         Try(w) \/ CheckCount(w) \/ CheckRoom(w) \/ CheckGpus(w)
  PROVE  /\ UNCHANGED <<vars, watches>> /\ Foremost(w) /\ Passes(w)
         /\ poll' \in Polls /\ poll'.at = poll.at /\ poll'.undo = poll.undo
         /\ poll'.found = poll.found /\ poll'.rg = poll.rg
         /\ poll'.rams = poll.rams
         /\ \/ /\ poll.step = "next" /\ poll'.step = "count"
               /\ poll'.limit = gpuLimit[poll.found[w].user]
            \/ /\ poll.step = "count" /\ poll'.step = "room"
               /\ poll'.limit = poll.limit
            \/ /\ poll.step = "room" /\ poll'.step = "gpus"
               /\ poll'.limit = poll.limit
            \/ /\ poll.step = "gpus" /\ poll'.step = "insert"
               /\ poll'.limit = poll.limit
<1>1. UNCHANGED <<vars, watches>> /\ Foremost(w) /\ Passes(w)
  BY DEF Try, CheckCount, CheckRoom, CheckGpus, Checked
<1>2. /\ poll \in Polls /\ gpuLimit[poll.found[w].user] \in Nat
  BY <1>1, ForemostIs DEF WatchesInv, TypeOK
<1>3. CASE Try(w)
  BY <1>1, <1>2, <1>3 DEF Try, Polls
<1>4. CASE CheckCount(w) \/ CheckRoom(w) \/ CheckGpus(w)
  BY <1>1, <1>2, <1>4 DEF CheckCount, CheckRoom, CheckGpus, Checked, Polls
<1> QED
  BY <1>1, <1>3, <1>4

(* While the tables stay, so do the answers.                               *)
LEMMA AnswersStay ==
  ASSUME UNCHANGED vars, NEW x, NEW rg
  PROVE  /\ CountLeft(x, rg)' = CountLeft(x, rg)
         /\ \A total : HasRoom(x, rg, total)' = HasRoom(x, rg, total)
         /\ \A limit : GpuLeft(x, rg, limit)' = GpuLeft(x, rg, limit)
<1>1. now' = now /\ res' = res
  BY DEF vars
<1>2. /\ WindowStart(x, rg)' = WindowStart(x, rg)
      /\ WindowEnd(x, rg)' = WindowEnd(x, rg)
  BY <1>1, WindowStays
<1>3. HeldUpcoming(x.user)' = HeldUpcoming(x.user)
  BY <1>1 DEF HeldUpcoming, Rows, IsRow, Live
<1>4. CountLeft(x, rg)' = CountLeft(x, rg)
  BY <1>3 DEF CountLeft
<1>5. ASSUME NEW from, NEW to
      PROVE  /\ OverlappingActive(x.gpu, from, to)' = OverlappingActive(x.gpu, from, to)
             /\ ConcurrentGpus(x.user, from, to)' = ConcurrentGpus(x.user, from, to)
  <2>1. ActiveRowsOf(x.gpu)' = ActiveRowsOf(x.gpu)
    BY <1>1 DEF ActiveRowsOf, Rows, IsRow
  <2>2. OverlappingActive(x.gpu, from, to)' = OverlappingActive(x.gpu, from, to)
    BY <2>1 DEF OverlappingActive
  <2>3. ConcurrentGpus(x.user, from, to)' = ConcurrentGpus(x.user, from, to)
    BY <1>1 DEF ConcurrentGpus, Rows, IsRow, Live
  <2> QED
    BY <2>2, <2>3
<1>6. PeakBeside(x, rg)' = PeakBeside(x, rg)
  BY <1>2, <1>5 DEF PeakBeside
<1>7. \A total : HasRoom(x, rg, total)' = HasRoom(x, rg, total)
  BY <1>6 DEF HasRoom
<1>8. \A limit : GpuLeft(x, rg, limit)' = GpuLeft(x, rg, limit)
  BY <1>2, <1>5 DEF GpuLeft
<1> QED
  BY <1>4, <1>7, <1>8

LEMMA CheckStep ==
  ASSUME WatchesInv, NEW w \in Wids,
         Try(w) \/ CheckCount(w) \/ CheckRoom(w) \/ CheckGpus(w)
  PROVE  WatchesInv' /\ ConsumedStep
<1> DEFINE x == poll.found[w]
           rg == poll.rg
           total == poll.rams[x.gpu]
<1>1. /\ UNCHANGED <<vars, watches>> /\ Foremost(w) /\ Passes(w)
      /\ poll' \in Polls /\ poll'.at = poll.at /\ poll'.undo = poll.undo
      /\ poll'.found = poll.found /\ poll'.rg = poll.rg
      /\ poll'.rams = poll.rams
  BY CheckIs
<1>2. Polling /\ Polling' /\ Locked' = Locked /\ Trying'
  BY <1>1 DEF Foremost, Polling, Locked, Trying
<1>3. \A v \in Wids : Foremost(v)' => Foremost(v)
  BY <1>1, <1>2 DEF Foremost
<1>4. \A v \in Wids : Foremost(v)' => v = w
  BY <1>1, <1>3, OnlyForemost
<1>5. poll.step # "next" => Admitted(w)
  BY <1>1, <1>2 DEF WatchesInv, AttemptOK, Attempting
<1>6. /\ InRules(x, rg, total)' = InRules(x, rg, total)
      /\ CountLeft(x, rg)' = CountLeft(x, rg)
      /\ HasRoom(x, rg, total)' = HasRoom(x, rg, total)
      /\ GpuLeft(x, rg, poll.limit)' = GpuLeft(x, rg, poll'.limit)
      /\ gpuLimit'[x.user] = gpuLimit[x.user]
  <2>1. UNCHANGED vars /\ now' = now /\ gpuLimit' = gpuLimit
    BY <1>1 DEF vars
  <2> QED
    BY <1>1, <2>1, AnswersStay, WindowStays
<1>7. Admitted(w)'
  <2>1. CASE poll.step = "next" /\ poll'.step = "count"
             /\ poll'.limit = gpuLimit[x.user]
    <3>1. InRules(x, rg, total)
      BY <1>1, <2>1 DEF Passes
    <3> QED
      BY <1>1, <1>6, <2>1, <3>1 DEF Admitted, Past
  <2>2. CASE poll.step = "count" /\ poll'.step = "room" /\ poll'.limit = poll.limit
    <3>1. CountLeft(x, rg)
      BY <1>1, <2>2 DEF Passes
    <3> QED
      BY <1>1, <1>2, <1>5, <1>6, <2>2, <3>1 DEF Admitted, Past
  <2>3. CASE poll.step = "room" /\ poll'.step = "gpus" /\ poll'.limit = poll.limit
    <3>1. HasRoom(x, rg, total)
      BY <1>1, <2>3 DEF Passes
    <3> QED
      BY <1>1, <1>2, <1>5, <1>6, <2>3, <3>1 DEF Admitted, Past
  <2>4. CASE poll.step = "gpus" /\ poll'.step = "insert" /\ poll'.limit = poll.limit
    <3>1. GpuLeft(x, rg, poll.limit)
      BY <1>1, <2>4 DEF Passes
    <3> QED
      BY <1>1, <1>2, <1>5, <1>6, <2>4, <3>1 DEF Admitted, Past
  <2> QED
    BY <2>1, <2>2, <2>3, <2>4, CheckIs
<1>8. AttemptOK'
  BY <1>2, <1>4, <1>7 DEF AttemptOK
<1> QED
  BY <1>1, <1>2, <1>8, ReadingPoll DEF PollTypeOK

LEMMA SkipStep ==
  ASSUME WatchesInv, NEW w \in Wids, Skip(w)
  PROVE  /\ WatchesInv' /\ ConsumedStep
         /\ UNCHANGED <<vars, watches>> /\ ~Attempting'
         /\ poll' \in Polls /\ poll'.undo = poll.undo /\ poll'.at = poll.at
         /\ poll'.rg = poll.rg /\ poll'.found = Rest(w)
<1>1. UNCHANGED <<vars, watches>> /\ Foremost(w)
  BY DEF Skip, Refused
<1>2. poll \in Polls /\ Polling /\ Rest(w) \in FoundWatches
  BY <1>1, ForemostIs, RestIsFound DEF WatchesInv
<1>3. /\ poll' \in Polls /\ poll'.undo = poll.undo /\ poll'.at = poll.at
      /\ poll'.rg = poll.rg /\ poll'.found = Rest(w) /\ poll'.step = "next"
  BY <1>2 DEF Skip, Polls
<1>4. ~Attempting' /\ AttemptOK'
  BY <1>3, NoAttempt DEF Attempting
<1> QED
  BY <1>1, <1>3, <1>4, ReadingPoll DEF PollTypeOK, Locked, Polling

LEMMA PollEndStep ==
  ASSUME WatchesInv, PollEnd
  PROVE  WatchesInv' /\ ConsumedStep
<1>1. poll' = Idle /\ UNCHANGED <<vars, watches>>
  BY DEF PollEnd
<1>2. AttemptOK'
  BY <1>1, NoAttempt DEF Attempting, Polling, Idle
<1> QED
  BY <1>1, <1>2, ReadingPoll DEF PollTypeOK, Locked, Idle

(* Rounding a start up and an end down stays inside the range.             *)
LEMMA SlotRounding ==
  ASSUME NEW t \in Nat, NEW slot \in Nat, slot # 0
  PROVE  /\ FloorToSlot(t, slot) \in Nat /\ FloorToSlot(t, slot) >= t
         /\ AlignDownToSlot(t, slot) \in Int /\ AlignDownToSlot(t, slot) <= t
<1>1. t % slot \in 0..(slot - 1)
  OBVIOUS
<1> DEFINE m == t % slot
<1> HIDE DEF m
<1>2. m \in Nat /\ m < slot
  BY <1>1 DEF m
<1>3. FloorToSlot(t, slot) = (IF m = 0 THEN t ELSE t + (slot - m))
      /\ AlignDownToSlot(t, slot) = t - m
  BY DEF FloorToSlot, AlignDownToSlot, m
<1> QED
  BY <1>2, <1>3

LEMMA WindowInside ==
  ASSUME WatchesInv, NEW x \in WatchRow, NEW rg \in Regulations, rg.slot # 0,
         WindowStart(x, rg) < WindowEnd(x, rg)
  PROVE  /\ WindowStart(x, rg) \in Nat /\ WindowEnd(x, rg) \in Nat
         /\ x.start <= WindowStart(x, rg) /\ now <= WindowStart(x, rg)
         /\ WindowEnd(x, rg) <= x.end
<1>1. x.start \in 0..MaxTime /\ x.end \in 0..MaxTime
  BY DEF WatchRow
<1>2. now \in Nat /\ rg.slot \in Nat /\ rg.maxDuration \in Nat
  BY RegulationsAssumption DEF WatchesInv, TypeOK
<1>3. \A t \in 0..MaxTime : t \in Nat
  BY TimeAssumption
<1>4. x.start \in Nat /\ x.end \in Nat
  BY <1>1, <1>3
<1> DEFINE t == Later(x.start, now)
           s == WindowStart(x, rg)
           d == Earlier(x.end, s + rg.maxDuration)
           e == WindowEnd(x, rg)
<1>5. t \in Nat /\ t >= x.start /\ t >= now
  BY <1>2, <1>4 DEF Later
<1>6. s = FloorToSlot(t, rg.slot)
  BY DEF WindowStart
<1> HIDE DEF t, s
<1>7. s \in Nat /\ s >= t
  BY <1>2, <1>5, <1>6, SlotRounding
<1>8. d \in Nat /\ d <= x.end
  BY <1>2, <1>4, <1>7 DEF Earlier
<1>9. e = AlignDownToSlot(d, rg.slot)
  BY DEF WindowEnd, s
<1> HIDE DEF d, e
<1>10. e \in Int /\ e <= d
  BY <1>2, <1>8, <1>9, SlotRounding
<1>11. s < e
  BY DEF s, e
<1>12. /\ s \in Nat /\ e \in Nat /\ x.start <= s /\ now <= s /\ e <= x.end
  BY <1>2, <1>4, <1>5, <1>7, <1>8, <1>10, <1>11
<1> QED
  BY <1>12 DEF s, e

(* What the poll books for a watch it has found.                           *)
LEMMA WatchBooked ==
  ASSUME WatchesInv, NEW w \in Wids, Book(w)
  PROVE  /\ poll.found[w] \in WatchRow
         /\ BookedInside(poll.found[w])
         /\ res' \in ResTable
         /\ \A r \in Rids : IsRow(r) => res'[r] = res[r]
<1> DEFINE x == poll.found[w]
           rg == poll.rg
           new == [user |-> x.user, gpu |-> x.gpu,
                   start |-> WindowStart(x, rg), end |-> WindowEnd(x, rg),
                   ram |-> x.ram, status |-> "ACTIVE"]
<1>1. x \in WatchRow /\ rg \in Regulations
  BY PollFields DEF Book, Foremost, WatchesInv
<1>2. InRules(x, rg, poll.rams[x.gpu])
  BY DEF Book, WatchesInv, AttemptOK, Attempting, Admitted, Foremost
<1>3. PICK r \in Rids : IsNextId(r) /\ res' = [res EXCEPT ![r] = new]
  BY DEF Book
<1> HIDE DEF x, rg
<1>4. rg.slot # 0 /\ WindowStart(x, rg) < WindowEnd(x, rg)
  BY <1>2 DEF InRules
<1>5. /\ WindowStart(x, rg) \in Nat /\ WindowEnd(x, rg) \in Nat
      /\ x.start <= WindowStart(x, rg) /\ now <= WindowStart(x, rg)
      /\ WindowEnd(x, rg) <= x.end
  BY <1>1, <1>4, WindowInside
<1>6. x.user \in Users /\ x.gpu \in Gpus /\ x.ram \in Int
  BY <1>1, RamsAssumption DEF WatchRow
<1>7. /\ new \in Row
      /\ new.user = x.user /\ new.gpu = x.gpu /\ new.ram = x.ram
      /\ new.start = WindowStart(x, rg) /\ new.end = WindowEnd(x, rg)
  BY <1>4, <1>5, <1>6 DEF Row, Status
<1> HIDE DEF new
<1>8. ~IsRow(r)
  <2>1. r \in Int
    BY <1>3 DEF Rids
  <2> QED
    BY <1>3, <2>1 DEF IsNextId
<1>9. /\ res' \in ResTable /\ res'[r] = new
      /\ \A q \in Rids : q # r => res'[q] = res[q]
  BY <1>3, <1>7 DEF WatchesInv, TypeOK, ResTable
<1>10. BookedInside(x)
  BY <1>5, <1>7, <1>8, <1>9, NoRowAssumption DEF BookedInside
<1> QED
  BY <1>1, <1>8, <1>9, <1>10 DEF x

LEMMA BookStep ==
  ASSUME WatchesInv, NEW w \in Wids, Book(w)
  PROVE  WatchesInv' /\ ConsumedStep
<1>1. /\ BookedInside(poll.found[w]) /\ res' \in ResTable
      /\ \A r \in Rids : IsRow(r) => res'[r] = res[r]
  BY WatchBooked
<1>2. /\ Polling /\ IsWatch(w)
      /\ watches' = [watches EXCEPT ![w].active = FALSE, ![w].booked = TRUE]
      /\ UNCHANGED <<now, servers, gpus, access, gpuLimit, reg>>
  BY DEF Book, Foremost
<1>3. watches[w] \in WatchRow
  BY <1>2 DEF IsWatch, WatchesInv, GoodWatches, WatchTable
<1> DEFINE used == [watches[w] EXCEPT !.active = FALSE, !.booked = TRUE]
<1>4. /\ used \in WatchRow /\ used.gpu = watches[w].gpu /\ ~used.active
  BY <1>3 DEF WatchRow
<1>5. watches' = [watches EXCEPT ![w] = used]
  BY <1>2
<1> HIDE DEF used
<1>6. /\ watches' \in WatchTable /\ watches'[w] = used
      /\ \A v \in Wids : v # w => watches'[v] = watches[v]
  BY <1>4, <1>5 DEF WatchesInv, GoodWatches, WatchTable
<1>7. GoodWatches(watches, gpus)'
  BY <1>2, <1>4, <1>6 DEF WatchesInv, GoodWatches, IsWatch
<1>8. TypeOK'
  BY <1>1, <1>2 DEF WatchesInv, TypeOK, ResTable
<1> DEFINE undo == IF Locked THEN poll.undo ELSE <<res, watches>>
<1>9. /\ poll \in Polls /\ Rest(w) \in FoundWatches
  BY <1>2, PollFields, RestIsFound DEF WatchesInv
<1>10. undo \in ResTable \X WatchTable
  <2>1. Locked => poll.undo \in ResTable \X WatchTable
    BY <1>9 DEF Polls, Locked
  <2>2. res \in ResTable /\ watches \in WatchTable
    BY DEF WatchesInv, TypeOK, GoodWatches, ResTable
  <2> QED
    BY <2>1, <2>2
<1>11. poll' = [poll EXCEPT !.found = Rest(w), !.step = "next",
                             !.undo = undo]
  BY DEF Book
<1>12. /\ GoodWatches(undo[2], gpus)
       /\ \A v \in Wids : Pending(v) => undo[2][v] = watches[v]
       /\ \A r \in Rids : undo[1][r] # NoRow => undo[1][r] = res[r]
  BY DEF WatchesInv, UndoOK
<1> HIDE DEF undo
<1>13. poll' \in Polls /\ poll'.undo = undo /\ AttemptOK'
  BY <1>9, <1>10, <1>11, NoAttempt DEF Polls, Attempting
<1>14. UndoOK'
  <2>1. GoodWatches(undo[2], gpus')
    BY <1>2, <1>12
  <2>2. \A v \in Wids : Pending(v)' => undo[2][v] = watches'[v]
    BY <1>4, <1>6, <1>12 DEF Pending, IsWatch
  <2>3. \A r \in Rids : undo[1][r] # NoRow => undo[1][r] = res'[r]
    BY <1>1, <1>12 DEF IsRow
  <2> QED
    BY <1>13, <2>1, <2>2, <2>3 DEF UndoOK
<1>15. ConsumedStep
  BY <1>1, <1>6 DEF ConsumedStep, Pending, IsWatch, WatchesInv, GoodWatches
<1> QED
  BY <1>7, <1>8, <1>13, <1>14, <1>15 DEF WatchesInv, PollTypeOK

(* An abort gives back to each watch that is pending what it is now.       *)
LEMMA AbortStep ==
  ASSUME WatchesInv, NEW w \in Wids, Abort(w)
  PROVE  WatchesInv' /\ ConsumedStep
<1>1. /\ poll' = [at |-> "aborted"]
      /\ UNCHANGED <<now, servers, gpus, access, gpuLimit, reg>>
  BY DEF Abort
<1>2. ~Locked' /\ PollTypeOK' /\ AttemptOK'
  BY <1>1, NoAttempt DEF Locked, PollTypeOK, Attempting, Polling
<1>3. CASE Locked
  <2>1. /\ res' = poll.undo[1] /\ watches' = poll.undo[2]
        /\ GoodWatches(poll.undo[2], gpus)
        /\ \A v \in Wids : Pending(v) => poll.undo[2][v] = watches[v]
        /\ poll.undo[1] \in ResTable
    BY <1>3, LockedUndo DEF Abort, WatchesInv, UndoOK
  <2>2. TypeOK' /\ GoodWatches(watches, gpus)'
    BY <1>1, <2>1 DEF WatchesInv, TypeOK, ResTable
  <2>3. ConsumedStep
    BY <2>1, NothingConsumed
  <2> QED
    BY <1>2, <2>2, <2>3 DEF WatchesInv, UndoOK
<1>4. CASE ~Locked
  <2>1. res' = res /\ watches' = watches
    BY <1>4 DEF Abort
  <2>2. TypeOK' /\ GoodWatches(watches, gpus)'
    BY <1>1, <2>1 DEF WatchesInv, TypeOK, GoodWatches
  <2>3. ConsumedStep
    BY <2>1, NothingConsumed
  <2> QED
    BY <1>2, <2>2, <2>3 DEF WatchesInv, UndoOK
<1> QED
  BY <1>3, <1>4

LEMMA QuietStep ==
  ASSUME WatchesInv,
         \/ Tick /\ ~Attempting /\ UNCHANGED <<watches, poll>>
         \/ UNCHANGED watchVars
  PROVE  WatchesInv' /\ ConsumedStep
<1>1. /\ UNCHANGED <<watches, poll, gpus, res>> /\ [Next]_vars
  BY DEF Tick, Next, vars, watchVars
<1>2. TypeOK'
  BY <1>1, TypeStep DEF WatchesInv
<1>3. GoodWatches(watches, gpus)' /\ PollTypeOK' /\ UndoOK'
  BY <1>1 DEF WatchesInv, GoodWatches, PollTypeOK, UndoOK, Locked, Pending, IsWatch
<1>4. AttemptOK'
  <2>1. CASE ~Attempting
    BY <1>1, <2>1, NoAttempt DEF Attempting, Polling
  <2>2. CASE UNCHANGED watchVars
    <3> SUFFICES ASSUME Attempting'
                 PROVE  Trying' /\ \A w \in Wids : Foremost(w)' => Admitted(w)'
      BY DEF AttemptOK
    <3>1. Attempting /\ Locked' = Locked /\ UNCHANGED vars /\ poll' = poll
      BY <2>2 DEF Attempting, Polling, Locked, watchVars
    <3>2. Trying'
      BY <3>1 DEF WatchesInv, AttemptOK, Trying
    <3>3. ASSUME NEW w \in Wids, Foremost(w)' PROVE Admitted(w)'
      <4>1. Admitted(w)
        BY <3>1, <3>3 DEF WatchesInv, AttemptOK, Foremost, Polling
      <4>2. now' = now /\ gpuLimit' = gpuLimit
        BY <3>1 DEF vars
      <4> QED
        BY <3>1, <4>1, <4>2, AnswersStay, WindowStays DEF Admitted, Past
    <3> QED
      BY <3>2, <3>3
  <2> QED
    BY <2>1, <2>2
<1> QED
  BY <1>1, <1>2, <1>3, <1>4, NothingConsumed DEF WatchesInv

LEMMA WatchesStep ==
  ASSUME WatchesInv, [WatchesNext]_watchVars
  PROVE  WatchesInv' /\ ConsumedStep
<1>1. CASE WatchRequests
  BY <1>1, CreateWatchStep, CancelWatchStep DEF WatchRequests
<1>2. CASE PollNext
  BY <1>2, PollStartStep, PollLoadsStep, CheckStep, SkipStep, PollEndStep,
     BookStep, AbortStep
  DEF PollNext
<1> QED
  BY <1>1, <1>2, RequestStep, CleanUpStep, QuietStep DEF WatchesNext

LEMMA WatchesInitially == WatchesInit => WatchesInv
  BY TypeInit
  DEF WatchesInit, WatchesInv, GoodWatches, WatchTable, PollTypeOK, UndoOK,
      Locked, Idle, AttemptOK, Attempting, Polling

LEMMA WatchesInvariant == WatchesSpec => []WatchesInv
  BY WatchesInitially, WatchesStep, PTL DEF WatchesSpec

(* No watch outlives its GPU, not even one that an abort puts back.        *)
THEOREM WatchesHaveTheirGpu == WatchesSpec => []WatchGpuPresent
<1>1. WatchesInv => WatchGpuPresent
  BY DEF WatchesInv, GoodWatches, WatchGpuPresent, IsWatch
<1> QED
  BY <1>1, WatchesInvariant, PTL

(* A pending watch is used up only by a booking of what it asked for,      *)
(* inside its range, unless its id was taken over in the middle of a poll. *)
THEOREM BookingConsumes == WatchesSpec => ConsumedOnlyByBooking
<1>1. WatchesInv /\ [WatchesNext]_watchVars => [ConsumedStep]_watchVars
  BY WatchesStep
<1> QED
  BY <1>1, WatchesInvariant, PTL DEF WatchesSpec, ConsumedOnlyByBooking

-----------------------------------------------------------------------------
(***************************************************************************)
(* The poll books and takes back; a booking that stays keeps its terms.    *)
(***************************************************************************)
(* What a poll does besides: it reads, checks, or lets a watch be.         *)
QuietPoll ==
  \/ \E s \in Servers : PollServer(s)
  \/ \E g \in Gpus : PollFind(g)
  \/ \E w \in Wids : \/ Try(w) \/ CheckCount(w) \/ CheckRoom(w)
                     \/ CheckGpus(w) \/ Skip(w)
LEMMA QuietPollIs ==
  ASSUME WatchesInv, QuietPoll
  PROVE  /\ UNCHANGED <<vars, watches>>
         /\ poll'.undo = poll.undo /\ poll'.at = poll.at
         /\ poll'.rg = poll.rg
<1>1. CASE \/ \E s \in Servers : PollServer(s)
           \/ \E g \in Gpus : PollFind(g)
  BY <1>1, PollLoadsStep DEF PollServer, PollFind
<1> QED
  BY <1>1, CheckIs, SkipStep DEF QuietPoll

LEMMA PollKinds ==
  ASSUME PollNext
  PROVE  UNCHANGED <<vars, watches>> \/ \E w \in Wids : Book(w) \/ Abort(w)
BY DEF PollNext, PollStart, PollServer, PollFind, Try, CheckCount, CheckRoom,
       CheckGpus, Checked, Skip, Refused, PollEnd

LEMMA WatchesKeepTerms ==
  ASSUME WatchesInv, [WatchesNext]_watchVars
  PROVE  [TermsStep]_vars
<1>1. ASSUME \A r \in Rids : IsRow(r) /\ res'[r] # NoRow => res'[r] = res[r]
      PROVE  TermsStep
  BY <1>1 DEF TermsStep, KeepsItsTerms, IsRow
<1>2. ASSUME NEW w \in Wids, Book(w) PROVE TermsStep
  BY <1>1, <1>2, WatchBooked
<1>3. ASSUME NEW w \in Wids, Abort(w) PROVE TermsStep
  <2>1. CASE Locked
    BY <1>1, <1>3, <2>1 DEF Abort, WatchesInv, UndoOK
  <2>2. CASE ~Locked
    BY <1>1, <1>3, <2>2 DEF Abort
  <2> QED
    BY <2>1, <2>2
<1>4. ASSUME Next PROVE TermsStep
  BY <1>4, TermsInNext DEF WatchesInv
<1>5. CASE RequestNext \/ Tick
  BY <1>4, <1>5, RequestIsBooking DEF Next
<1>6. CASE WatchRequests \/ CleanUp \/ UNCHANGED watchVars
  <2>1. UNCHANGED vars
    BY <1>6 DEF WatchRequests, CreateWatch, CancelWatch, CleanUp, watchVars
  <2> QED
    BY <2>1
<1>7. CASE PollNext
  BY <1>2, <1>3, <1>7, PollKinds
<1> QED
  BY <1>5, <1>6, <1>7 DEF WatchesNext

(* With the poll among them: bookings that nobody made a request for, and  *)
(* aborts, change nothing of a reservation that is there before and after. *)
THEOREM TermsOutlivePolls == WatchesSpec => TermsAreKept
  BY WatchesKeepTerms, WatchesInvariant, PTL DEF WatchesSpec, TermsAreKept

-----------------------------------------------------------------------------
(***************************************************************************)
(* What the invariants of Booking become with the poll among the requests. *)
(* A poll moves the tables twice: a booking adds a row that some window of *)
(* a watch was let in for, an abort takes such rows back.                  *)
(***************************************************************************)
TakesBack ==
  /\ Locked /\ res' = poll.undo[1]
  /\ UNCHANGED <<now, servers, gpus, access, gpuLimit, reg>>

LEMMA KindsOfMove ==
  ASSUME [WatchesNext]_watchVars
  PROVE  Next \/ UNCHANGED vars \/ (\E w \in Wids : Book(w)) \/ TakesBack
<1>1. ASSUME NEW w \in Wids, Abort(w) PROVE UNCHANGED vars \/ TakesBack
  BY <1>1 DEF Abort, TakesBack, vars
<1>2. CASE RequestNext \/ Tick
  BY <1>2, RequestIsBooking DEF Next
<1>3. CASE WatchRequests \/ CleanUp \/ UNCHANGED watchVars
  BY <1>3 DEF WatchRequests, CreateWatch, CancelWatch, CleanUp, watchVars
<1>4. CASE PollNext
  BY <1>1, <1>4, PollKinds
<1> QED
  BY <1>2, <1>3, <1>4 DEF WatchesNext

BooksFor(w, u, g, start, end, ram) ==
  /\ u = poll.found[w].user /\ g = poll.found[w].gpu
  /\ ram = poll.found[w].ram
  /\ start = WindowStart(poll.found[w], poll.rg)
  /\ end = WindowEnd(poll.found[w], poll.rg)

LEMMA BookTried ==
  ASSUME WatchesInv, NEW w \in Wids, Book(w)
  PROVE  /\ Foremost(w) /\ Admitted(w) /\ poll.step = "insert" /\ Polling
         /\ poll.rg \in Regulations
<1>1. Foremost(w) /\ poll.step = "insert"
  BY DEF Book
<1> QED
  BY <1>1, ForemostIs DEF WatchesInv, AttemptOK, Attempting

LEMMA BookAdds ==
  ASSUME WatchesInv, NEW w \in Wids, Book(w)
  PROVE  \E u \in Users, g \in Gpus, start, end \in Nat, ram \in Rams, q \in Rids :
           /\ BooksFor(w, u, g, start, end, ram)
           /\ ram \in Int /\ ram > 0
           /\ Adds(q, u, g, start, end, ram)
<1> DEFINE x == poll.found[w]
           s == WindowStart(x, poll.rg)
           e == WindowEnd(x, poll.rg)
           new == [user |-> x.user, gpu |-> x.gpu, start |-> s, end |-> e,
                   ram |-> x.ram, status |-> "ACTIVE"]
<1>1. Foremost(w) /\ InRules(x, poll.rg, poll.rams[x.gpu])
  BY BookTried DEF Admitted
<1>2. /\ poll.rg.slot # 0 /\ s < e /\ x.ram > 0
  BY <1>1 DEF InRules
<1>3. PICK q \in Rids : IsNextId(q) /\ res' = [res EXCEPT ![q] = new]
  BY DEF Book
<1>4. /\ x \in WatchRow /\ poll.rg \in Regulations
      /\ x.user \in Users /\ x.gpu \in Gpus
      /\ x.ram \in Rams /\ x.ram \in Int
  BY <1>1, ForemostIs DEF WatchesInv
<1> HIDE DEF x
<1>5. s \in Nat /\ e \in Nat
  BY <1>2, <1>4, WindowInside
<1> HIDE DEF s, e
<1>6. /\ new \in Row
      /\ new.user = x.user /\ new.gpu = x.gpu /\ new.ram = x.ram
      /\ new.start = s /\ new.end = e /\ new.status = "ACTIVE"
  BY <1>2, <1>4, <1>5 DEF Row, Status
<1> HIDE DEF new
<1>7. ~IsRow(q)
  <2>1. q \in Int
    BY DEF Rids
  <2> QED
    BY <1>3, <2>1 DEF IsNextId
<1>8. /\ res'[q] = new /\ new # NoRow
      /\ \A r \in Rids : r # q => res'[r] = res[r]
  BY <1>3, <1>6, NoRowAssumption DEF WatchesInv, TypeOK
<1>9. Adds(q, x.user, x.gpu, s, e, x.ram)
  BY <1>6, <1>7, <1>8 DEF Adds, IsRow
<1>10. BooksFor(w, x.user, x.gpu, s, e, x.ram)
  BY DEF BooksFor, x, s, e
<1> QED
  BY <1>2, <1>4, <1>5, <1>9, <1>10

LEMMA TakenBack ==
  ASSUME WatchesInv, TakesBack
  PROVE  /\ \A r \in Rids : IsRow(r)' => IsRow(r) /\ res'[r] = res[r]
         /\ Fades /\ ~Resumes
<1>1. \A r \in Rids : IsRow(r)' => IsRow(r) /\ res'[r] = res[r]
  BY DEF TakesBack, WatchesInv, UndoOK, IsRow
<1>2. now \in Nat /\ now' = now
  BY DEF TakesBack, WatchesInv, TypeOK
<1>3. Fades
  BY <1>1, <1>2 DEF Fades, SameTerms, Live
<1>4. ~Resumes
  BY <1>1 DEF Resumes, IsRow, Rows
<1> QED
  BY <1>1, <1>3, <1>4

LEMMA BookQuiet ==
  ASSUME NEW w \in Wids, Book(w)
  PROVE  UNCHANGED <<now, servers, gpus, access, gpuLimit, reg>>
  BY DEF Book

(* Soft deletion switches off, whatever a poll has in its hands.           *)
THEOREM DeletedStaysOffBesidePolls == WatchesSpec => []DeletedIsOff
<1>1. WatchesInit => DeletedIsOff
  BY FleetInit DEF WatchesInit, FleetInv, FleetCore
<1>2. WatchesInv /\ DeletedIsOff /\ [WatchesNext]_watchVars => DeletedIsOff'
  <2> SUFFICES ASSUME WatchesInv, DeletedIsOff, [WatchesNext]_watchVars
               PROVE  DeletedIsOff'
    OBVIOUS
  <2>1. Next \/ UNCHANGED <<servers, gpus>>
    BY KindsOfMove, BookQuiet DEF vars, TakesBack
  <2> QED
    BY <2>1, DeletedStep DEF DeletedIsOff, WatchesInv
<1> QED
  BY <1>1, <1>2, WatchesInvariant, PTL DEF WatchesSpec

(* A watch is found by its id, and an id can be used again: the poll books *)
(* for a watch that is gone, on its GPU, and marks the one that took the   *)
(* id.  Only that leads it to a GPU that may have been deleted meanwhile:  *)
(* otherwise the watch is there, and so is its GPU.                        *)
BooksForAnother ==
  \E w \in Wids : Book(w) /\ watches[w].gpu # poll.found[w].gpu

LEMMA CoreBesidePolls ==
  ASSUME WatchesInv, FleetCore, [WatchesNext]_watchVars, ~BooksForAnother
  PROVE  FleetCore'
<1>1. CASE Next \/ UNCHANGED vars
  BY <1>1, CoreStep DEF WatchesInv, FleetKept
<1>2. ASSUME UNCHANGED <<now, servers, gpus, access>>,
             \A r \in Rids : IsRow(r)' =>
               \/ IsRow(r) /\ res'[r] = res[r]
               \/ res'[r].status = "ACTIVE" /\ gpus[res'[r].gpu].present
      PROVE  FleetCore'
  BY <1>2, NoRowAssumption
  DEF FleetCore, DeletedIsOff, PausedOnlyWhileOff, LiveOnlyOnPresent,
      Effective, IsRow, Live
<1>3. ASSUME NEW w \in Wids, Book(w) PROVE FleetCore'
  <2>1. watches[w].gpu = poll.found[w].gpu /\ IsWatch(w)
    BY <1>3 DEF BooksForAnother, Book
  <2>2. gpus[poll.found[w].gpu].present
    BY <2>1 DEF WatchesInv, GoodWatches, IsWatch
  <2>3. PICK q \in Rids : /\ res'[q].gpu = poll.found[w].gpu
                          /\ res'[q].status = "ACTIVE"
                          /\ \A r \in Rids : r # q => res'[r] = res[r]
    BY <1>3, BookAdds DEF Adds, BooksFor
  <2> QED
    BY <1>2, <1>3, <2>2, <2>3, BookQuiet DEF IsRow
<1>4. CASE TakesBack
  BY <1>2, <1>4, TakenBack DEF TakesBack
<1> QED
  BY <1>1, <1>3, <1>4, KindsOfMove

(* Beside the polls too nobody's paused booking is left behind on a GPU    *)
(* that works, and removing a GPU removes what is live on it, as long as   *)
(* no watch takes over an id in the middle of a poll.                      *)
LEMMA FleetBesidePolls ==
  WatchesSpec /\ [][~BooksForAnother]_watchVars => []FleetCore
<1>1. WatchesInit => FleetCore
  BY FleetInit DEF WatchesInit, FleetInv
<1>2. /\ WatchesInv /\ FleetCore /\ [WatchesNext]_watchVars
      /\ [~BooksForAnother]_watchVars
      => FleetCore'
  <2>1. WatchesInv /\ FleetCore /\ UNCHANGED watchVars => FleetCore'
    BY CoreStep DEF WatchesInv, FleetKept, watchVars
  <2> QED
    BY <2>1, CoreBesidePolls
<1> QED
  BY <1>1, <1>2, WatchesInvariant, PTL DEF WatchesSpec

(* What the poll books is never left paused on a GPU that works, and no    *)
(* switch passes over a paused reservation for it.                         *)
THEOREM NobodyStrandedBesidePolls ==
  WatchesSpec /\ [][~BooksForAnother]_watchVars => []PausedOnlyWhileOff
<1>1. FleetCore => PausedOnlyWhileOff
  BY DEF FleetCore
<1> QED
  BY <1>1, FleetBesidePolls, PTL

(* delete_gpu and delete_server leave nothing live behind, although the    *)
(* poll books on what it found before them.                                *)
THEOREM RemovedHoldsNothingBesidePolls ==
  WatchesSpec /\ [][~BooksForAnother]_watchVars => []LiveOnlyOnPresent
<1>1. FleetCore => LiveOnlyOnPresent
  BY DEF FleetCore
<1> QED
  BY <1>1, FleetBesidePolls, PTL

-----------------------------------------------------------------------------
(***************************************************************************)
(* Who may hold what.  The poll never looks at access, so a run finds a    *)
(* student with a reservation on a server taken from them.  There is one   *)
(* way to get there: access is taken while a watch of the student waits on *)
(* the server, or while the poll has found one.                            *)
(***************************************************************************)
WaitsOn(x, u, s) == x.user = u /\ ServerOf[x.gpu] = s
RevokesUnderWatch ==
  \E u \in Users : \E s \in access[u] \ access'[u] :
    \/ \E w \in Wids : watches'[w] # NoRow /\ WaitsOn(watches'[w], u, s)
    \/ Polling /\ \E w \in DOMAIN poll.found : WaitsOn(poll.found[w], u, s)

HasAccess(x) == ServerOf[x.gpu] \in access[x.user]
AccessInv ==
  /\ HeldOnlyWithAccess
  /\ \A w \in Wids : IsWatch(w) => HasAccess(watches[w])
  /\ Polling => \A w \in DOMAIN poll.found : HasAccess(poll.found[w])
  /\ Locked => \A w \in Wids :
       poll.undo[2][w] # NoRow => HasAccess(poll.undo[2][w])

LEMMA RequestKeepsAccess ==
  ASSUME WatchesInv, FleetCore, AccessInv, RequestNext, ~RevokesUnderWatch
  PROVE  AccessInv'
<1>1. /\ ~Locked /\ poll' = poll
      /\ \A w \in Wids : watches'[w] # NoRow =>
           IsWatch(w) /\ watches'[w] = watches[w]
  BY DEF RequestNext, Deletions, Without, IsWatch
<1>2. HeldOnlyWithAccess'
  BY RequestIsBooking, CoreStep DEF WatchesInv, AccessInv, FleetKept
<1>3. ASSUME NEW x \in WatchRow, HasAccess(x),
             \/ \E w \in Wids : watches'[w] # NoRow /\ watches'[w] = x
             \/ Polling /\ \E w \in DOMAIN poll.found : poll.found[w] = x
      PROVE  ServerOf[x.gpu] \in access'[x.user]
  BY <1>3 DEF HasAccess, RevokesUnderWatch, WaitsOn, WatchRow
<1>4. ASSUME NEW w \in Wids, watches'[w] # NoRow PROVE HasAccess(watches[w])'
  <2>1. watches[w] \in WatchRow /\ HasAccess(watches[w])
    BY <1>1, <1>4 DEF AccessInv, WatchesInv, GoodWatches, WatchTable, IsWatch
  <2> QED
    BY <1>1, <1>3, <1>4, <2>1 DEF HasAccess
<1>5. ASSUME Polling, NEW w \in DOMAIN poll.found PROVE HasAccess(poll.found[w])'
  <2>1. poll.found[w] \in WatchRow /\ HasAccess(poll.found[w])
    BY <1>5, PollFields DEF AccessInv, WatchesInv
  <2> QED
    BY <1>1, <1>3, <1>5, <2>1 DEF HasAccess
<1> QED
  BY <1>1, <1>2, <1>4, <1>5 DEF AccessInv, IsWatch, Polling, Locked

LEMMA QuietKeepsAccess ==
  ASSUME AccessInv, UNCHANGED <<res, access>>,
         \A w \in Wids : watches'[w] # NoRow => HasAccess(watches'[w]),
         \/ ~Polling' \/ \A w \in DOMAIN poll'.found : HasAccess(poll'.found[w]),
         Locked' => Locked /\ poll'.undo = poll.undo
  PROVE  AccessInv'
<1>1. HeldOnlyWithAccess'
  BY DEF AccessInv, HeldOnlyWithAccess, IsRow, Live
<1> QED
  BY <1>1 DEF AccessInv, HasAccess, IsWatch

LEMMA WatchingKeepsAccess ==
  ASSUME WatchesInv, AccessInv,
         \/ WatchRequests \/ CleanUp \/ UNCHANGED watchVars
         \/ Tick /\ ~Attempting /\ UNCHANGED <<watches, poll>>
  PROVE  AccessInv'
<1>1. UNCHANGED <<res, access, poll>>
  BY DEF WatchRequests, CreateWatch, CancelWatch, CleanUp, Tick, vars, watchVars
<1>2. ASSUME \A w \in Wids : watches'[w] # NoRow => HasAccess(watches'[w])
      PROVE  AccessInv'
  BY <1>1, <1>2, QuietKeepsAccess DEF AccessInv, Polling, Locked
<1>3. ASSUME NEW u \in Users, NEW g \in Gpus, NEW start \in 0..MaxTime,
             NEW end \in 0..MaxTime, NEW ram \in Rams,
             CreateWatch(u, g, start, end, ram)
      PROVE  AccessInv'
  <2> DEFINE new == [user |-> u, gpu |-> g, start |-> start, end |-> end,
                     ram |-> ram, active |-> TRUE, booked |-> FALSE,
                     created |-> now]
  <2>1. PICK w \in Wids : watches' = [watches EXCEPT ![w] = new]
    BY <1>3 DEF CreateWatch
  <2>2. HasAccess(new)
    BY <1>3 DEF CreateWatch, HasAccess
  <2> HIDE DEF new
  <2> QED
    BY <1>2, <2>1, <2>2 DEF AccessInv, IsWatch, WatchesInv, GoodWatches, WatchTable
<1>4. ASSUME NEW w \in Wids, CancelWatch(w) PROVE AccessInv'
  <2> DEFINE new == [watches[w] EXCEPT !.active = FALSE]
  <2>1. watches' = [watches EXCEPT ![w] = new] /\ IsWatch(w)
    BY <1>4 DEF CancelWatch
  <2>2. watches[w] \in WatchRow
    BY <2>1 DEF IsWatch, WatchesInv, GoodWatches, WatchTable
  <2>3. HasAccess(new)
    BY <2>1, <2>2 DEF AccessInv, HasAccess, WatchRow
  <2> HIDE DEF new
  <2> QED
    BY <1>2, <2>1, <2>3 DEF AccessInv, IsWatch, WatchesInv, GoodWatches, WatchTable
<1>5. CASE UNCHANGED watches \/ CleanUp
  <2>1. \A w \in Wids : watches'[w] # NoRow => watches'[w] = watches[w]
    BY <1>5 DEF CleanUp, Without
  <2> QED
    BY <1>2, <2>1 DEF AccessInv, IsWatch
<1> QED
  BY <1>3, <1>4, <1>5 DEF WatchRequests, watchVars

LEMMA PollKeepsAccess ==
  ASSUME WatchesInv, AccessInv, PollNext
  PROVE  AccessInv'
<1>1. ASSUME UNCHANGED <<vars, watches>>, Locked' => Locked /\ poll'.undo = poll.undo,
             ~Polling' \/ \A w \in DOMAIN poll'.found : HasAccess(poll'.found[w])
      PROVE  AccessInv'
  BY <1>1, QuietKeepsAccess DEF AccessInv, vars, IsWatch
<1>2. CASE PollStart
  <2>1. poll'.found = <<>> /\ poll'.undo = <<>>
    BY <1>2 DEF PollStart, Begun
  <2> QED
    BY <1>1, <1>2, <2>1 DEF PollStart, Locked
<1>3. CASE PollEnd
  BY <1>1, <1>3 DEF PollEnd, Idle, Locked, Polling
<1>4. ASSUME Polling PROVE poll \in Polls
  BY <1>4, PollFields DEF WatchesInv
<1>5. ASSUME NEW s \in Servers, PollServer(s) PROVE AccessInv'
  <2>1. poll'.at = poll.at /\ poll'.undo = poll.undo /\ poll'.found = poll.found
    BY <1>4, <1>5 DEF PollServer, Polls
  <2> QED
    BY <1>1, <1>5, <2>1 DEF PollServer, Locked, AccessInv, Polling
<1>6. ASSUME NEW g \in Gpus, PollFind(g) PROVE AccessInv'
  <2> DEFINE found == [w \in Matching(g) |-> watches[w]]
  <2>1. \A w \in DOMAIN found : HasAccess(found[w])
    BY DEF AccessInv, Matching, Pending
  <2>2. poll' = [poll EXCEPT !.gpus = @ \ {g}, !.found = found]
    BY <1>6 DEF PollFind
  <2> HIDE DEF found
  <2>3. poll'.at = poll.at /\ poll'.undo = poll.undo /\ poll'.found = found
    BY <1>4, <1>6, <2>2 DEF PollFind, Polls
  <2> QED
    BY <1>1, <1>6, <2>1, <2>3 DEF PollFind, Locked
<1>7. ASSUME NEW w \in Wids, Foremost(w), poll'.found = Rest(w)
      PROVE  \A v \in DOMAIN poll'.found : HasAccess(poll'.found[v])
  BY <1>7 DEF Rest, Foremost, AccessInv
<1>8. ASSUME NEW w \in Wids, Skip(w) PROVE AccessInv'
  <2>1. Foremost(w)
    BY <1>8 DEF Skip, Refused
  <2> QED
    BY <1>1, <1>7, <1>8, <2>1, SkipStep DEF Locked
<1>11. ASSUME NEW w \in Wids,
              Try(w) \/ CheckCount(w) \/ CheckRoom(w) \/ CheckGpus(w)
       PROVE  AccessInv'
  <2>1. Polling /\ UNCHANGED <<vars, watches>> /\ poll'.at = poll.at
        /\ poll'.undo = poll.undo /\ poll'.found = poll.found
    BY <1>11, CheckIs DEF Foremost
  <2> QED
    BY <1>1, <2>1 DEF Locked, AccessInv, Polling
<1>9. ASSUME NEW w \in Wids, Book(w) PROVE AccessInv'
  <2> DEFINE used == [watches[w] EXCEPT !.active = FALSE, !.booked = TRUE]
             undo == IF Locked THEN poll.undo ELSE <<res, watches>>
  <2>1. /\ Foremost(w) /\ IsWatch(w)
        /\ watches' = [watches EXCEPT ![w] = used]
        /\ poll' = [poll EXCEPT !.found = Rest(w), !.step = "next",
                                !.undo = undo]
        /\ access' = access
    BY <1>9 DEF Book
  <2>2. watches[w] \in WatchRow
    BY <2>1 DEF IsWatch, WatchesInv, GoodWatches, WatchTable
  <2>3. HasAccess(used)
    BY <2>1, <2>2 DEF AccessInv, HasAccess, WatchRow
  <2>4. \A v \in Wids : undo[2][v] # NoRow => HasAccess(undo[2][v])
    BY DEF AccessInv, IsWatch
  <2> HIDE DEF used, undo
  <2>5. poll'.undo = undo /\ poll'.found = Rest(w)
    BY <1>4, <2>1 DEF Foremost, Polls
  <2>6. \A v \in DOMAIN poll'.found : HasAccess(poll'.found[v])
    BY <2>1, <2>5 DEF Rest, Foremost, AccessInv
  <2>7. \A v \in Wids : watches'[v] # NoRow => HasAccess(watches'[v])
    BY <2>1, <2>3 DEF AccessInv, IsWatch, WatchesInv, GoodWatches, WatchTable
  <2>8. HeldOnlyWithAccess'
    <3>1. PICK q \in Rids : /\ res'[q].user = poll.found[w].user
                            /\ res'[q].gpu = poll.found[w].gpu
                            /\ \A r \in Rids : r # q => res'[r] = res[r]
      BY <1>9, BookAdds DEF Adds, BooksFor
    <3>2. HasAccess(poll.found[w])
      BY <2>1 DEF Foremost, AccessInv
    <3> QED
      BY <2>1, <3>1, <3>2 DEF AccessInv, HeldOnlyWithAccess, HasAccess, IsRow, Live
  <2> QED
    BY <2>1, <2>4, <2>5, <2>6, <2>7, <2>8 DEF AccessInv, HasAccess, IsWatch
<1>10. ASSUME NEW w \in Wids, Abort(w) PROVE AccessInv'
  <2>1. poll'.at = "aborted" /\ access' = access
    BY <1>10 DEF Abort
  <2>2. \A v \in Wids : watches'[v] # NoRow => HasAccess(watches'[v])
    BY <1>10 DEF Abort, AccessInv, IsWatch
  <2>3. \A r \in Rids : IsRow(r)' => IsRow(r) /\ res'[r] = res[r]
    BY <1>10, TakenBack DEF Abort, TakesBack, IsRow
  <2>4. HeldOnlyWithAccess'
    BY <2>1, <2>3 DEF AccessInv, HeldOnlyWithAccess, Live
  <2> QED
    BY <2>1, <2>2, <2>4 DEF AccessInv, HasAccess, IsWatch, Polling, Locked
<1> QED
  BY <1>2, <1>3, <1>5, <1>6, <1>8, <1>9, <1>10, <1>11 DEF PollNext

(* A student holds reservations only on servers they may use, the ones the *)
(* poll books included, unless access is taken under a waiting watch.      *)
THEOREM AccessIsKeptBesidePolls ==
  WatchesSpec /\ [][~BooksForAnother /\ ~RevokesUnderWatch]_watchVars
    => []HeldOnlyWithAccess
<1>1. WatchesInit => AccessInv
  BY FleetInit
  DEF WatchesInit, FleetInv, AccessInv, IsWatch, Idle, Polling, Locked
<1>2. /\ WatchesInv /\ FleetCore /\ AccessInv /\ [WatchesNext]_watchVars
      /\ [~BooksForAnother /\ ~RevokesUnderWatch]_watchVars
      => AccessInv'
  <2>1. ASSUME WatchesInv, AccessInv, UNCHANGED watchVars PROVE AccessInv'
    BY <2>1, WatchingKeepsAccess
  <2>2. ASSUME WatchesInv, FleetCore, AccessInv, WatchesNext, ~RevokesUnderWatch
        PROVE  AccessInv'
    <3>1. CASE RequestNext
      BY <2>2, <3>1, RequestKeepsAccess
    <3>2. CASE PollNext
      BY <2>2, <3>2, PollKeepsAccess
    <3>3. CASE \/ WatchRequests \/ CleanUp
               \/ Tick /\ ~Attempting /\ UNCHANGED <<watches, poll>>
      BY <2>2, <3>3, WatchingKeepsAccess
    <3> QED
      BY <2>2, <3>1, <3>2, <3>3 DEF WatchesNext
  <2> QED
    BY <2>1, <2>2
<1>3. AccessInv => HeldOnlyWithAccess
  BY DEF AccessInv
<1>4. [~BooksForAnother /\ ~RevokesUnderWatch]_watchVars
        => [~BooksForAnother]_watchVars
  OBVIOUS
<1> QED
  BY <1>1, <1>2, <1>3, <1>4, WatchesInvariant, FleetBesidePolls, PTL DEF WatchesSpec

-----------------------------------------------------------------------------
(***************************************************************************)
(* The room on a GPU.  What a poll books first it has checked before it    *)
(* had the lock, and requests, run one after the other, may have come in   *)
(* between; from then on nobody comes in.                                  *)
(***************************************************************************)
LEMMA PositiveBesidePolls ==
  ASSUME WatchesInv, RamsPositive, [WatchesNext]_watchVars
  PROVE  RamsPositive'
<1>1. CASE Next
  BY <1>1, PositiveStep DEF WatchesInv
<1>2. ASSUME NEW w \in Wids, Book(w) PROVE RamsPositive'
  <2>1. PICK q \in Rids : /\ res'[q].ram > 0
                          /\ \A r \in Rids : r # q => res'[r] = res[r]
    BY <1>2, BookAdds DEF Adds
  <2> QED
    BY <2>1 DEF RamsPositive, IsRow, Live
<1>3. CASE (UNCHANGED vars) \/ TakesBack
  <2>1. \A r \in Rids : IsRow(r)' => IsRow(r) /\ res'[r] = res[r]
    BY <1>3, TakenBack DEF vars, IsRow
  <2> QED
    BY <2>1 DEF RamsPositive, Live
<1> QED
  BY <1>1, <1>2, <1>3, KindsOfMove

LEMMA RamsBesidePolls == WatchesSpec => []RamsPositive
<1>1. WatchesInit => RamsPositive
  BY DEF WatchesInit, Init, RamsPositive, IsRow
<1> QED
  BY <1>1, PositiveBesidePolls, WatchesInvariant, PTL DEF WatchesSpec

LEMMA HeldIsInt ==
  ASSUME TypeOK, RamsPositive, NEW g, NEW t
  PROVE  Held(g, t) \in Int
BY ActiveInIs, UsageOfActive, HeldIs DEF TypeOK, RamsPositive, IsRow, Live

LEMMA HeldStaysInt ==
  ASSUME TypeOK', RamsPositive', NEW g, NEW t
  PROVE  Held(g, t)' \in Int
BY ActiveInIs, UsageOfActive, HeldIs DEF TypeOK, RamsPositive, IsRow, Live

LEMMA HeldStays ==
  ASSUME res' = res, NEW g, NEW t
  PROVE  Held(g, t)' = Held(g, t)
BY HeldIs

LEMMA NoResume ==
  ASSUME UNCHANGED res
  PROVE  ~Resumes
BY DEF Resumes, Rows, IsRow

(* Whatever moves the tables except a poll's booking.                      *)
LEMMA HeldUnlessBooked ==
  ASSUME WatchesInv, TypeOK', RamsPositive, RamsPositive',
         [WatchesNext]_watchVars, ~\E w \in Wids : Book(w),
         NEW g \in Gpus, NEW t \in Instants
  PROVE  Held(g, t)' > gpus'[g].ram => Held(g, t)' <= Held(g, t) \/ Resumes
<1>1. Held(g, t) \in Int
  BY HeldIsInt DEF WatchesInv
<1>2. CASE Next
  BY <1>2, RoomInNext DEF WatchesInv, OverfillStep
<1>3. CASE UNCHANGED vars
  <2>1. Held(g, t)' = Held(g, t)
    BY <1>3, HeldStays DEF vars
  <2> QED
    BY <1>1, <2>1
<1>4. CASE TakesBack
  BY <1>4, TakenBack, FadingKeepsRoom DEF WatchesInv
<1> QED
  BY <1>2, <1>3, <1>4, KindsOfMove

LEMMA HeldIfBooked ==
  ASSUME WatchesInv, TypeOK', RamsPositive, RamsPositive', NEW g \in Gpus,
         NEW start \in Nat, NEW end \in Nat, NEW ram, NEW u, NEW q \in Rids,
         Adds(q, u, g, start, end, ram), NEW h \in Gpus, NEW t \in Instants
  PROVE  Held(h, t)' = IF g = h /\ start <= t /\ t < end
                       THEN Held(h, t) + ram ELSE Held(h, t)
BY BookingAdds DEF Adds, WatchesInv

LEMMA RoomUnderLock ==
  ASSUME WatchesInv, TypeOK', RamsPositive, RamsPositive', NEW w \in Wids,
         Book(w), NEW g \in Gpus, NEW t \in Instants,
         poll.found[w].gpu = g => Locked /\ poll.rams[g] = gpus[g].ram
  PROVE  Held(g, t)' > gpus'[g].ram => Held(g, t)' <= Held(g, t)
<1>1. PICK u \in Users, h \in Gpus, start \in Nat, end \in Nat, ram \in Rams,
           q \in Rids :
        /\ BooksFor(w, u, h, start, end, ram) /\ ram \in Int
        /\ Adds(q, u, h, start, end, ram)
  BY BookAdds
<1>2. CASE h # g
  <2>1. Held(g, t)' = Held(g, t) /\ Held(g, t) \in Int
    BY <1>1, <1>2, HeldIfBooked, HeldIsInt DEF WatchesInv
  <2> QED
    BY <2>1
<1>3. CASE h = g
  <2>1. Locked /\ poll.rams[h] = gpus[h].ram
    BY <1>1, <1>3 DEF BooksFor
  <2>2. HasRoom(poll.found[w], poll.rg, poll.rams[poll.found[w].gpu])
    BY <2>1, BookTried DEF Admitted, Past
  <2>3. PeakConcurrentRam(OverlappingActive(h, start, end), start, end) + ram
          <= gpus[h].ram
    BY <1>1, <2>1, <2>2 DEF HasRoom, PeakBeside, BooksFor
  <2>4. gpus' = gpus /\ start \in Int /\ end \in Int
    BY BookQuiet
  <2> QED
    BY <1>1, <2>3, <2>4, RoomOfBooking DEF WatchesInv
<1> QED
  BY <1>2, <1>3

LEMMA RoomBesidePolls ==
  ASSUME WatchesInv, TypeOK', RamsPositive, RamsPositive', [WatchesNext]_watchVars
  PROVE  PollOverfillStep
<1>1. ASSUME NEW w \in Wids, Book(w) PROVE PollOverfillStep
  <2>1. ASSUME NEW g \in Gpus, NEW t \in Instants, Held(g, t)' > gpus'[g].ram,
               ~(BooksOn(g) /\ (~Locked \/ poll.rams[g] # gpus[g].ram))
        PROVE  Held(g, t)' <= Held(g, t)
    BY <1>1, <2>1, RoomUnderLock DEF BooksOn
  <2> QED
    BY <2>1 DEF PollOverfillStep
<1>2. CASE ~\E w \in Wids : Book(w)
  <2>1. \A g \in Gpus, t \in Instants :
          Held(g, t)' > gpus'[g].ram => Held(g, t)' <= Held(g, t) \/ Resumes
    BY <1>2, HeldUnlessBooked
  <2> QED
    BY <2>1 DEF PollOverfillStep
<1> QED
  BY <1>1, <1>2

(* Beside the polls, with requests that run one after the other, a GPU is  *)
(* overfilled only by a resume, by the first booking of a poll, or by one  *)
(* of a poll that has loaded another RAM size: what create_reservation     *)
(* sums under the lock is what is there.                                   *)
THEOREM PollsOverfillOnlyFirst == WatchesSpec => OverfilledOnlyByFirstBooking
<1>1. WatchesInv => TypeOK
  BY DEF WatchesInv
<1>2. WatchesInv /\ TypeOK' /\ RamsPositive /\ RamsPositive'
      /\ [WatchesNext]_watchVars => [PollOverfillStep]_watchVars
  BY RoomBesidePolls
<1> QED
  BY <1>1, <1>2, RamsBesidePolls, WatchesInvariant, PTL
  DEF WatchesSpec, OverfilledOnlyByFirstBooking

(* And by no more than that one booking, while nothing paused resumes and  *)
(* no GPU comes back with another size: once the sum has been looked up,   *)
(* the requests that come in leave the window no more than full.           *)
SameSizes == \A g \in Gpus : gpus'[g].ram = gpus[g].ram
SizesLoaded == Polling => \A g \in Gpus : poll.rams[g] = gpus[g].ram
FullAtMost(w) ==
  LET x == poll.found[w]
  IN  \A t \in Instants :
        WindowStart(x, poll.rg) <= t /\ t < WindowEnd(x, poll.rg) =>
          Held(x.gpu, t) <= gpus[x.gpu].ram
RoomSeen ==
  Polling /\ Past({"gpus", "insert"}) =>
    \A w \in Wids : Foremost(w) => FullAtMost(w)
OverfullByOneAtMost ==
  \A g \in Gpus, t \in Instants :
    \E m \in Rams \cup {0} : Held(g, t) <= gpus[g].ram + m

(* A step that is not the poll's leaves it as it is, and leaves time alone *)
(* while an attempt is on.                                                 *)
LEMMA BesidePoll ==
  ASSUME [WatchesNext]_watchVars, ~PollNext
  PROVE  /\ poll' = poll
         /\ Attempting => now' = now
BY RequestTakesNoTime
DEF WatchesNext, WatchRequests, CreateWatch, CancelWatch, RequestNext, CleanUp,
    vars, watchVars

LEMMA SizesStep ==
  ASSUME WatchesInv, SizesLoaded, [WatchesNext]_watchVars, SameSizes
  PROVE  SizesLoaded'
<1>1. CASE ~PollNext
  BY <1>1, BesidePoll DEF SizesLoaded, SameSizes, Polling
<1>2. Polling => poll \in Polls
  BY PollFields DEF WatchesInv
<1>3. CASE PollStart
  BY <1>3 DEF PollStart, Begun, SizesLoaded, SameSizes
<1>4. ASSUME NEW s \in Servers, PollServer(s) PROVE SizesLoaded'
  <2>1. poll'.rams = [g \in Gpus |-> gpus[g].ram]
    BY <1>2, <1>4 DEF PollServer, Polls
  <2> QED
    BY <2>1 DEF SizesLoaded, SameSizes
<1>5. ASSUME NEW g \in Gpus, PollFind(g) PROVE SizesLoaded'
  <2>1. poll'.rams = poll.rams /\ Polling
    BY <1>2, <1>5 DEF PollFind, Polls
  <2> QED
    BY <2>1 DEF SizesLoaded, SameSizes
<1>6. ASSUME NEW w \in Wids,
             \/ Try(w) \/ CheckCount(w) \/ CheckRoom(w) \/ CheckGpus(w)
             \/ Book(w) \/ Skip(w)
      PROVE  SizesLoaded'
  <2>1. Polling
    BY <1>6 DEF Try, CheckCount, CheckRoom, CheckGpus, Checked, Book, Skip,
                Refused, Foremost
  <2>2. poll'.rams = poll.rams
    <3>1. CASE Book(w)
      BY <1>2, <2>1, <3>1 DEF Book, Polls
    <3>2. CASE Skip(w)
      BY <1>2, <2>1, <3>2 DEF Skip, Polls
    <3> QED
      BY <1>6, <3>1, <3>2, CheckIs
  <2> QED
    BY <2>1, <2>2 DEF SizesLoaded, SameSizes
<1>7. ASSUME PollEnd \/ \E w \in Wids : Abort(w) PROVE SizesLoaded'
  BY <1>7 DEF PollEnd, Abort, SizesLoaded, Polling, Idle
<1> QED
  BY <1>1, <1>3, <1>4, <1>5, <1>6, <1>7 DEF PollNext

(* What the sum that was looked up says of the window.                     *)
LEMMA RoomLookedUp ==
  ASSUME WatchesInv, RamsPositive, SizesLoaded, NEW w \in Wids, CheckRoom(w)
  PROVE  FullAtMost(w)
<1>1. /\ Foremost(w) /\ poll.step = "room" /\ Polling
      /\ HasRoom(poll.found[w], poll.rg, poll.rams[poll.found[w].gpu])
  BY DEF CheckRoom, Checked, Passes, Foremost
<1>2. /\ poll.found[w] \in WatchRow /\ poll.rg \in Regulations
      /\ poll.found[w].gpu \in Gpus /\ poll.found[w].ram \in Int
  BY <1>1, ForemostIs DEF WatchesInv
<1>3. InRules(poll.found[w], poll.rg, poll.rams[poll.found[w].gpu])
  BY <1>1 DEF WatchesInv, AttemptOK, Attempting, Admitted
<1>4. /\ poll.rg.slot # 0 /\ poll.found[w].ram > 0
      /\ WindowStart(poll.found[w], poll.rg) < WindowEnd(poll.found[w], poll.rg)
  BY <1>3 DEF InRules
<1>5. /\ WindowStart(poll.found[w], poll.rg) \in Nat
      /\ WindowEnd(poll.found[w], poll.rg) \in Nat
  BY <1>2, <1>4, WindowInside
<1>6. PICK g \in Gpus, start \in Nat, end \in Nat, ram \in Int :
        /\ g = poll.found[w].gpu /\ ram = poll.found[w].ram
        /\ start = WindowStart(poll.found[w], poll.rg)
        /\ end = WindowEnd(poll.found[w], poll.rg)
  BY <1>2, <1>5
<1> DEFINE peak == PeakConcurrentRam(OverlappingActive(g, start, end), start, end)
<1>7. peak + ram <= gpus[g].ram /\ ram > 0
  BY <1>1, <1>4, <1>6 DEF HasRoom, PeakBeside, SizesLoaded
<1>8. ASSUME NEW t \in Instants, start <= t, t < end
      PROVE  Held(g, t) <= gpus[g].ram
  <2>1. t \in start..(end - 1) /\ start \in Int /\ end \in Int
    BY <1>8, TimeAssumption DEF Instants
  <2>2. peak \in Int /\ peak >= Held(g, t)
    BY <2>1, RoomIsSeen DEF WatchesInv
  <2>3. Held(g, t) \in Int /\ gpus[g].ram \in Int
    BY HeldIsInt DEF WatchesInv, TypeOK
  <2> HIDE DEF peak
  <2> QED
    BY <1>7, <2>2, <2>3
<1> QED
  BY <1>6, <1>8 DEF FullAtMost

(* A window that is no more than full stays so.                            *)
LEMMA FullStays ==
  ASSUME WatchesInv, TypeOK', RamsPositive, RamsPositive', NEW w \in Wids,
         FullAtMost(w), Foremost(w), [WatchesNext]_watchVars,
         ~\E v \in Wids : Book(v), ~Resumes, SameSizes, now' = now,
         poll'.found = poll.found, poll'.rg = poll.rg
  PROVE  FullAtMost(w)'
<1>1. poll.found[w].gpu \in Gpus
  BY ForemostIs DEF WatchesInv
<1>2. PICK x, rg : x = poll.found[w] /\ rg = poll.rg
  OBVIOUS
<1> DEFINE g == x.gpu
<1>9. g \in Gpus
  BY <1>1, <1>2
<1>3. /\ WindowStart(x, rg)' = WindowStart(x, rg)
      /\ WindowEnd(x, rg)' = WindowEnd(x, rg)
  BY WindowStays
<1>4. ASSUME NEW t \in Instants, Held(g, t) <= gpus[g].ram
      PROVE  Held(g, t)' <= gpus'[g].ram
  <2>1. /\ Held(g, t) \in Int /\ Held(g, t)' \in Int
        /\ gpus'[g].ram = gpus[g].ram /\ gpus[g].ram \in Int
    BY <1>9, HeldIsInt, HeldStaysInt DEF WatchesInv, TypeOK, SameSizes
  <2>2. Held(g, t)' > gpus'[g].ram => Held(g, t)' <= Held(g, t)
    BY <1>9, HeldUnlessBooked
  <2> QED
    BY <1>4, <2>1, <2>2
<1>5. /\ \A t \in Instants :
           WindowStart(x, rg) <= t /\ t < WindowEnd(x, rg) =>
             Held(g, t) <= gpus[g].ram
  BY <1>2 DEF FullAtMost
<1>6. \A t \in Instants :
        WindowStart(x, rg)' <= t /\ t < WindowEnd(x, rg)' =>
          Held(g, t)' <= gpus'[g].ram
  BY <1>3, <1>4, <1>5
<1>7. x = poll'.found[w] /\ rg = poll'.rg
  BY <1>2
<1>8. Instants' = Instants
  BY DEF Instants
<1> QED
  BY <1>6, <1>7, <1>8 DEF FullAtMost

LEMMA RoomSeenStep ==
  ASSUME WatchesInv, WatchesInv', RamsPositive, RamsPositive', SizesLoaded,
         RoomSeen, [WatchesNext]_watchVars, ~Resumes, SameSizes
  PROVE  RoomSeen'
<1>1. TypeOK /\ TypeOK'
  BY DEF WatchesInv
<1>2. ASSUME ~(Polling /\ Past({"gpus", "insert"}))' PROVE RoomSeen'
  BY <1>2 DEF RoomSeen
<1>3. CASE ~PollNext
  <2> SUFFICES ASSUME (Polling /\ Past({"gpus", "insert"}))',
                      NEW w \in Wids, Foremost(w)'
               PROVE  FullAtMost(w)'
    BY DEF RoomSeen
  <2>1. poll' = poll /\ Polling /\ Past({"gpus", "insert"}) /\ Foremost(w)
        /\ Attempting
    BY <1>3, BesidePoll DEF Polling, Past, Foremost, Attempting
  <2>2. now' = now /\ ~\E v \in Wids : Book(v)
    BY <1>3, <2>1, BesidePoll DEF PollNext
  <2>3. FullAtMost(w)
    BY <2>1 DEF RoomSeen
  <2> QED
    BY <1>1, <2>1, <2>2, <2>3, FullStays
<1>4. ASSUME NEW w \in Wids, CheckRoom(w) \/ CheckGpus(w) PROVE RoomSeen'
  <2>1. /\ UNCHANGED <<vars, watches>> /\ Foremost(w) /\ poll'.at = poll.at
        /\ poll'.found = poll.found /\ poll'.rg = poll.rg
    BY <1>4, CheckIs
  <2>2. now' = now /\ res' = res
    BY <2>1 DEF vars
  <2>3. FullAtMost(w)
    <3>1. CASE CheckRoom(w)
      BY <3>1, RoomLookedUp
    <3>2. CASE CheckGpus(w)
      BY <2>1, <3>2 DEF CheckGpus, Checked, RoomSeen, Past, Foremost
    <3> QED
      BY <1>4, <3>1, <3>2
  <2>4. ~\E v \in Wids : Book(v)
    <3>1. poll.step # "insert"
      BY <1>4 DEF CheckRoom, CheckGpus, Checked
    <3> QED
      BY <3>1 DEF Book
  <2>5. FullAtMost(w)'
    BY <1>1, <2>1, <2>2, <2>3, <2>4, FullStays
  <2>6. \A v \in Wids : Foremost(v)' => v = w
    BY <2>1, OnlyForemost DEF Foremost, Polling
  <2> QED
    BY <2>5, <2>6 DEF RoomSeen
<1>5. ASSUME \/ PollStart \/ PollEnd
             \/ \E w \in Wids : Abort(w)
      PROVE  RoomSeen'
  BY <1>2, <1>5
  DEF PollStart, PollEnd, Abort, Begun, Idle, Polling, Past
<1>6. ASSUME \/ \E s \in Servers : PollServer(s)
             \/ \E g \in Gpus : PollFind(g)
             \/ \E w \in Wids : Skip(w)
      PROVE  RoomSeen'
  <2>1. ~Attempting'
    BY <1>6, PollLoadsStep, SkipStep
  <2> QED
    BY <1>2, <2>1 DEF Attempting, Past
<1>7. ASSUME NEW w \in Wids, Book(w) PROVE RoomSeen'
  <2>1. poll'.step = "next"
    <3>1. poll \in Polls
      BY <1>7, BookTried, ForemostIs DEF WatchesInv
    <3> QED
      BY <1>7, <3>1 DEF Book, Polls
  <2> QED
    BY <1>2, <2>1 DEF Past
<1>8. ASSUME NEW w \in Wids, Try(w) \/ CheckCount(w) PROVE RoomSeen'
  <2>1. poll'.step \in {"count", "room"}
    <3>1. poll.step \in {"next", "count"}
      BY <1>8 DEF Try, CheckCount, Checked
    <3> QED
      BY <1>8, <3>1, CheckIs
  <2> QED
    BY <1>2, <2>1 DEF Past
<1> QED
  BY <1>3, <1>4, <1>5, <1>6, <1>7, <1>8 DEF PollNext

LEMMA OverfullStep ==
  ASSUME WatchesInv, WatchesInv', RamsPositive, RamsPositive', RoomSeen,
         OverfullByOneAtMost, [WatchesNext]_watchVars, ~Resumes, SameSizes
  PROVE  OverfullByOneAtMost'
<1> SUFFICES ASSUME NEW g \in Gpus, NEW t \in Instants
             PROVE  \E m \in Rams \cup {0} : Held(g, t)' <= gpus'[g].ram + m
  BY DEF OverfullByOneAtMost, Instants
<1>1. /\ Held(g, t) \in Int /\ Held(g, t)' \in Int
      /\ gpus'[g].ram = gpus[g].ram /\ gpus[g].ram \in Int
  BY HeldIsInt, HeldStaysInt DEF WatchesInv, TypeOK, SameSizes
<1>2. PICK m \in Rams \cup {0} : Held(g, t) <= gpus[g].ram + m
  BY DEF OverfullByOneAtMost
<1>3. m \in Int
  BY RamsAssumption
<1>4. CASE ~\E w \in Wids : Book(w)
  <2>1. Held(g, t)' > gpus'[g].ram => Held(g, t)' <= Held(g, t)
    BY <1>4, HeldUnlessBooked DEF WatchesInv
  <2>2. CASE Held(g, t)' > gpus'[g].ram
    BY <1>1, <1>2, <1>3, <2>1, <2>2
  <2>3. CASE ~(Held(g, t)' > gpus'[g].ram)
    <3>1. Held(g, t)' <= gpus'[g].ram + 0
      BY <1>1, <2>3
    <3> QED
      BY <3>1
  <2> QED
    BY <2>2, <2>3
<1>5. ASSUME NEW w \in Wids, Book(w)
      PROVE  \E n \in Rams \cup {0} : Held(g, t)' <= gpus'[g].ram + n
  <2>1. PICK u \in Users, h \in Gpus, start \in Nat, end \in Nat, ram \in Rams,
             q \in Rids :
          /\ BooksFor(w, u, h, start, end, ram) /\ ram \in Int
          /\ Adds(q, u, h, start, end, ram)
    BY <1>5, BookAdds
  <2>2. Held(g, t)' = IF h = g /\ start <= t /\ t < end
                      THEN Held(g, t) + ram ELSE Held(g, t)
    BY <2>1, HeldIfBooked DEF WatchesInv
  <2>3. CASE h = g /\ start <= t /\ t < end
    <3>1. FullAtMost(w)
      BY <1>5, BookTried DEF RoomSeen, Past
    <3>2. Held(g, t) <= gpus[g].ram
      BY <2>1, <2>3, <3>1 DEF FullAtMost, BooksFor
    <3>3. Held(g, t)' <= gpus'[g].ram + ram
      BY <1>1, <2>1, <2>2, <2>3, <3>2
    <3> QED
      BY <2>1, <3>3
  <2>4. CASE ~(h = g /\ start <= t /\ t < end)
    BY <1>1, <1>2, <2>2, <2>4
  <2> QED
    BY <2>3, <2>4
<1> QED
  BY <1>4, <1>5

(* While nothing paused resumes and no GPU comes back with another size,   *)
(* polls and requests beside each other never fill a GPU beyond its RAM by *)
(* more than one booking: what a poll checks without the lock costs no     *)
(* more than that, however many polls there are and whatever comes in      *)
(* between.                                                                *)
THEOREM OverfillBesidePollsIsBounded ==
  WatchesSpec /\ [][~Resumes /\ SameSizes]_watchVars => []OverfullByOneAtMost
<1> DEFINE Seen == SizesLoaded /\ RoomSeen /\ OverfullByOneAtMost
<1>1. WatchesInit => Seen
  <2> SUFFICES ASSUME WatchesInit PROVE OverfullByOneAtMost
    BY DEF WatchesInit, SizesLoaded, RoomSeen, Polling, Idle
  <2> SUFFICES ASSUME NEW g \in Gpus, NEW t \in Instants
               PROVE  \E m \in Rams \cup {0} : Held(g, t) <= gpus[g].ram + m
    BY DEF OverfullByOneAtMost
  <2>1. Held(g, t) <= gpus[g].ram
    BY RoomAtInit DEF WatchesInit, RoomInv, NeverOverfilled
  <2>2. RoomInv
    BY RoomAtInit DEF WatchesInit
  <2>3. Held(g, t) \in Int /\ gpus[g].ram \in Int
    BY <2>2, HeldIsInt DEF RoomInv, TypeOK
  <2>4. Held(g, t) <= gpus[g].ram + 0
    BY <2>1, <2>3
  <2> QED
    BY <2>4
<1>2. /\ WatchesInv /\ WatchesInv' /\ RamsPositive /\ RamsPositive' /\ Seen
      /\ [WatchesNext]_watchVars /\ [~Resumes /\ SameSizes]_watchVars
      => Seen'
  <2> SUFFICES ASSUME WatchesInv, WatchesInv', RamsPositive, RamsPositive',
                      Seen, [WatchesNext]_watchVars,
                      [~Resumes /\ SameSizes]_watchVars
               PROVE  Seen'
    OBVIOUS
  <2>1. ~Resumes /\ SameSizes
    BY NoResume DEF SameSizes, watchVars, vars
  <2> QED
    BY <2>1, SizesStep, RoomSeenStep, OverfullStep
<1>3. Seen => OverfullByOneAtMost
  OBVIOUS
<1> HIDE DEF Seen
<1> QED
  BY <1>1, <1>2, <1>3, RamsBesidePolls, WatchesInvariant, PTL DEF WatchesSpec

-----------------------------------------------------------------------------
(***************************************************************************)
(* The limits of a student.  Under the lock the poll counts what is held,  *)
(* though against the cap it loaded when it started.                       *)
(***************************************************************************)
LEMMA QuietFades ==
  ASSUME TypeOK, UNCHANGED vars
  PROVE  Fades /\ now' \in Nat
BY DEF Fades, SameTerms, vars, TypeOK, IsRow, Live

LEMMA LimitUnlessBooked ==
  ASSUME WatchesInv, [WatchesNext]_watchVars, ~\E w \in Wids : Book(w)
  PROVE  LimitStep
<1>1. TypeOK /\ now \in Nat
  BY DEF WatchesInv, TypeOK
<1>2. CASE UNCHANGED vars
  BY <1>1, <1>2, QuietFades, FadingKeepsLimits
<1>3. CASE Next
  BY <1>1, <1>2, <1>3, LimitsInNext
<1>4. CASE TakesBack
  <2>1. now' \in Nat /\ Fades
    BY <1>1, <1>4, TakenBack DEF TakesBack
  <2> QED
    BY <1>1, <2>1, FadingKeepsLimits
<1> QED
  BY <1>2, <1>3, <1>4, KindsOfMove

LEMMA LimitsUnderLock ==
  ASSUME WatchesInv, NEW w \in Wids, Book(w), Locked, poll.rg = reg
  PROVE  LimitStep
<1>1. PICK u \in Users, g \in Gpus, start \in Nat, end \in Nat, ram \in Rams,
           q \in Rids :
        BooksFor(w, u, g, start, end, ram) /\ Adds(q, u, g, start, end, ram)
  BY BookAdds
<1>2. /\ CountLeft(poll.found[w], poll.rg)
      /\ GpuLeft(poll.found[w], poll.rg, poll.limit)
      /\ poll.limit = gpuLimit[poll.found[w].user]
  BY BookTried DEF Admitted, Past
<1>3. /\ Cardinality(HeldUpcoming(u)) < reg.maxActive
      /\ \/ g \in ConcurrentGpus(u, start, end)
         \/ Cardinality(ConcurrentGpus(u, start, end)) < gpuLimit[u]
  BY <1>1, <1>2 DEF CountLeft, GpuLeft, BooksFor
<1>4. UNCHANGED <<now, gpuLimit, reg>> /\ reg.maxActive \in Nat /\ TypeOK
  BY BookQuiet, RegulationsAssumption DEF WatchesInv, TypeOK
<1> QED
  BY <1>1, <1>3, <1>4, LimitsOfBooking

(* With polls as without, a student's two limits give way only to a resume *)
(* and to a booking on a GPU the student already holds in its window - and *)
(* to a booking of a poll that is its first, before which requests may     *)
(* have come in, or that goes by a regulation that has been changed since. *)
LimitsBesidePolls ==
  LimitStep \/ \E w \in Wids : Book(w) /\ (~Locked \/ poll.rg # reg)
THEOREM LimitsGiveWayBesidePolls ==
  WatchesSpec => [][LimitsBesidePolls]_watchVars
<1>1. WatchesInv /\ [WatchesNext]_watchVars => [LimitsBesidePolls]_watchVars
  BY LimitUnlessBooked, LimitsUnderLock DEF LimitsBesidePolls
<1> QED
  BY <1>1, WatchesInvariant, PTL DEF WatchesSpec

PollIsCurrent == Polling => poll.rg = reg

LEMMA CurrentStep ==
  ASSUME WatchesInv, PollIsCurrent, [WatchesNext]_watchVars, reg' = reg
  PROVE  PollIsCurrent'
<1>1. CASE ~PollNext
  BY <1>1, BesidePoll DEF PollIsCurrent, Polling
<1>2. CASE PollStart
  BY <1>2 DEF PollStart, Begun, PollIsCurrent
<1>3. CASE QuietPoll
  BY <1>3, QuietPollIs DEF PollIsCurrent, Polling
<1>4. ASSUME NEW w \in Wids, Book(w) PROVE PollIsCurrent'
  <2>1. poll \in Polls /\ Polling
    BY <1>4, BookTried, ForemostIs DEF WatchesInv
  <2>2. poll'.rg = poll.rg
    BY <1>4, <2>1 DEF Book, Polls
  <2> QED
    BY <2>1, <2>2 DEF PollIsCurrent
<1>5. ASSUME PollEnd \/ \E w \in Wids : Abort(w) PROVE PollIsCurrent'
  BY <1>5 DEF PollEnd, Abort, PollIsCurrent, Polling, Idle
<1> QED
  BY <1>1, <1>2, <1>3, <1>4, <1>5 DEF PollNext, QuietPoll

(* The count that was looked up, and the most there can be.                *)
InCap(w) == Cardinality(HeldUpcoming(poll.found[w].user)) <= reg.maxActive
CountSeen ==
  Polling /\ Past({"room", "gpus", "insert"}) =>
    \A w \in Wids : Foremost(w) => InCap(w)
CapByOneAtMost ==
  \A u \in Users : Cardinality(HeldUpcoming(u)) <= reg.maxActive + 1

LEMMA CountIsNat ==
  ASSUME NEW u
  PROVE  /\ Cardinality(HeldUpcoming(u)) \in Nat
         /\ Cardinality(HeldUpcoming(u)') \in Nat
<1> DEFINE O == HeldUpcoming(u)
           N == HeldUpcoming(u)'
<1>1. O \in SUBSET Rids /\ N \in SUBSET Rids
  BY DEF HeldUpcoming, Rows
<1> HIDE DEF O, N
<1>2. Cardinality(O) \in Nat /\ Cardinality(N) \in Nat
  BY <1>1, RidsFinite, FS_CardinalityType
<1> QED
  BY <1>2 DEF O, N

LEMMA InCapStays ==
  ASSUME WatchesInv, NEW w \in Wids, InCap(w), Foremost(w),
         [WatchesNext]_watchVars, ~\E v \in Wids : Book(v), ~Resumes,
         reg' = reg, poll'.found = poll.found
  PROVE  InCap(w)'
<1>1. poll.found[w].user \in Users
  BY ForemostIs DEF WatchesInv
<1>2. PICK u \in Users : u = poll.found[w].user
  BY <1>1
<1>3. /\ Cardinality(HeldUpcoming(u)) <= reg.maxActive
      /\ reg.maxActive \in Nat
      /\ Cardinality(HeldUpcoming(u)) \in Nat /\ Cardinality(HeldUpcoming(u)') \in Nat
  BY <1>2, CountIsNat, RegulationsAssumption DEF InCap, WatchesInv, TypeOK
<1>4. Cardinality(HeldUpcoming(u)') > reg'.maxActive =>
        Cardinality(HeldUpcoming(u)') <= Cardinality(HeldUpcoming(u))
  BY LimitUnlessBooked DEF LimitStep
<1>5. Cardinality(HeldUpcoming(u)') <= reg'.maxActive
  BY <1>3, <1>4
<1>6. u = poll'.found[w].user
  BY <1>2
<1> QED
  BY <1>5, <1>6 DEF InCap

LEMMA CountSeenStep ==
  ASSUME WatchesInv, PollIsCurrent, CountSeen, [WatchesNext]_watchVars,
         ~Resumes, reg' = reg
  PROVE  CountSeen'
<1>2. ASSUME ~(Polling /\ Past({"room", "gpus", "insert"}))' PROVE CountSeen'
  BY <1>2 DEF CountSeen
<1>3. CASE ~PollNext
  <2> SUFFICES ASSUME (Polling /\ Past({"room", "gpus", "insert"}))',
                      NEW w \in Wids, Foremost(w)'
               PROVE  InCap(w)'
    BY DEF CountSeen
  <2>1. poll' = poll /\ Foremost(w) /\ InCap(w)
    BY <1>3, BesidePoll DEF Polling, Past, Foremost, CountSeen
  <2>2. ~\E v \in Wids : Book(v)
    BY <1>3 DEF PollNext
  <2> QED
    BY <2>1, <2>2, InCapStays
<1>4. ASSUME NEW w \in Wids, CheckCount(w) \/ CheckRoom(w) \/ CheckGpus(w)
      PROVE  CountSeen'
  <2>1. /\ Foremost(w) /\ poll'.at = poll.at /\ poll'.found = poll.found
        /\ Polling
    BY <1>4, CheckIs DEF Foremost
  <2>2. InCap(w)
    <3>1. CASE CheckCount(w)
      <4>1. CountLeft(poll.found[w], poll.rg) /\ poll.rg = reg
        BY <2>1, <3>1 DEF CheckCount, Checked, Passes, PollIsCurrent
      <4>2. PICK u : u = poll.found[w].user
        OBVIOUS
      <4>3. /\ Cardinality(HeldUpcoming(u)) < reg.maxActive
            /\ Cardinality(HeldUpcoming(u)) \in Nat /\ reg.maxActive \in Nat
        BY <4>1, <4>2, CountIsNat, RegulationsAssumption
        DEF CountLeft, WatchesInv, TypeOK
      <4> QED
        BY <4>2, <4>3 DEF InCap
    <3>2. CASE CheckRoom(w) \/ CheckGpus(w)
      BY <2>1, <3>2 DEF CheckRoom, CheckGpus, Checked, CountSeen, Past
    <3> QED
      BY <1>4, <3>1, <3>2
  <2>3. ~\E v \in Wids : Book(v)
    <3>1. poll.step # "insert"
      BY <1>4 DEF CheckCount, CheckRoom, CheckGpus, Checked
    <3> QED
      BY <3>1 DEF Book
  <2>4. InCap(w)'
    BY <2>1, <2>2, <2>3, InCapStays
  <2>5. \A v \in Wids : Foremost(v)' => v = w
    BY <2>1, OnlyForemost DEF Foremost, Polling
  <2> QED
    BY <2>4, <2>5 DEF CountSeen
<1>5. ASSUME PollStart \/ PollEnd \/ \E w \in Wids : Abort(w)
      PROVE  CountSeen'
  BY <1>2, <1>5
  DEF PollStart, PollEnd, Abort, Begun, Idle, Polling, Past
<1>6. ASSUME \/ \E s \in Servers : PollServer(s)
             \/ \E g \in Gpus : PollFind(g)
             \/ \E w \in Wids : Skip(w)
      PROVE  CountSeen'
  <2>1. ~Attempting'
    BY <1>6, PollLoadsStep, SkipStep
  <2> QED
    BY <1>2, <2>1 DEF Attempting, Past
<1>7. ASSUME NEW w \in Wids, Book(w) PROVE CountSeen'
  <2>1. poll'.step = "next"
    <3>1. poll \in Polls
      BY <1>7, BookTried, ForemostIs DEF WatchesInv
    <3> QED
      BY <1>7, <3>1 DEF Book, Polls
  <2> QED
    BY <1>2, <2>1 DEF Past
<1>8. ASSUME NEW w \in Wids, Try(w) PROVE CountSeen'
  <2>1. poll'.step = "count"
    <3>1. poll.step = "next"
      BY <1>8 DEF Try
    <3> QED
      BY <1>8, <3>1, CheckIs
  <2> QED
    BY <1>2, <2>1 DEF Past
<1> QED
  BY <1>3, <1>4, <1>5, <1>6, <1>7, <1>8 DEF PollNext

LEMMA CapByOneStep ==
  ASSUME WatchesInv, CountSeen, CapByOneAtMost, [WatchesNext]_watchVars,
         ~Resumes, reg' = reg
  PROVE  CapByOneAtMost'
<1> SUFFICES ASSUME NEW u \in Users
             PROVE  Cardinality(HeldUpcoming(u)') <= reg'.maxActive + 1
  BY DEF CapByOneAtMost
<1>1. /\ Cardinality(HeldUpcoming(u)) <= reg.maxActive + 1
      /\ reg.maxActive \in Nat
      /\ Cardinality(HeldUpcoming(u)) \in Nat /\ Cardinality(HeldUpcoming(u)') \in Nat
  BY CountIsNat, RegulationsAssumption DEF CapByOneAtMost, WatchesInv, TypeOK
<1>2. CASE ~\E w \in Wids : Book(w)
  <2>1. Cardinality(HeldUpcoming(u)') > reg'.maxActive =>
          Cardinality(HeldUpcoming(u)') <= Cardinality(HeldUpcoming(u))
    BY <1>2, LimitUnlessBooked DEF LimitStep
  <2> QED
    BY <1>1, <2>1
<1>3. ASSUME NEW w \in Wids, Book(w)
      PROVE  Cardinality(HeldUpcoming(u)') <= reg'.maxActive + 1
  <2>1. PICK v \in Users, g \in Gpus, start \in Nat, end \in Nat, ram \in Rams,
             q \in Rids :
          BooksFor(w, v, g, start, end, ram) /\ Adds(q, v, g, start, end, ram)
    BY <1>3, BookAdds
  <2>2. now' = now
    BY <1>3, BookQuiet
  <2>3. /\ Cardinality(HeldUpcoming(u)') <= Cardinality(HeldUpcoming(u)) + 1
        /\ v # u =>
             Cardinality(HeldUpcoming(u)') <= Cardinality(HeldUpcoming(u))
    BY <2>1, <2>2, CountOfBooking
  <2>4. InCap(w)
    BY <1>3, BookTried DEF CountSeen, Past
  <2>5. v = u => Cardinality(HeldUpcoming(u)) <= reg.maxActive
    BY <2>1, <2>4 DEF InCap, BooksFor
  <2> QED
    BY <1>1, <2>3, <2>5
<1> QED
  BY <1>2, <1>3

(* While nothing paused resumes and the regulation stays, no student ever  *)
(* holds more than one reservation above the cap, whatever the student     *)
(* books between the checks of a poll and its booking (max_active).        *)
THEOREM CountBesidePollsIsBounded ==
  WatchesSpec /\ [][~Resumes /\ reg' = reg]_watchVars => []CapByOneAtMost
<1> DEFINE Seen == PollIsCurrent /\ CountSeen /\ CapByOneAtMost
<1>1. WatchesInit => Seen
  <2> SUFFICES ASSUME WatchesInit PROVE CapByOneAtMost
    BY DEF WatchesInit, PollIsCurrent, CountSeen, Polling, Idle
  <2> SUFFICES ASSUME NEW u \in Users
               PROVE  Cardinality(HeldUpcoming(u)) <= reg.maxActive + 1
    BY DEF CapByOneAtMost
  <2>1. Cardinality(HeldUpcoming(u)) <= reg.maxActive
    BY CapAtInit DEF WatchesInit, CapKept
  <2>2. Cardinality(HeldUpcoming(u)) \in Nat /\ reg.maxActive \in Nat
    BY CountIsNat, TypeInit, RegulationsAssumption DEF WatchesInit, TypeOK
  <2> QED
    BY <2>1, <2>2
<1>2. /\ WatchesInv /\ Seen /\ [WatchesNext]_watchVars
      /\ [~Resumes /\ reg' = reg]_watchVars
      => Seen'
  <2> SUFFICES ASSUME WatchesInv, Seen, [WatchesNext]_watchVars,
                      [~Resumes /\ reg' = reg]_watchVars
               PROVE  Seen'
    OBVIOUS
  <2>1. ~Resumes /\ reg' = reg
    BY NoResume DEF watchVars, vars
  <2> QED
    BY <2>1, CurrentStep, CountSeenStep, CapByOneStep
<1>3. Seen => CapByOneAtMost
  OBVIOUS
<1> HIDE DEF Seen
<1> QED
  BY <1>1, <1>2, <1>3, WatchesInvariant, PTL DEF WatchesSpec

-----------------------------------------------------------------------------
(***************************************************************************)
(* What is committed.  From its first booking to its commit the poll's     *)
(* tables are its own; everybody else still reads what an abort would put  *)
(* back.                                                                   *)
(***************************************************************************)
CommittedRes == IF Locked THEN poll.undo[1] ELSE res

(* Reservation history, as everybody but the poll reads it, is erased only *)
(* with the student's whole account (delete_user; a poll that dies takes   *)
(* back nothing that was committed).                                       *)
CommittedErasedStep ==
  \A r \in Rids :
    CommittedRes[r] # NoRow /\ CommittedRes'[r] = NoRow =>
      \A q \in Rids :
        CommittedRes[q] # NoRow /\ CommittedRes[q].user = CommittedRes[r].user
          => CommittedRes'[q] = NoRow

(* The poll moves what is committed in one step, its end, and only by      *)
(* adding the rows it has booked.                                          *)
LEMMA CommittedMoves ==
  ASSUME WatchesInv, WatchesInv', [WatchesNext]_watchVars
  PROVE  \/ CommittedRes = res /\ CommittedRes' = res' /\ [Next]_vars
         \/ \A r \in Rids : CommittedRes[r] # NoRow =>
              CommittedRes'[r] = CommittedRes[r]
<1>1. CASE RequestNext
  <2>1. ~Locked /\ ~Locked' /\ Next
    BY <1>1, RequestIsBooking DEF RequestNext, Locked
  <2> QED
    BY <2>1 DEF CommittedRes
<1>2. CASE \/ WatchRequests \/ CleanUp \/ UNCHANGED watchVars
           \/ Tick /\ ~Attempting /\ UNCHANGED <<watches, poll>>
  <2>1. UNCHANGED <<res, poll>>
    BY <1>2 DEF WatchRequests, CreateWatch, CancelWatch, CleanUp, Tick, vars,
                watchVars
  <2> QED
    BY <2>1 DEF CommittedRes, Locked
<1>3. ASSUME UNCHANGED res, Locked' => Locked /\ poll'.undo = poll.undo
      PROVE  \A r \in Rids : CommittedRes[r] # NoRow =>
               CommittedRes'[r] = CommittedRes[r]
  <2>1. \A r \in Rids : CommittedRes[r] # NoRow => CommittedRes[r] = res[r]
    BY DEF CommittedRes, WatchesInv, UndoOK
  <2> QED
    BY <1>3, <2>1 DEF CommittedRes
<1>4. ASSUME Polling PROVE poll \in Polls
  BY <1>4, PollFields DEF WatchesInv
<1>5. CASE PollStart \/ PollEnd
  <2>1. UNCHANGED res /\ ~Locked'
    BY <1>5 DEF PollStart, PollEnd, Begun, Idle, Locked, vars
  <2> QED
    BY <1>3, <2>1
<1>6. CASE QuietPoll
  <2>1. UNCHANGED res /\ poll'.undo = poll.undo /\ poll'.at = poll.at
    BY <1>6, QuietPollIs DEF vars
  <2> QED
    BY <1>3, <2>1 DEF Locked
<1>7. ASSUME NEW w \in Wids, Book(w)
      PROVE  CommittedRes' = CommittedRes
  <2> DEFINE undo == IF Locked THEN poll.undo ELSE <<res, watches>>
  <2>1. /\ poll' = [poll EXCEPT !.found = Rest(w), !.step = "next",
                                !.undo = undo]
        /\ Polling
    BY <1>7 DEF Book, Foremost
  <2>2. undo # <<>>
    BY DEF Locked
  <2>3. CommittedRes = undo[1]
    <3>1. ~Locked => undo = <<res, watches>>
      OBVIOUS
    <3> QED
      BY <3>1 DEF CommittedRes
  <2> HIDE DEF undo
  <2>4. poll'.undo = undo /\ poll'.at = poll.at
    BY <1>4, <2>1 DEF Polls
  <2> QED
    BY <2>1, <2>2, <2>3, <2>4 DEF CommittedRes, Locked, Polling
<1>8. ASSUME NEW w \in Wids, Abort(w)
      PROVE  CommittedRes' = CommittedRes
  BY <1>8 DEF Abort, CommittedRes, Locked
<1>9. CASE PollNext
  BY <1>5, <1>6, <1>7, <1>8, <1>9 DEF PollNext, QuietPoll
<1> QED
  BY <1>1, <1>2, <1>9 DEF WatchesNext

(* Nobody ever sees a reservation disappear that was committed, unless the *)
(* account of its owner goes: not by a poll, and not by its abort.         *)
THEOREM CommittedHistoryIsKept ==
  WatchesSpec => [][CommittedErasedStep]_watchVars
<1>1. WatchesInv /\ WatchesInv' /\ [WatchesNext]_watchVars
        => [CommittedErasedStep]_watchVars
  <2> SUFFICES ASSUME WatchesInv, WatchesInv', [WatchesNext]_watchVars
               PROVE  CommittedErasedStep
    OBVIOUS
  <2>1. CASE \A r \in Rids : CommittedRes[r] # NoRow =>
               CommittedRes'[r] = CommittedRes[r]
    BY <2>1 DEF CommittedErasedStep
  <2>2. CASE CommittedRes = res /\ CommittedRes' = res' /\ [Next]_vars
    BY <2>2, TermsInNext DEF ErasedStep, CommittedErasedStep, WatchesInv, IsRow
  <2> QED
    BY <2>1, <2>2, CommittedMoves
<1> QED
  BY <1>1, WatchesInvariant, PTL DEF WatchesSpec

(* All or nothing: what a poll commits holds a booking, inside its range,  *)
(* for every watch it has used up since it took the lock, though the two   *)
(* are written by two calls (create_reservation, mark_notified).  Again a  *)
(* row that took the id of a deleted watch is the exception: BooksStale.   *)
BookedFor(x, row) ==
  /\ row # NoRow
  /\ row.user = x.user /\ row.gpu = x.gpu /\ row.ram = x.ram
  /\ x.start <= row.start /\ row.end <= x.end
UsedUpIsBooked ==
  Locked =>
    \A w \in Wids :
      LET x == poll.undo[2][w]
      IN  x # NoRow /\ x.active /\ watches[w] # x =>
            \E r \in Rids : poll.undo[1][r] = NoRow /\ BookedFor(x, res[r])
BooksStale ==
  \E w \in Wids : Book(w) /\ Pending(w) /\ poll.found[w] # watches[w]

LEMMA BookUsesUp ==
  ASSUME WatchesInv, UsedUpIsBooked, NEW w \in Wids, Book(w), ~BooksStale
  PROVE  UsedUpIsBooked'
<1> DEFINE undo == IF Locked THEN poll.undo ELSE <<res, watches>>
<1>1. /\ poll' = [poll EXCEPT !.found = Rest(w), !.step = "next",
                              !.undo = undo]
      /\ watches' = [watches EXCEPT ![w].active = FALSE, ![w].booked = TRUE]
      /\ Polling
  BY DEF Book, Foremost
<1>2. poll \in Polls
  BY <1>1, PollFields DEF WatchesInv
<1>3. /\ \A r \in Rids : ~IsRow(r) => undo[1][r] = NoRow
      /\ \A v \in Wids : Pending(v) => undo[2][v] = watches[v]
      /\ \A v \in Wids : undo[2][v] # NoRow /\ undo[2][v].active
           /\ watches[v] # undo[2][v] =>
           \E r \in Rids : undo[1][r] = NoRow /\ BookedFor(undo[2][v], res[r])
  <2>1. CASE Locked
    BY <2>1 DEF WatchesInv, UndoOK, UsedUpIsBooked, IsRow
  <2>2. CASE ~Locked
    BY <2>2 DEF IsRow
  <2> QED
    BY <2>1, <2>2
<1> HIDE DEF undo
<1>4. poll'.undo = undo
  BY <1>1, <1>2 DEF Polls
<1>5. /\ \A r \in Rids : IsRow(r) => res'[r] = res[r]
      /\ BookedInside(poll.found[w])
  BY WatchBooked
<1>6. \A v \in Wids : v # w => watches'[v] = watches[v]
  BY <1>1 DEF WatchesInv, GoodWatches, WatchTable
<1>7. ASSUME NEW v \in Wids, undo[2][v] # NoRow, undo[2][v].active,
             watches[v] # undo[2][v]
      PROVE  \E r \in Rids : undo[1][r] = NoRow /\ BookedFor(undo[2][v], res'[r])
  <2>1. PICK r \in Rids : undo[1][r] = NoRow /\ BookedFor(undo[2][v], res[r])
    BY <1>3, <1>7
  <2>2. res'[r] = res[r]
    BY <1>5, <2>1 DEF BookedFor, IsRow
  <2> QED
    BY <2>1, <2>2
<1>8. ASSUME undo[2][w] # NoRow, undo[2][w].active, watches[w] = undo[2][w]
      PROVE  \E r \in Rids : undo[1][r] = NoRow /\ BookedFor(undo[2][w], res'[r])
  <2>1. Pending(w)
    BY <1>8 DEF Pending, IsWatch
  <2>2. poll.found[w] = undo[2][w]
    BY <1>8, <2>1 DEF BooksStale
  <2>3. PICK r \in Rids : ~IsRow(r) /\ BookedFor(undo[2][w], res'[r])
    BY <1>5, <2>2 DEF BookedInside, BookedFor
  <2> QED
    BY <1>3, <2>3
<1> QED
  BY <1>4, <1>6, <1>7, <1>8 DEF UsedUpIsBooked

LEMMA UsedUpStep ==
  ASSUME WatchesInv, UsedUpIsBooked, [WatchesNext]_watchVars, ~BooksStale
  PROVE  UsedUpIsBooked'
<1>1. ASSUME ~Locked' PROVE UsedUpIsBooked'
  BY <1>1 DEF UsedUpIsBooked
<1>2. ASSUME UNCHANGED <<res, watches>>, Locked' => Locked /\ poll'.undo = poll.undo
      PROVE  UsedUpIsBooked'
  BY <1>2 DEF UsedUpIsBooked
<1>3. CASE RequestNext \/ WatchRequests \/ CleanUp
  <2>1. (~Locked /\ poll' = poll) \/ UNCHANGED <<res, poll>>
    BY <1>3 DEF RequestNext, WatchRequests, CreateWatch, CancelWatch, CleanUp, vars
  <2>2. CASE ~Locked /\ poll' = poll
    BY <1>1, <2>2 DEF Locked
  <2>3. CASE UNCHANGED <<res, poll>> /\ Locked
    <3>1. \E w \in Wids : CancelWatch(w)
      BY <1>3, <2>3 DEF RequestNext, WatchRequests, CreateWatch, CleanUp
    <3> QED
      BY <2>3, <3>1 DEF CancelWatch
  <2> QED
    BY <2>1, <2>2, <2>3 DEF Locked
<1>4. CASE \/ Tick /\ ~Attempting /\ UNCHANGED <<watches, poll>>
           \/ UNCHANGED watchVars
  BY <1>2, <1>4 DEF Tick, watchVars, vars, Locked
<1>6. CASE QuietPoll
  <2>1. /\ UNCHANGED <<res, watches>>
        /\ poll'.undo = poll.undo /\ poll'.at = poll.at
    BY <1>6, QuietPollIs DEF vars
  <2> QED
    BY <1>2, <2>1 DEF Locked
<1>7. CASE PollStart \/ PollEnd \/ \E w \in Wids : Abort(w)
  BY <1>1, <1>7 DEF PollStart, PollEnd, Abort, Begun, Idle, Locked
<1>8. ASSUME NEW w \in Wids, Book(w) PROVE UsedUpIsBooked'
  BY <1>8, BookUsesUp
<1>9. CASE PollNext
  BY <1>6, <1>7, <1>8, <1>9 DEF PollNext, QuietPoll
<1> QED
  BY <1>3, <1>4, <1>9 DEF WatchesNext

(* Under the lock a watch is used up only together with a reservation in   *)
(* its window, so that one commit or one abort is of both.                 *)
THEOREM PollIsAllOrNothing ==
  WatchesSpec /\ [][~BooksStale]_watchVars => []UsedUpIsBooked
<1>1. WatchesInit => UsedUpIsBooked
  BY DEF WatchesInit, UsedUpIsBooked, Locked, Idle
<1>2. WatchesInv /\ UsedUpIsBooked /\ UNCHANGED watchVars => UsedUpIsBooked'
  BY DEF UsedUpIsBooked, Locked, watchVars, vars
<1>3. /\ WatchesInv /\ UsedUpIsBooked /\ [WatchesNext]_watchVars
      /\ [~BooksStale]_watchVars
      => UsedUpIsBooked'
  BY <1>2, UsedUpStep
<1> QED
  BY <1>1, <1>3, WatchesInvariant, PTL DEF WatchesSpec
===============================================================================
