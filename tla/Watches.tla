------------------------------- MODULE Watches -------------------------------
(***************************************************************************)
(* Watches and the background scheduler that books for the watchers        *)
(* (dml_core/services/watch_service.py, dml_web/scheduler.py,              *)
(* dml_web/routers/watches.py and admin_watches.py), over Booking.         *)
(*                                                                         *)
(* Requests run one at a time, as in Booking; the poll is a transaction of *)
(* its own that is taken apart where a request can come in between.  The   *)
(* queries by which it checks its first booking each see what is committed *)
(* at that moment; the insert takes the write lock, and from then to its   *)
(* commit no request gets in.  What the poll has loaded it keeps: the      *)
(* regulation, that a GPU is switched on and its RAM, the watches it has   *)
(* found.  It never looks at access.                                       *)
(*                                                                         *)
(* The clock moves between attempts to book only: an attempt takes the     *)
(* time once, and its unit is minutes.                                     *)
(***************************************************************************)
EXTENDS Booking

CONSTANTS
  MaxWatches,  \* bound: watch ids are 1..MaxWatches
  Retention    \* cleanup_retention_days, in units of the clock

ASSUME WatchesAssumption == MaxWatches \in Nat /\ Retention \in Nat

Wids == 1..MaxWatches

VARIABLES
  watches,  \* watch_subscriptions table; booked: notified_at is set
  poll      \* run_watch_autobook_check: idle, aborted, or how far it is

watchVars == <<vars, watches, poll>>

-----------------------------------------------------------------------------
IsWatch(w) == watches[w] # NoRow
Pending(w) == IsWatch(w) /\ watches[w].active
Later(s, t) == IF s >= t THEN s ELSE t
Earlier(s, t) == IF s <= t THEN s ELSE t

(* floor_to_slot, which rounds up, and align_down_to_slot.                 *)
FloorToSlot(t, slot) == IF t % slot = 0 THEN t ELSE t + (slot - (t % slot))
AlignDownToSlot(t, slot) == t - (t % slot)

FreeRam(g, total, from, to) ==
  MinFreeRamInRange(total, OverlappingActive(g, from, to), from, to)

-----------------------------------------------------------------------------
(* The requests.  They wait while the poll holds the write lock.           *)
Locked == poll.at = "polling" /\ poll.undo # <<>>

IsNextWid(w) == /\ \A v \in Wids : v >= w => ~IsWatch(v)
                /\ \A v \in Wids : v = w - 1 => IsWatch(v)

(* A watch is for what cannot be reserved now.                             *)
CreateWatch(u, g, start, end, ram) ==
  /\ ~Locked
  /\ ServerOf[g] \in access[u] /\ gpus[g].present
  /\ FreeRam(g, gpus[g].ram, start, end) < ram
  /\ start < end /\ end - start <= reg.maxDuration
  /\ Effective(g)
  /\ 0 < ram /\ ram <= reg.maxRam /\ ram <= gpus[g].ram
  /\ \A w \in Wids : Pending(w) /\ watches[w].user = u =>
       watches[w].start >= end \/ watches[w].end <= start
  /\ \E w \in Wids :
       /\ IsNextWid(w)
       /\ watches' = [watches EXCEPT ![w] =
            [user |-> u, gpu |-> g, start |-> start, end |-> end, ram |-> ram,
             active |-> TRUE, booked |-> FALSE, created |-> now]]
  /\ UNCHANGED <<vars, poll>>

(* The owner's and the admin's.                                            *)
CancelWatch(w) ==
  /\ ~Locked /\ IsWatch(w)
  /\ watches' = [watches EXCEPT ![w].active = FALSE]
  /\ UNCHANGED <<vars, poll>>

Without(S) == [w \in Wids |-> IF w \in S THEN NoRow ELSE watches[w]]
WatchesOf(u) == {w \in Wids : IsWatch(w) /\ watches[w].user = u}
KeptOn(G) == {}  \* a slip: only reservations are thought of
WatchesOn(G) == {w \in Wids : IsWatch(w) /\ watches[w].gpu \in G}

(* The requests of Booking; what is deleted takes its watches along.       *)
Deletions ==
  \/ \E u \in Users : DeleteUser(u) /\ watches' = Without(WatchesOf(u))
  \/ \E g \in Gpus : DeleteGpu(g) /\ watches' = Without(WatchesOn({g}))
  \/ \E s \in Servers :
       DeleteServer(s) /\ watches' = Without(WatchesOn(PresentGpusOf(s)))
Registrations ==
  \/ \E s \in Servers : CreateServer(s)
  \/ \E g \in Gpus, m \in GpuRams : AddGpu(g, m)
Switches ==
  \/ \E g \in Gpus, on \in BOOLEAN : SetGpuActive(g, on)
  \/ \E s \in Servers, on \in BOOLEAN : SetServerActive(s, on)
Settings ==
  \/ \E u \in Users, S \in SUBSET Servers : SetServerAccess(u, S)
  \/ \E u \in Users, n \in GpuLimits : SetMaxConcurrentGpus(u, n)
  \/ \E rg \in Regulations : UpdateRegulation(rg)
RequestNext ==
  /\ ~Locked
  /\ \/ Deletions
     \/ /\ StudentNext \/ ReservationAdminNext \/ Switches \/ Registrations
           \/ Settings
        /\ UNCHANGED watches
  /\ UNCHANGED poll

-----------------------------------------------------------------------------
(* The poll.  step: how far the attempt to book for a watch has come.      *)
Idle == [at |-> "idle"]
Polling == poll.at = "polling"
Trying == DOMAIN poll.found # {}
Attempting == Polling /\ poll.step # "next"

(* Active, not booked yet, not over, and room in what is left of it.       *)
Matching(g) ==
  {w \in Wids :
     /\ Pending(w) /\ ~watches[w].booked /\ watches[w].gpu = g
     /\ watches[w].end > now
     /\ FreeRam(g, poll.rams[g], Later(watches[w].start, now), watches[w].end)
          >= watches[w].ram}

(* The window that is tried for a watch x.                                 *)
WindowStart(x, rg) == FloorToSlot(Later(x.start, now), rg.slot)
WindowEnd(x, rg) ==
  AlignDownToSlot(Earlier(x.end, WindowStart(x, rg) + rg.maxDuration), rg.slot)

(* What create_reservation asks of it, one query after the other, with the *)
(* regulation, the RAM size and the GPU limit that have been loaded.       *)
InRules(x, rg, total) ==
  LET start == WindowStart(x, rg)
      end == WindowEnd(x, rg)
  IN  /\ rg.slot # 0 /\ start < end
      /\ AlignedTo(rg, start) /\ AlignedTo(rg, end)
      /\ end - start <= rg.maxDuration
      /\ now <= start /\ start <= now + rg.horizon
      /\ 0 < x.ram /\ x.ram <= rg.maxRam /\ x.ram <= total
CountLeft(x, rg) == Cardinality(HeldUpcoming(x.user)) < rg.maxActive
PeakBeside(x, rg) ==
  LET start == WindowStart(x, rg)
      end == WindowEnd(x, rg)
  IN  PeakConcurrentRam(OverlappingActive(x.gpu, start, end), start, end)
HasRoomBefore(x, rg, total) ==  \* a slip: the booking's own RAM is not added
  PeakBeside(x, rg) <= total
HasRoom(x, rg, total) == PeakBeside(x, rg) + x.ram <= total
GpuLeft(x, rg, limit) ==
  LET held == ConcurrentGpus(x.user, WindowStart(x, rg), WindowEnd(x, rg))
  IN  x.gpu \in held \/ Cardinality(held) < limit
RowFree == \E r \in Rids : IsNextId(r)  \* the bound on ids

Begun == [at |-> "polling", rg |-> reg, undo |-> <<>>, found |-> <<>>,
          servers |-> {s \in Servers : servers[s].active}, gpus |-> {},
          rams |-> [g \in Gpus |-> gpus[g].ram], step |-> "next", limit |-> 0]
StartUnlessFailed ==  \* a slip: a job that raised is not run again
  /\ poll = Idle
  /\ poll' = Begun
  /\ UNCHANGED <<vars, watches>>
PollStart ==
  /\ ~Polling
  /\ poll' = Begun
  /\ UNCHANGED <<vars, watches>>

(* The rows of the server's GPUs stay in the session as loaded here.       *)
PollServer(s) ==
  /\ Polling /\ ~Trying /\ poll.gpus = {} /\ s \in poll.servers
  /\ poll' = [poll EXCEPT !.servers = @ \ {s}, !.gpus = ActiveGpusOf(s),
                          !.rams = [g \in Gpus |-> gpus[g].ram]]
  /\ UNCHANGED <<vars, watches>>

PollFind(g) ==
  /\ Polling /\ ~Trying /\ g \in poll.gpus
  /\ poll' = [poll EXCEPT !.gpus = @ \ {g},
                          !.found = [w \in Matching(g) |-> watches[w]]]
  /\ UNCHANGED <<vars, watches>>

Rest(w) == [v \in DOMAIN poll.found \ {w} |-> poll.found[v]]
Foremost(w) == Polling /\ w \in DOMAIN poll.found /\ \A v \in DOMAIN poll.found : w <= v

(* attempt_auto_book: the account is loaded, and what needs no query is    *)
(* checked; then the three queries of create_reservation.                  *)
Passes(w) ==
  LET x == poll.found[w]
  IN  CASE poll.step = "next" -> InRules(x, poll.rg, poll.rams[x.gpu])
        [] poll.step = "count" -> CountLeft(x, poll.rg)
        [] poll.step = "room" -> HasRoom(x, poll.rg, poll.rams[x.gpu])
        [] poll.step = "gpus" -> GpuLeft(x, poll.rg, poll.limit)
        [] OTHER -> RowFree

Checked(w, from, to) ==
  /\ Foremost(w) /\ poll.step = from /\ Passes(w)
  /\ poll' = [poll EXCEPT !.step = to]
  /\ UNCHANGED <<vars, watches>>
Try(w) ==
  /\ Foremost(w) /\ poll.step = "next" /\ Passes(w)
  /\ poll' = [poll EXCEPT !.step = "count",
                          !.limit = gpuLimit[poll.found[w].user]]
  /\ UNCHANGED <<vars, watches>>
CheckCount(w) == Checked(w, "count", "room")
CheckRoom(w) == Checked(w, "room", "gpus")
CheckGpus(w) == Checked(w, "gpus", "insert")

(* The insert and mark_notified, by the id of the watch.                   *)
Book(w) ==
  LET x == poll.found[w]
  IN  /\ Foremost(w) /\ poll.step = "insert" /\ IsWatch(w)
      /\ \E r \in Rids :
           /\ IsNextId(r)
           /\ res' = [res EXCEPT ![r] =
                [user |-> x.user, gpu |-> x.gpu,
                 start |-> WindowStart(x, poll.rg), end |-> WindowEnd(x, poll.rg),
                 ram |-> x.ram, status |-> "ACTIVE"]]
      /\ watches' = [watches EXCEPT ![w].active = FALSE, ![w].booked = TRUE]
      /\ poll' = [poll EXCEPT !.found = Rest(w), !.step = "next",
                    !.undo = IF Locked THEN @ ELSE <<res, watches>>]
      /\ UNCHANGED <<now, servers, gpus, access, gpuLimit, reg>>

(* What cannot be booked now stays as it is, for the next poll.            *)
Refused(w) == Foremost(w) /\ poll.rg.slot # 0 /\ ~Passes(w)
Consume(w) ==  \* a slip: the answer of attempt_auto_book is not looked at
  /\ Refused(w)
  /\ watches' = [watches EXCEPT ![w] =
       IF IsWatch(w) THEN [@ EXCEPT !.active = FALSE, !.booked = TRUE] ELSE @]
  /\ poll' = [poll EXCEPT !.found = Rest(w), !.step = "next"]
  /\ UNCHANGED vars
Skip(w) ==
  /\ Refused(w)
  /\ poll' = [poll EXCEPT !.found = Rest(w), !.step = "next"]
  /\ UNCHANGED <<vars, watches>>

(* An exception takes back whatever this poll has booked: a slot width of  *)
(* zero, an account that is gone when its limits are looked at, a watch    *)
(* whose row is gone when it is marked.                                    *)
Abort(w) ==
  /\ Foremost(w)
  /\ \/ poll.rg.slot = 0
     \/ ~IsWatch(w) /\ poll.step = "insert"
     \/ ~IsWatch(w) /\ poll.step = "next" /\ Passes(w)
  /\ poll' = [at |-> "aborted"]
  /\ IF Locked THEN res' = poll.undo[1] /\ watches' = poll.undo[2]
     ELSE UNCHANGED <<res, watches>>
  /\ UNCHANGED <<now, servers, gpus, access, gpuLimit, reg>>

PollEnd ==
  /\ Polling /\ ~Trying /\ poll.gpus = {} /\ poll.servers = {}
  /\ poll' = Idle
  /\ UNCHANGED <<vars, watches>>

(* run_cleanup.                                                            *)
CleanUp ==
  /\ ~Locked
  /\ watches' = Without({w \in Wids : /\ IsWatch(w) /\ ~watches[w].active
                                      /\ watches[w].created < now - Retention})
  /\ UNCHANGED <<vars, poll>>

PollNext ==
  \/ PollStart
  \/ \E s \in Servers : PollServer(s)
  \/ \E g \in Gpus : PollFind(g)
  \/ \E w \in Wids :
       \/ Try(w) \/ CheckCount(w) \/ CheckRoom(w) \/ CheckGpus(w)
       \/ Book(w) \/ Skip(w) \/ Abort(w)
  \/ PollEnd

-----------------------------------------------------------------------------
WatchesInit ==
  /\ Init
  /\ watches = [w \in Wids |-> NoRow]
  /\ poll = Idle

WatchRequests ==
  \/ \E u \in Users, g \in Gpus, start, end \in 0..MaxTime, ram \in Rams :
       CreateWatch(u, g, start, end, ram)
  \/ \E w \in Wids : CancelWatch(w)

WatchesNext ==
  \/ WatchRequests
  \/ RequestNext
  \/ PollNext
  \/ CleanUp
  \/ Tick /\ ~Attempting /\ UNCHANGED <<watches, poll>>

(* The scheduler runs a poll every poll_interval_seconds, each to its end. *)
WatchesSpec ==
  WatchesInit /\ [][WatchesNext]_watchVars /\ WF_watchVars(PollNext)

-----------------------------------------------------------------------------
(* Properties                                                              *)

(* A watch could be served right now, under what is saved and under what a *)
(* poll under way has loaded: there is room in all of what is left of its  *)
(* range, and the window tried for it can be booked.                       *)
CanAutoBook(x, rg, limit) ==
  /\ InRules(x, rg, gpus[x.gpu].ram)
  /\ CountLeft(x, rg)
  /\ HasRoom(x, rg, gpus[x.gpu].ram)
  /\ GpuLeft(x, rg, limit)
  /\ RowFree
Serviceable(w) ==
  LET x == watches[w]
  IN  /\ Pending(w) /\ Effective(x.gpu)
      /\ FreeRam(x.gpu, gpus[x.gpu].ram, Later(x.start, now), x.end) >= x.ram
      /\ CanAutoBook(x, reg, gpuLimit[x.user])
      /\ Polling => CanAutoBook(x, poll.rg, IF Attempting THEN poll.limit
                                           ELSE gpuLimit[x.user])

(* README, "retried on the next poll instead of being consumed": no watch  *)
(* stays serviceable for ever.  A poll may fail on another watch and take  *)
(* back what it has booked, but only on one whose row has been deleted     *)
(* under it: poll after poll fails only while watches go on being deleted. *)
DeletesWatch == \E v \in Wids : IsWatch(v) /\ watches'[v] = NoRow
WatchServed ==
  \A w \in Wids : <>[]Serviceable(w) => []<><<DeletesWatch>>_watchVars

(* A watch is used up only by a booking of what it asked for, inside its   *)
(* range; nothing else but its owner or an admin ends it.  A row that took *)
(* the id of a deleted watch in the middle of the poll is the exception.   *)
BookedInside(x) ==
  \E r \in Rids : /\ ~IsRow(r) /\ res'[r] # NoRow
                  /\ res'[r].user = x.user /\ res'[r].gpu = x.gpu
                  /\ res'[r].ram = x.ram
                  /\ x.start <= res'[r].start /\ res'[r].end <= x.end
                  /\ now <= res'[r].start
ConsumedStep ==
  \A w \in Wids :
    Pending(w) /\ watches'[w] # NoRow /\ watches'[w].booked =>
      BookedInside(watches[w]) \/ poll.found[w] # watches[w]
ConsumedOnlyByBooking == [][ConsumedStep]_watchVars

(* No watch outlives the GPU it waits for.                                 *)
WatchGpuPresent == \A w \in Wids : IsWatch(w) => gpus[watches[w].gpu].present

(* The sum of a poll's first booking is looked up before it has the lock,  *)
(* and a request may come in between; nothing else a poll does overfills a *)
(* GPU, nor a request beside it, unless a resume does.  A GPU that comes   *)
(* back with less RAM than the poll has loaded is the exception.           *)
BooksOn(g) == \E w \in Wids : Book(w) /\ poll.found[w].gpu = g
PollOverfillStep ==
  \A g \in Gpus, t \in Instants :
    Held(g, t)' > gpus'[g].ram =>
      \/ Held(g, t)' <= Held(g, t)
      \/ Resumes
      \/ BooksOn(g) /\ (~Locked \/ poll.rams[g] # gpus[g].ram)
OverfilledOnlyByFirstBooking == [][PollOverfillStep]_watchVars

(* README, "students only see and can reserve/watch GPUs on servers an     *)
(* admin has explicitly granted them".  Broken by a watch that is older    *)
(* than the revocation: the poll books for it.  What is uncommitted does   *)
(* not count.                                                              *)
BookedOnlyWithAccess == Locked \/ HeldOnlyWithAccess
=============================================================================
