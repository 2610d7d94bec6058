# A formal model of the DML resource manager

The repository is a web application with which students of a lab book shares of
GPU memory for a window of time and administrators manage the fleet. This
directory holds TLA+ modules translated from its code, configurations that
check them with TLC, and proofs checked with TLAPS. `PROJECT.json` lists, for
every definition, the source lines it stands for, and for every hazard of the
code the properties that watch it.

Run things from this directory:

    tlc -workers 2 -config Booking_fleet.cfg MCBooking
    tlapm Booking_proofs.tla

and likewise `BookingRace_proofs`, `Notifications_proofs`, `Watches_proofs`,
`Session_proofs`, `PeakRam_proofs`, `MCPeakRam_proofs` and `Pages_proofs`; the
last takes a quarter of an hour.

## 1. The system

Paths are relative to `src/`. Python lives in `src/dml_core` (services over
SQLAlchemy and SQLite) and `src/dml_web` (FastAPI routers, scheduler); the
client is `web/frontend/src`.

| Component | State it keeps | Operations | Talks to |
|---|---|---|---|
| Reservation engine (`services/reservation_service.py`) | `reservations`: owner, GPU, window, RAM, ACTIVE / SUSPENDED / CANCELLED | book, cancel (one, per student, lab-wide), pause and resume per GPU or server, free RAM per range and per slot | called by the reservation routers, the fleet, the access router, the poll |
| Fleet (`services/server_service.py`) | `servers`, `gpus`: `is_active`, `deleted_at`, RAM size | register, revive, rename, switch on and off, delete | pauses, resumes and cancels reservations, drops watches, notifies |
| Server access (`services/server_access_service.py`, `access.py`) | `server_access`: which student may use which server | replace a student's set, check | revoking cancels reservations |
| Regulation (`services/regulation_service.py`) | one row of limits | seed, read, update | read by every booking and resume |
| Accounts and authentication (`user_service.py`, `auth_service.py`, `security.py`, `deps.py`) | `users`: active, admin, GPU limit, password | create, rename, (de)activate, promote, delete, log in, seed the bootstrap administrator | deleting removes reservations, watches, access |
| Watches (`services/watch_service.py`) | `watches`: GPU, window, RAM, auto-book, fulfilled | create, cancel, match, auto-book, expire | books through the reservation engine |
| Scheduler (`dml_web/scheduler.py`) | two periodic jobs | poll of the watches, daily clean-up | watches |
| Notifications (`services/notification_service.py`) | `user_notifications`: per student, dismissed | notify a server's students, list, dismiss | written by the switches of the fleet |
| Usage and charts (`usage_service.py`, `chart_data.py`, `routers/schedule.py`) | none | sums of hours, occupancy bars | read reservations |
| Feedback | `feedback` | insert, list, delete | nothing |
| Database session (`db/session.py`) | one SQLite file | one session and one transaction per request | everything |
| Web client: session and routing (`api/client.ts`, `auth/`, `App.tsx`) | the token in localStorage, per tab the user shown | open, log in and out, change the password, follow a 401 | the login and `/me` routes |
| Web client: reserve page (`AvailabilityGlance`, `ReservePage`) | overview, selected GPU, form, free RAM shown | pick, change the form, reserve, watch; timers of the overview and of the question for free RAM | availability, reservation and watch routes |
| Web client: my reservations (`MyReservationsCard`, `usePagedItems`) | two lists cut into pages, a dialog | load, page, cancel | reservation and watch routes |
| Web client: administrator's lists (reservations, watches, feedback) | filters, page, rows, dialog | filter, page, cancel one or a student's, delete | admin routes |
| Web client: administrator's servers | servers, the open card's GPUs, dialogs | create, edit, switch, delete | fleet routes |
| Web client: administrator's users | users, the open card, dialogs | create, save, switch, promote, delete | account and access routes |
| Web client: the rest | charts, reports, the other forms | load and draw | the API |

What is hard about it:

* **Concurrency.** Handlers are plain functions in a thread pool. A session
  opens its transaction at its first *write*, so everything a handler reads
  before that can be out of date when it writes; SQLite serialises the writers,
  not the decisions.
* **Long sequences of legal calls.** Two switches (GPU, server) gate one
  effect; deletion is a flag and names come back to life; pausing keeps a
  window that drifts into the past; resuming moves it and checks nothing again.
* **Boundaries.** Windows that touch, slots against ranges, rows summed in the
  order of the table.
* **Time.** A poll and a clean-up beside the requests, restarts between them.
* **Late answers** in the client. Answers overtake each other or never come;
  the page, the card, the filters or the session they were asked for may be
  gone by then, and every tab of a browser shares one token.

What makes each component correct, and where that is stated:

* *Engine*: the RAM promised at any instant fits the GPU; the free RAM shown is
  the free RAM granted; a student stays within the limits; cancelled is final
  and a window never moves unless a pause ends.
* *Fleet*: a reservation is paused exactly while its GPU cannot be used;
  deleting leaves nothing alive.
* *Access*: what a student holds is on servers the student may use.
* *Accounts*: history disappears only with the account; an active administrator
  always exists; a username names one account.
* *Watches and scheduler*: nobody is booked twice for one watch, nor on a GPU
  out of reach; a watch that fits is eventually served.
* *Notifications*: whoever has a reservation paused or resumed is told.
* *Client*: a tab acts as the account it shows; what is shown belongs to what
  is selected; what is said to be done is done; what is switched off leaves the
  form by itself.

## 2. The modules

| Module | Stands for |
|---|---|
| `PeakRam` | the sweep line `_peak_concurrent_ram`, `min_free_ram_in_range`, `slot_availability`, and a reference `TruePeak`; operators only |
| `PeakRam_proofs` | lemmas about it: sums over finite sets, prefix sums of the sweep's events, the maximum they reach |
| `MCPeakRam` | a state machine that grows a list of reservations row by row, and the properties of `PeakRam` over it |
| `MCPeakRam_proofs` | theorems: those properties for any list, window and slot width |
| `Booking` | reservations, fleet, access and regulation; one action per request, run from first read to commit with nothing in between |
| `ReservationLife` | the abstract specification: the life a reservation is promised, without times, RAM, access or regulations |
| `MCBooking` | fleets and regulations for TLC |
| `Booking_proofs` | theorems about `Booking`, its refinement of `ReservationLife` among them |
| `BookingRace` | the requests of `Booking` taken apart where another request can run; extends `Booking` |
| `MCBookingRace`, `MCBookingRegimes` | instances of it, the second of `Notifications` too |
| `BookingRace_proofs` | theorems about `BookingRace`, and about the regimes of `MCBookingRegimes` for every fleet and any number of threads |
| `Watches` | watches, the scheduler's poll and clean-up, beside the requests of `Booking`; extends `Booking` |
| `MCWatches` | instances of it |
| `Watches_proofs` | theorems about `Watches` |
| `Notifications` | what the switches of the fleet tell the students, beside every request of `Booking`; extends `Booking` |
| `Notifications_proofs` | theorems about `Notifications` |
| `Accounts` | accounts, the bootstrap administrator and restarts, and the rules by which the client offers its buttons |
| `Session` | the signed-in session of a browser, over `Accounts` |
| `MCSession` | a browser of a lab that is running |
| `Glance` | the overview "available now", its timer, the GPU it selects |
| `MCLive` | `Session` and `Glance` in one specification |
| `Session_proofs` | theorems about `Accounts`, `Session` and `MCLive` |
| `BookingForm` | the form of the reserve page: slots, window, debounced question |
| `MyReservations` | a student's reservations and watches |
| `AdminLists` | the administrator's reservations, watches and feedback |
| `AdminServers`, `AdminUsers` | the administrator's other two pages |
| `Pages` | the pages and `Accounts` in one specification |
| `MCPages` | values of its constants for TLC |
| `Pages_proofs` | theorems about `Pages` |

### Booking

`now` is the clock, in the unit of the slot grid. `servers` and `gpus` are the
two tables, indexed by name: `present` is `deleted_at IS NULL`, `active` is
`is_active`. A name never used and a deleted one look the same, because
registering either gives the same row. `res` is the reservations table indexed
by id; `NoRow` is an id without a row; ids are given out the way SQLite does
for an INTEGER PRIMARY KEY, one more than the largest in use. `access` and
`gpuLimit` are per student, `reg` is the regulation row.

`CanBook` is `create_reservation`'s list of checks in their order. `Cancelled`,
`Suspended` and `Resumed` are the bulk updates; `SetGpuActive` and
`SetServerActive` choose between them by the *effective* state as the code
does; `RetireGpus` is `_retire_gpu`. A refused request changes nothing and is
an action that is not enabled. Administrators are the environment, they may
take any administrator's action at any time. The notifications and watches these
handlers touch are in `Notifications` and `Watches`.

Definitions commented as *a slip* are used by no action. Each is what a
plausible slip would make of the definition that follows it. Put in its place,
it must break a property: `PROJECT.json` pairs them under "mutants".

### BookingRace

`req[p]` is what thread `p` has read so far. A request is one step per read
that a later decision depends on, then one write step for everything from the
first write to the commit. That is what the driver allows: before its first
write a session sees whatever is committed at each SELECT, with the first write
it holds the only write lock, and what it selects from then on is fresh. Three
details of the code decide the interleavings: rows loaded once are not read
again (SQLAlchemy's identity map), only changed columns are written (`Saved`),
and an update of a row that is gone fails the request. A request that fails is
rolled back (`Fail`). The clock moves only between requests.

Reads made at one go that only lead to a refusal are one step
(`LoadForCreate` reads caller, GPU, access and regulation).

### ReservationLife

`life` has, per id, whose reservation it is, where, and its status; `usable`
the GPUs that can be used. Its steps are what a student may rely on: a booking
appears only on a usable GPU; a reservation is paused only because its GPU went
off; when a GPU becomes usable again everything paused on it is booked again in
the same step; cancelled stays cancelled; what is forgotten is forgotten with
its owner. `Booking` instantiates it as `Life`, with `LifeTable` (the
reservations without their windows and RAM) for `life` and `UsableGpus` for
`usable`. `ImplementsLife` is `Life`'s specification under that mapping.

### Watches

`watches` is the table, `poll` is how far a run of the poll has come and what
it has loaded: the regulation, the servers and GPUs still to visit, the watches
found for the GPU at hand, the RAM sizes of the GPUs. What it loaded it keeps.
The poll is a transaction that opens with its first insert. Before that a
request can run between any two of its steps; after it the poll holds the write
lock (`Locked`) and requests wait.

An attempt to book for a watch is `create_reservation` in its steps: `Try`
loads the account and checks what needs no query, `CheckCount`, `CheckRoom` and
`CheckGpus` are the three queries, `Book` is the insert and `mark_notified`.
For the first booking of a poll all of this but `Book` precedes the lock, so
that a whole request can commit between a check and the insert; for the later
ones nothing can. `Skip` is a watch that cannot be booked now, at whichever
check; `Abort` is an exception, which takes back every booking of this run
(`undo`): rounding to a slot width of zero, or a watch or an account deleted
after the watch was found. Requests are those of `Booking`, whole; a deletion
of a GPU, a server or an account takes watches along. The clock moves between
attempts only, for an attempt takes the time once.

### Notifications

`inbox` is `user_notifications` by owner, oldest first; of a message it keeps
what it is about and what it says. `SwitchGpu` and `SwitchServer` are the
switches of `Booking` with what they write beside; a switch that changes
nothing effective writes nothing. Nobody else writes, and only `Dismiss` changes
a row. `delete_user` does not touch the table. An account deleted and the next one
registered under its id are the same element of `Users`, so the second finds
what the first has left.

### Accounts, Session and Glance

`Accounts` has the table of users and the name the environment gives to the
bootstrap administrator. `Start` is a start of the program: it may change that
name and seeds the account. An administrator's request is one action with the
administrator as parameter. `CannotDelete`, `CannotDeactivate` and
`CannotChangeAdminFlag` are the conditions of `AdminUsersPage`, to be compared
with what the server refuses.

`Session` has the token in localStorage, which all tabs share, and per tab the
page, the user shown and whether the first answer is still awaited. A request
carries the token of the moment it is sent. The server looks at it later
(`Serve`), its answer arrives later still (`Arrive`), in any order, or not at
all (`Fail`). `Handle` is `request()` of `client.ts` with its caller's
continuation: a 401 of any request removes the token and the user of that tab.
A page that is left takes its form with it, so that a login answered late still
stores its token.

`Glance` has the overview of the reserve page and the GPU picked from it. Loads
that a later load has superseded are ignored, answers to the timer are not.

### The other pages

`BookingForm`, `MyReservations`, `AdminLists`, `AdminServers` and `AdminUsers`
have the page's React state, the part of the server's state the page shows,
and `calls`, the requests under way. Each of those is served and answered, or
lost, in any order. An action is a handler or an effect with everything it
sets, an answer's action its continuation. Where nothing in the code keeps a
late answer from overwriting a later one, the module records that it has
happened (`latest`), and the property speaks of the states in which it has not.
The form has a length in ticks of the clock, typed freely, so that its end may
lie off the slot grid; `Acceptable` is what the server asks of the window. A
handler that sets a start off the grid (`resetForm`) is rendered twice, first
with that start and then with the slot the effect moves it to, and either
render that changes the window hides the free RAM (`Render`).

The pages share no state with each other, so `Pages` and `MCLive` follow one
page per behaviour. `Pages` gives all of them the same variables, `r1` to
`r8`. The three administrator's lists are one module with different tables:
`Lists(table)` is `AdminLists` for the table of that name, and the constants
`Tables`, `TableRows`, `TableEntry` and `TableFilters` say which tables there
are, with which rows and which of the filters.

## 3. What is checked

Runs that pass:

| Run | Question | Bounds |
|---|---|---|
| `PeakRam` | Can the sweep underestimate? When is it exact? Does the grid ever offer less than the engine accepts? | every list of up to 3 rows over a clock 0..4, RAM 1 or 2, slots of 2 |
| `Booking_fleet` | Does any order of switching, deleting, reviving, revoking, booking and ticking strand a paused reservation, leave one active on a GPU that is off, alive on a deleted one, or held without access? Do terms survive? Which requests can overfill a GPU? Is the promised life kept? | 2 students, 2 GPUs on 1 server, 2 rows, clock to 2, two regulations; students and GPUs symmetric |
| `Booking_limits` | Which requests can take a student over the limits? | 1 student, 2 GPUs, 3 rows, limit of 2 reservations, 1 or 2 GPUs, clock to 2; GPUs symmetric |
| `BookingRace_requests` | What of the above survives two threads, and how far can concurrent bookings overshoot? Is the owner of every reservation that is paused or resumed told so? | 2 threads, 1 GPU, 3 rows, clock to 1; threads symmetric. Three regimes: two students who book and cancel, with a limit of one; every kind of request but registering, with one student and 2 rows; or every kind of request, one after another, with 2 students, 1 row and 3 notifications each |
| `BookingRace_single` | Is `BookingRace` only `Booking` in smaller steps? | 1 thread, every kind of request, 2 GPUs, 2 rows, checked as a refinement of `Booking`'s `Spec` |
| `Watches` | What does the poll do to watches while requests get in between, can it overfill a GPU, and is a watch that fits served in the end? | 2 students, 1 GPU of one unit of RAM, 3 rows, 2 watches, clock to 2, three regulations of which one has slots of width 0, watches cleaned up after 0 units. Two regimes: every kind of request by one student with one watch, whose own bookings take the first id (`TakesFirstId`); or two rivals who book, cancel, watch and are deleted |
| `Live` | Does a tab act as the account it shows, do dead sessions and dead GPUs leave the screen? | 1 tab opened twice, 2 accounts, 2 tokens, 2 requests under way; 1 GPU |
| `Pages` | Does what each page shows and says fit what was asked and done? Can the lab lock itself out? | per page 1 to 3 rows, 1 or 2 pages of rows, 2 requests under way; form with slots of 3 ticks, a day of 6, the lab 4 ahead of UTC, lengths of 3 and, off the grid, 4; a server with a GPU, and one without that stays; 3 accounts with 2 names |

The properties, in words:

* `PeakNeverTooLow`, `ExactWhenListedByStart`: the sweep is a safe upper bound,
  and exact when the rows come in the order they start. `GridSlotsExact`,
  `PickerOffersEnough`: the picker's grid is exact on the grid and never more
  pessimistic than the engine.
* `PausedOnlyWhileOff`, `RunningOnlyWhileOn`, `LiveOnlyOnPresent`,
  `HeldOnlyWithAccess`, `DeletedIsOff`: the five relations between the tables
  that a booking system owes its users. None follows from one handler: each
  needs the switches, the deletions and the bookings to agree.
* `TermsAreKept`: what no step may do to a row. That rows disappear only with
  the whole account, `HistoryIsKept`, is a matter of one request; it is proved
  and not among the runs.
* `OverfilledOnlyByResume`, `LimitsGiveWayOnlyThere`: the capacity and the
  limits hold except at the places the code leaves open, which the properties
  name. The GPU limit is not looked at for a GPU that is already among those
  held in the window; `BooksOnHeldGpu` is that exception.
* `ImplementsLife`: every request is a step of `ReservationLife` or none.
* `StudentsOverfillIsBounded`, `StudentsCountIsBounded`: check-then-insert
  without a lock lets two requests through, but each thread adds at most one
  booking beyond the limit, also when requests repeat.
* `WatchGpuPresent`: no watch outlives its GPU. `ConsumedOnlyByBooking`: a watch
  is used up only by a booking of the RAM and GPU it asked for, inside its
  range and not in the past, whatever was changed while the poll ran.
  `WatchServed`: a watch that could be served from some time on is, unless
  watches go on being deleted for ever. That exception is real: a poll's
  bookings share one transaction, and a watch whose row has been deleted under
  the poll makes it fail for all. `OverfilledOnlyByFirstBooking`: the booking
  with which a poll takes the lock may overfill a GPU, because the sum was
  looked up before; nothing else a poll does can, unless the GPU has come back
  with less RAM than the poll has loaded.
* `NoticesAreTold`: the request that pauses or resumes a reservation leaves its
  owner a notification that says so. The code notifies those with access, not
  the owners; that these are among them depends on every grant, revocation and
  deletion before. It is `PausesAreTold` of `Notifications`, restricted to the
  regime that has notifications.
* `ActsAsShown`: a tab that is alone never sends the token of an account other
  than the one it shows. With a second tab this does not hold, for the tabs
  share one token and are not told of each other's logins.
  `SessionOutlivesFailures`: a session that works ends only by logging out or
  by a 401. `SessionsHeal`: the reserve page does not go on showing a user whose
  session is dead.
* `SelectedIsUsable`, `OffIsNoticed`: no GPU is in the form that the overview
  shows as off, and one that stays off leaves the form for good.
* `StartOnGrid`: the start submitted lies on the slot grid, although slots are
  UTC instants, days are local and the offered slots are computed earlier than
  they are used. It relies on slots no longer than an hour and no longer than a
  day. The end is not in it: a typed length may put it off the grid, and the
  server refuses that. `FreeRamFits`: the free RAM beside the form is that of
  the window in it once the newest question is the last answered. It leaves out
  answers to superseded questions that come late; nothing in the code keeps
  them from overwriting.
* `NeverAnEmptyPage`, `CancelledIsGone`: the student's lists never show an empty
  page while they have rows, and a reservation that was said to be cancelled
  is off the screen once the newest load is the last answered. An older load
  answered after a newer one brings it back; that is left out.
* `ListFits`: an administrator's rows are those of the filters and the page
  chosen, also when an effect resets the page or a cancellation reloads with
  filters of its own time.
* `GpusFit`, `OwnChangesShown`: a server's card lists its own GPUs, and as the
  page's own changes have left them, once the newest load is the last answered;
  a load that follows a change may be of a card left meanwhile.
* `SavedMeansAllApplied`: "Changes saved." is only said when every request of
  the save has been applied.
* `NamesUnique`, `AdminRemains`: a username names one account, and the lab
  always has an active administrator once it has one. `ButtonsAgree`: the users'
  page offers exactly the actions the server accepts.
* `Spec` as a property of `BookingRace_single`: the decomposition is faithful
  to the sequential model.

Why the bounds are enough. A stranded or stray reservation needs one row and
two switches; two rows are needed for a deletion or an id to be confused, and
for a resume to collide; three to exceed a limit of two, or to overfill by a
row that neither of the others shows. Two units of clock let a window be past,
running and upcoming, and let a resume land beyond the booking horizon. Two
threads are what it takes to put one request inside another. One reservation
and three notices let it be paused, resumed and paused again. Two watches are
what it takes for one to make the poll of the other fail, and a student with
another kind of request to disturb a poll is enough for the rest; of three rows
one is booked in the middle of a poll that books two. Two requests
under way are what it takes for one answer to overtake another; two tokens let
an answer of one session arrive in the next. The proofs cover the sizes TLC
cannot.

Symmetry is declared only where no property distinguishes the permuted values:
students, GPUs of one server, threads. `BookingRace_single`, `Watches` and
`Live`, which check liveness or a refinement, use none; `Booking_fleet`
checks `ImplementsLife`, whose specification has no fairness and therefore is a
safety property, under which symmetric states may be identified.

Runs that show a disagreement between the code and its documents:

| Run | What happens |
|---|---|
| `PeakRam_picker` | At a slot boundary where one reservation ends and one that was booked earlier starts, `slot_availability` offers RAM that `create_reservation` then refuses; the docstring says the two agree exactly. |
| `Booking_overfull` | Back-to-back reservations of a GPU are paused, then resume at the same instant and together exceed its RAM. |
| `Booking_bulk_cancel` | A paused reservation whose old window has passed is not cancelled by the administrator's "cancel all for this student", and resumes later. |
| `Watches_access` | A student loses access to a server on which a watch is waiting; the next poll books there. The README says students can only reserve on servers they were granted. |

Two more things the notifications do, which the model has and no run condemns:
the newest account's id is given out again, and `delete_user` leaves its
notifications to whoever gets it; and a reader whose GPU was switched off while
its server was off is told, when the server returns and somebody else's
reservation resumes, that their paused reservations have resumed.

All configurations switch deadlock checking off: the clock has a last value and
the table a last id, where a small instance stops.

Fairness. A student or an administrator owes no action, so no request of
theirs is fair. What is:

* `Watches`: weak fairness of the poll's next step. APScheduler starts a run
  every `poll_interval_seconds`, whatever became of the last one, and a run has
  no step that can wait for ever.
* `Session`: weak fairness of answers (a `fetch` resolves or rejects) and of
  the first one of a tab; strong fairness of the overview's poll, of its being
  served and of its answer arriving: the timer goes on, and the network does
  not lose every one of its requests. Strong, because the bound on requests
  under way makes the poll wait now and then.
* `Glance`: the same for its own timer.

## 4. What is proved

Every theorem is of a component's specification, for every value of the
constants that satisfies their assumptions; what TLC runs is an instance of it,
or a regime that restricts it. All the safety properties of the passing runs
are stated by a theorem below, `ButtonsAgree` excepted.

**Booking** (`Booking_proofs`), for every fleet, any set of students, every
regulation, any number of rows and any clock:

| Theorem | Property |
|---|---|
| `TypeCorrect` | `TypeOK`; in particular every reservation ends after it starts, also after a resume |
| `DeletedStaysOff` | `DeletedIsOff` |
| `NobodyStranded` | `PausedOnlyWhileOff` |
| `NothingRunsWhileOff` | `RunningOnlyWhileOn` |
| `RemovedHoldsNothing` | `LiveOnlyOnPresent` |
| `AccessIsKept` | `HeldOnlyWithAccess` |
| `BookingsKeepTheirTerms` | `TermsAreKept` |
| `HistoryGoesWithTheAccount` | `HistoryIsKept` |
| `LimitsHold` | `LimitsGiveWayOnlyThere` |
| `RoomHolds` | `OverfilledOnlyByResume` |
| `RoomWithoutResumes` | `NeverOverfilled`, if nothing paused resumes |
| `CapWithoutResumes` | `CapKept`: nobody holds more than `max_active`, if nothing paused resumes and the regulation stays |
| `BookingImplementsLife` | `ImplementsLife` |

*The tables.* None of the five table invariants is inductive alone. A paused
row may only appear where a GPU goes off, so `PausedOnlyWhileOff` needs to know
that a revived GPU has no live rows (`LiveOnlyOnPresent`); that needs
`DeletedIsOff`, since nothing but `is_active` keeps a booking from a deleted
GPU; `RunningOnlyWhileOn` needs the switch-off to have paused everything, which
in turn relies on a GPU that was already off holding nothing active. `FleetInv`
is the conjunction of the five and is inductive relative to `TypeOK`; the proof
has one lemma per action, and the lemmas `CancelledRow`, `SuspendedRow`,
`ResumedRow` say what each bulk update does to one row. Three of the five,
`FleetCore` (`DeletedIsOff`, `PausedOnlyWhileOff`, `LiveOnlyOnPresent`), are
inductive by themselves, which is what is left of the proof beside the poll,
and the lemmas ask of a booking or a deletion only what it must have done to
the rows (`BookedKeepsFleet`, `Retires`), so that the requests that are taken
apart can cite them too.

*The refinement.* `BookingImplementsLife` takes the typed state and `FleetInv`
and maps each request, action by action, to a step of `ReservationLife` or to a
stutter. It needs the invariant: that switching a GPU on books *everything*
paused on it is only true because nothing else can be paused, and that a new
reservation takes an id without a life because a row that is gone has none.

*The numbers.* `LimitsHold` and `RoomHolds` are about what one step adds to a
cardinality or a sum. They need little of an invariant: the type, and for the
RAM that what a live row asks for is positive, for fewer rows to hold no more.
Every request other than a resume and a booking only takes rows out of the set
counted; a booking has passed its check. For the RAM that check is the sweep
line, and `RoomHolds` therefore rests on `PeakRam_proofs`: the sweep's running
total after an event is the RAM of the rows whose start has been summed by then
and whose end has not, after the last event up to some instant these are the
rows that hold at that instant, and so the maximum the sweep returns is at
least what is held at any instant of the window. Facts about sums over finite
sets are proved by taking the smallest set on which they would fail, since the
library's induction theorems take operators as parameters and cannot be used.

*What resumes cost.* `Booking_overfull` shows that the README's promise, that
the students on a GPU never hold more RAM than it has, is broken by a resume.
`RoomWithoutResumes` says that nothing else breaks it: under `[][~Resumes]` the
promise is an invariant, whatever is booked, cancelled, paused, deleted or
registered anew. A GPU registered with less RAM is no exception, since by
`FleetCore` nothing is live on it. `CapWithoutResumes` is the same for the
number of reservations, where a regulation that is tightened is the other way
past the limit.

**The sweep** (`MCPeakRam_proofs`), for any list of reservations, any window,
any RAM and any slot width:

| Theorem | Property |
|---|---|
| `SweepIsSafe` | `PeakNeverTooLow` |
| `SweepIsExact` | `ExactWhenListedByStart` |
| `GridIsExact` | `GridSlotsExact` |
| `PickerIsGenerous` | `PickerOffersEnough` |
| `PickerIsExact` | `PickerTellsTheTruth`: on the grid, the smallest slot offered is what is really free throughout the range |
| `PickerAgreesByStart` | `PickerAgreesWithEngine`, wherever the rows are listed by start |

A running total is more than what is held only in the middle of a tie, where a
row that comes has been summed and one that goes at the same instant has not.
Rows listed by start are summed the other way round, since the one that goes has
started earlier. On a grid no row comes inside a slot: clipped to the slot, all
of them start with it and none ends there. And the sweep of a part of a window
never finds more than the sweep of the window (`PeakOfSubwindow`), so no slot of
the picker offers less than the engine accepts for the range. On the grid more
is true: what the picker offers is exact, slot by slot and therefore as a
minimum, since every instant of the range lies in a slot. So where
`PeakRam_picker` finds the picker and the engine apart it is the engine that is
too strict, and only for a list that is not in the order of the starts:
`PickerAgreesByStart`.

**Concurrent requests** (`BookingRace_proofs`), for any number of threads:

| Theorem | Property | Assumed besides |
|---|---|---|
| `RaceTyped` | `RaceTypeOK`: the tables and what each thread has read, by the step it has come to | |
| `NobodyStrandedByRaces` | `PausedOnlyWhileOff` | nobody registers |
| `TermsOutliveRaces`, `HistoryOutlivesRaces` | `TermsAreKept`, `HistoryIsKept` | |
| `OneThreadIsAtomic` | `Spec`: with one thread, `Booking`'s own specification | one thread |
| `InTurnIsAtomic`, `InTurnImplementsLife` | `Spec`, `ImplementsLife` | `InTurn`: while a request is under way every step is one of it |
| `FleetHoldsUndisturbed` | `DeletedIsOff`, `PausedOnlyWhileOff`, `RunningOnlyWhileOn`, `LiveOnlyOnPresent`, `HeldOnlyWithAccess` | `Undisturbed`, see below |
| `CountIsBoundedByThreads` | `CountIsBounded` | requests book and cancel; finitely many threads |
| `OverfillIsBoundedByThreads` | `OverfillIsBounded` | the same, and finitely many amounts |
| `CountIsBoundedWithoutResumes` | `CountIsBounded`, with every kind of request | nothing paused resumes, the regulation stays; finitely many threads |
| `OverfillIsBoundedWithoutResumes` | `OverfillIsBounded`, with every kind of request | nothing paused resumes, GPUs keep their size; finitely many threads and amounts |
| `StudentsCountBounded`, `StudentsOverfillBounded`, `NoticesTold` | `StudentsCountIsBounded`, `StudentsOverfillIsBounded`, `NoticesAreTold`, the same for the regimes of `MCBookingRegimes` | finitely many threads |

`NobodyStrandedByRaces` leaves registering out because the code leaves it open:
a reservation booked after a deletion has selected what to cancel outlives the
deletion, paused if the GPU was off, and a switch that was decided before it may
be written after it; registering the server again then makes the GPU usable
beneath the paused reservation, and resumes nothing. The run leaves registering
out for the same reason; with it TLC finds such a behaviour.

`OneThreadIsAtomic` is a refinement: while no other thread can write, what a
request has read is what the tables say (`NothingIsStale`), so its last step is
the step `Booking` takes at once and the steps before it are stutters.
`InTurnIsAtomic` is the same for any number of threads that take turns: at most
one is busy, and what a finished request leaves in its thread is `Idle`. It
says that the interleaving is all that tells `BookingRace` from `Booking`.

How much interleaving the table invariants bear is `FleetHoldsUndisturbed`. Of
what a thread has read they need only what it read of servers, GPUs and access
(`FleetFresh`), never the counts and sums; so bookings, cancellations and
settings may interleave step by step, and with changes of the fleet too, under
two conditions (`Undisturbed`): while a booking or a change of the fleet or the
access is under way, no other request changes servers, GPUs or access; and
while a deletion has selected the rows it will cancel, nobody books. The second
is needed: without it a booking slips in behind the selection and outlives its
GPU. TLC finds that behaviour, and with both conditions explores one GPU, one
student and two threads with every kind of request (40 925 states) without a
violation.

The two bounds count a thread that has passed a check as if it had booked
already. For `CountInv`: reservations held plus threads past the count are at
most the limit plus the threads but one; when one more passes, the student holds
fewer than the limit and the others are the threads but one. `RoomSum` is the
same for RAM at every instant: what is held plus what the threads past the
check ask for is at most the GPU's RAM plus, for every thread but one, the
largest amount there is. Both speak of booking and cancelling alone. The
two theorems that follow them let every other kind of request in. What the
administrator's threads do only lets rows go (`AdminsMove`: the step `Fades`,
and touches no booking under way), with the exceptions that are the
hypotheses: a resume looks at neither limit, and an update of the regulation or
a GPU of another size moves the bound itself.

**Notifications** (`Notifications_proofs`): `OwnersAreTold` (`PausesAreTold`,
of which `NoticesAreTold` is the instance that TLC checks), `InboxTyped`, and
`NotesImplementLife` (`Spec` and `ImplementsLife`). A step of `Notifications`
is a step of `Booking` or none (`StepOfBooking`), so the invariants above hold
of it. `OwnersAreTold` then takes the two switches
apart: the rows they turn are live rows on that server, `HeldOnlyWithAccess`
puts their owners among the recipients, and that one of them was paused is what
makes the message say "resumed". Every other step turns no row.

**Watches** (`Watches_proofs`):

| Theorem | Property |
|---|---|
| `WatchesHaveTheirGpu` | `WatchGpuPresent` |
| `BookingConsumes` | `ConsumedOnlyByBooking` |
| `TermsOutlivePolls` | `TermsAreKept`, beside the poll and through its aborts |
| `DeletedStaysOffBesidePolls` | `DeletedIsOff` |
| `NobodyStrandedBesidePolls`, `RemovedHoldsNothingBesidePolls` | `PausedOnlyWhileOff`, `LiveOnlyOnPresent`, if `~BooksForAnother` |
| `AccessIsKeptBesidePolls` | `HeldOnlyWithAccess`, if `~BooksForAnother` and `~RevokesUnderWatch` |
| `PollsOverfillOnlyFirst` | `OverfilledOnlyByFirstBooking` |
| `OverfillBesidePollsIsBounded` | `OverfullByOneAtMost`: no GPU is overfilled by more than one booking, if nothing resumes and GPUs keep their size |
| `LimitsGiveWayBesidePolls` | `LimitsBesidePolls`: `LimitStep`, or the first booking of a poll, or one under a regulation that is not the saved one |
| `CountBesidePollsIsBounded` | `CapByOneAtMost`: nobody holds more than one reservation above `max_active`, if nothing resumes and the regulation stays |
| `CommittedHistoryIsKept` | `CommittedErasedStep`: `HistoryIsKept` of what is committed |
| `PollIsAllOrNothing` | `UsedUpIsBooked`: a watch used up under the lock has its reservation, if `~BooksStale` |

The invariant, `WatchesInv`, has to speak of a state that is not there: what an
abort would put back. Its watches wait for GPUs that exist, its pending watches
are unchanged, and its reservations are among those of the present; all of it
because requests wait while the poll holds the lock. The window the poll books
is cut from the watch it has loaded, by a regulation it has loaded and at the
time of the booking; `WindowInside` bounds it for every slot width.

What the table invariants keep beside the poll is a question of their own, since
the poll books from reads that are older than its lock. It marks a watch by
its id, and an id can be used again: when the newest watch goes with its GPU,
its server or its owner between the poll's reads and its booking, and another
is made, the poll books for the one that is gone (`BooksForAnother`, if the two
are on different GPUs). The GPU may be the one that was deleted, and TLC finds
the live reservation on it (2 GPUs, 2 students, 3 rows). Without that
`FleetCore` is kept. `RunningOnlyWhileOn` is not: the server's switch is read
when the poll begins and the GPU's before its watches, and what is switched off
after that still gets its booking, active while it is off.

The poll never looks at access, which is the disagreement `Watches_access`
shows; `AccessIsKeptBesidePolls` says that there is one way into it. As long as
access is not taken while a watch of the student waits on that server or a poll
has found one (`RevokesUnderWatch`), everybody keeps to the servers they may
use, the poll included: `AccessInv` carries the access of every watch, waiting
or found, to the booking.

What a poll checks for its first booking it has read before it has the lock, and
a request that commits in between is not in it. So that booking may overfill a
GPU or exceed a limit, and `OverfilledOnlyByFirstBooking` and
`LimitsBesidePolls` name it; for the later bookings of the poll the lock keeps
what was read true (`RoomUnderLock`, `LimitsUnderLock`). How far it can go is
what the two bounds say. A request that books beside the poll is whole and finds
room for itself, and there is one poll, so what is too much is at most what the
poll is about to book: `RoomSeen` and `CountSeen` say of a watch past its check
that the tables without it are within the bound. They are about one poll beside
requests that run one after another; several requests at once have the bounds
of `BookingRace`. The regulation and the RAM sizes are those the poll has
loaded, which is what the hypotheses `reg' = reg` and `SameSizes` are for.

That a used-up watch has its reservation is said of the watch
the poll has found: `PollIsAllOrNothing` leaves out the poll that books for a
watch that is gone or has changed (`BooksStale`). `HistoryIsKept` as it stands
does not fit an abort, which removes the poll's own rows. What others can read
is `CommittedRes`; a poll changes that in one step, the commit, and only by rows
that are added.

**Accounts, session, overview** (`Session_proofs`):

| Theorem | Property |
|---|---|
| `AccountsTyped`, `SessionTypesKept` | `AccountsTypeOK`, `TypeOK` |
| `NeverLockedOut` | `AdminRemains` |
| `BootstrapProtected` | `BootstrapIsSafe`: no request takes the active bootstrap administrator's account, switch or role away |
| `NamesStayUnique` | `NamesUnique` |
| `TabsActAsShown` | `ActsAsShown`, if tabs are opened at pages other than the login page |
| `SessionsOutliveFailures` | `SessionOutlivesFailures` |
| `SelectedStaysUsable` | `SelectedIsUsable` |

`NeverLockedOut` is an action property that needs no invariant but the type:
only the active bootstrap administrator takes an administrator's switch, role or
account away, and never its own, so it is still there afterwards; a start takes
nothing away. `NamesStayUnique` is inductive as it stands: creating and seeding
are the only actions that give a name, and both look for it among all accounts,
deactivated ones included.

`ActsAsShown` of a tab that is alone needs to know what its requests under way
will say. In `SessionInv` nobody is shown beside a request that is still
finding out who signed in, there is one such request at most, and its answer
will speak for the account of the stored token if there is one by then. The
login page is left out because there the first `me` and a login can be under
way together: `LoginPage` does not look at `loading`. If a tab is opened at
`/login` with a token stored, and somebody signs in as another account before
the answer to that first `me` arrives, the late answer shows the older account
over the newer token. With `OpenedAt = {"login"}` and three requests under way
TLC finds this.

**The pages** (`Pages_proofs`), for any number of rows, pages, servers and
requests under way, served, answered or lost in any order; what a late answer
does after the newest one is outside the properties, as section 3 says:

| Theorem | Property |
|---|---|
| `StartStaysOnGrid`, `FreeRamIsOfTheWindow` | `StartOnGrid`, `FreeRamFits` |
| `PageIsNeverEmpty`, `CancelledLeavesTheList` | `NeverAnEmptyPage`, `CancelledIsGone` |
| `ListsFitTheView` | `ListFits` |
| `GpusStayWithTheCard`, `OwnChangesStayShown` | `GpusFit`, `OwnChangesShown` |
| `SavedIsApplied` | `SavedMeansAllApplied` |

Each follows from the invariant of its page, which a theorem of its own states
(`FormStaysSound`, `MineStaysSound`, `ListsStaySound`, `FleetStaysSound`,
`UsersStaySound`). What the first four pages have in common are the lemmas
about `NewestIn`: as long as the newest request of a kind is the one that will
be heard last, it must be for what is shown, through every request that is
added, served, answered or lost. Beside that:

* the form's slots are those of some moment up to now, and as slots are no
  longer than an hour and a day, one of them is left or the day has moved on;
* a page of a list has rows because the rank of a row in a finite set of
  naturals takes every value up to its size;
* every cancellation that has been served has left no row behind, and the
  newest load, once answered, does not list any that was told;
* a change on the servers' page that has been served but not heard will reload
  the card or close it (`Awaits`); once none is under way the newest load has
  seen them all. A load that follows a change may be of a server whose card is
  no longer open, which is why `GpusFit` makes an exception of it;
* while a save waits, every field it sent has been applied or is of a request
  it still waits for (`SaveFits`); the question about revoked servers is only
  open while none is.

**Assumed of the constants.** Each assumption has a name, stands in the module
that declares the constants, and is evaluated by TLC in the runs.

* `Booking`: ids and clock bounds are naturals; every GPU belongs to a server;
  amounts asked for are integers and GPUs have some RAM; the limits and the
  fields of a regulation are naturals; `NoRow` is neither a row nor a life.
  Times and delays are not negative in the code; a negative field saved into
  the regulation is outside the assumption.
* `BookingRace`, `Notifications`, `Watches`: kinds of requests are among those
  there are, bounds are naturals. What a theorem needs beyond that is among its
  own hypotheses, in the tables above.
* `MCPeakRam`: bounds are naturals, amounts a finite set of naturals, slots
  have a width.
* `Accounts`, `Session`: `NoUser` is not a user, `None` neither a token nor a
  user; bounds are naturals; tabs are opened at pages there are.
* `Pages`: slots are no longer than an hour and a day, the bounds of the form
  are naturals, days have an offset; rows of a student's list are a finite set
  of naturals (ids, in the order shown), pages have a size; tables have names
  of their own; servers are not GPUs; `None` is no answer.

**Only model-checked.** Liveness (`WatchServed`, `SessionsHeal`,
`OffIsNoticed`): it rests on fairness and on `ENABLED`, which are out of the
prover's reach. `ButtonsAgree`, which compares the offered buttons with what is
`ENABLED`. The four disagreements of section 3 are counterexamples; of three of
them section 4 also proves what they depend on (`RoomWithoutResumes`,
`PickerAgreesByStart`, `AccessIsKeptBesidePolls`).

The hypotheses `[][...]` of the theorems above are about what is done, never
about the code: each names the requests, or the moments for them, that the
theorem leaves out, and where it is there, TLC or one of the four disagreements
shows what happens without it.

## 5. What is left out

* Hashing of passwords and signatures of tokens, which are cryptography;
  request parsing, formatting, logging, configuration: no rule depends on them.
* The wording of notifications, and the client's banner, which loads them once.
* Usage reports and charts: sums over reservations, nothing stored.
* Full names, new names of servers and GPUs, RAM sizes edited in place: sent as
  typed, and read by no rule here.
* Start-up besides the bootstrap account: seeding the regulation, filling in a
  missing column.
* Bookings made by administrators, who need no access row, and what a demotion
  leaves of them: the users of `Booking` are students.
* Seconds and microseconds, and daylight saving: the clock counts grid units,
  the lab's offset to UTC is constant.
* The thread that dies between a commit and its response: the client sees a
  lost answer, the tables are as after the request.
* A write lock never obtained within the driver's five seconds: the request
  fails as in `Fail`.
* Two saves of the regulation at once may mix columns; `Regulations` stands for
  whatever is left.
* The poll beside requests that are themselves taken apart: in `Watches`
  requests run whole, in `BookingRace` there is no poll.
* In the client: what is drawn, layout, theme, and the pages that load once and
  send one form.

## 6. What could be added

1. What the table invariants keep of a registration that another request
   interrupts (`BookingRace`), where `FleetHoldsUndisturbed` stops.
2. Administrators who book, and their demotion, in `Booking`.
3. `SlotTimes`: rounding with sub-second remainders, the range queries and hour
   sums of the reports.
4. The regulation's start-up, and the lab-wide cancellation under a horizon
   that shrinks.
