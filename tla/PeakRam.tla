------------------------------- MODULE PeakRam -------------------------------
(***************************************************************************)
(* The sweep line at the heart of the reservation engine                   *)
(* (dml_core/services/reservation_service.py): how much RAM a list of      *)
(* reservations holds at once inside a window, and the per-slot free RAM   *)
(* the grid picker shows.  Constant-level operators only; the state        *)
(* machines that use them are Booking and MCPeakRam.                       *)
(*                                                                         *)
(* A list of reservations is a function rs from row ids to records with    *)
(* the fields start, end (naturals, in units of the caller's clock) and    *)
(* ram.  The query that builds the list has no ORDER BY and the table has  *)
(* no secondary index, so its order is the order of the ids.               *)
(*                                                                         *)
(* A definition marked as a slip is used nowhere: it is what a plausible   *)
(* slip would make of the definition after it, and must break a property.  *)
(***************************************************************************)
EXTENDS Integers, FiniteSetsExt

Larger(a, b) == IF a >= b THEN a ELSE b
Smaller(a, b) == IF a <= b THEN a ELSE b

(* The rows of rs that touch [from, to): the overlap test of the queries.  *)
StartingIn(rs, from, to) ==  \* a slip: misses what already runs
  {r \in DOMAIN rs : rs[r].start < to /\ rs[r].start >= from}
Overlapping(rs, from, to) ==
  {r \in DOMAIN rs : rs[r].start < to /\ rs[r].end > from}

(* Each row contributes its clipped start and its clipped end; pos is the  *)
(* place of the event in the list before it is sorted.                     *)
Events(rs, from, to) ==
  UNION {{[time |-> Larger(rs[r].start, from), pos |-> 2 * r,
           delta |-> rs[r].ram],
          [time |-> Smaller(rs[r].end, to), pos |-> 2 * r + 1,
           delta |-> -rs[r].ram]}
         : r \in {q \in DOMAIN rs :
                    Larger(rs[q].start, from) < Smaller(rs[q].end, to)}}

(* Python's sort is stable and its key is the time alone: event d is       *)
(* summed no later than event e.                                           *)
ArrivalsFirst(d, e) ==  \* a slip: at a tie, who comes before who goes
  d.time < e.time \/ (d.time = e.time /\ d.delta >= e.delta)
NoLater(d, e) == d.time < e.time \/ (d.time = e.time /\ d.pos <= e.pos)

(* The largest running sum of the sorted events.                           *)
PeakConcurrentRam(rs, from, to) ==
  LET ev == Events(rs, from, to)
      runningSum(e) ==
        MapThenSumSet(LAMBDA d : d.delta, {d \in ev : NoLater(d, e)})
  IN  Max({0} \cup {runningSum(e) : e \in ev})

(* total RAM minus the peak of the rows that overlap the range.            *)
MinFreeOfStarting(total, rs, from, to) ==  \* a slip: misses what runs
  LET listed == [r \in StartingIn(rs, from, to) |-> rs[r]]
  IN  total - PeakConcurrentRam(listed, from, to)
MinFreeRamInRange(total, rs, from, to) ==
  total - PeakConcurrentRam(rs, from, to)

(* The starts of the slots the picker draws over [from, to).               *)
SlotStarts(from, to, slot) == {t \in from..(to - 1) : (t - from) % slot = 0}

(* Free RAM of each slot; the last slot may reach past the range.          *)
SlotAvailabilityUnclipped(total, rs, from, to, slot) ==  \* a slip
  LET overlapping == Overlapping(rs, from, to)
      listed == [r \in overlapping |-> rs[r]]
  IN  [t \in SlotStarts(from, to, slot) |->
         total - PeakConcurrentRam(listed, t, to)]
SlotAvailability(total, rs, from, to, slot) ==
  LET overlapping == Overlapping(rs, from, to)
      listed == [r \in overlapping |-> rs[r]]
  IN  [t \in SlotStarts(from, to, slot) |->
         total - PeakConcurrentRam(listed, t, t + slot)]

(***************************************************************************)
(* The reference: what the machine would really have to hold.              *)
(***************************************************************************)
UsageAt(rs, t) ==
  MapThenSumSet(LAMBDA r : rs[r].ram,
                {r \in DOMAIN rs : rs[r].start <= t /\ t < rs[r].end})

TruePeak(rs, from, to) == Max({0} \cup {UsageAt(rs, t) : t \in from..(to - 1)})
==============================================================================
