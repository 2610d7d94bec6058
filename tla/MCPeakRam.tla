------------------------------ MODULE MCPeakRam ------------------------------
(***************************************************************************)
(* Checks PeakRam over every list of at most MaxRows reservations, built   *)
(* one row at a time the way the table grows: every start, every end and   *)
(* every RAM amount, on or off the slot grid.                              *)
(***************************************************************************)
EXTENDS PeakRam, Sequences

CONSTANTS MaxRows,   \* longest list
          Horizon,   \* the clock values are 0..Horizon
          Rams,      \* RAM amounts
          Slot       \* slot width of the grid

ASSUME BoundsAssumption == MaxRows \in Nat /\ Horizon \in Nat
ASSUME RamsAssumption == Rams \subseteq Nat /\ IsFiniteSet(Rams) /\ Rams # {}
ASSUME SlotAssumption == Slot \in Nat \ {0}

VARIABLE rows

NewRow(s, e, m) ==
  /\ Len(rows) < MaxRows
  /\ s < e
  /\ rows' = Append(rows, [start |-> s, end |-> e, ram |-> m])

Init == rows = <<>>
Next == \E s, e \in 0..Horizon, m \in Rams : NewRow(s, e, m)
Spec == Init /\ [][Next]_rows

Windows == {w \in (0..Horizon) \X (0..Horizon) : w[1] < w[2]}
Total == MaxRows * Max(Rams)
OnGrid ==
  \A r \in DOMAIN rows : rows[r].start % Slot = 0 /\ rows[r].end % Slot = 0
InWindow(w) == [r \in Overlapping(rows, w[1], w[2]) |-> rows[r]]

(* The sweep never says less RAM is held than really is at some instant of *)
(* the window: a booking accepted on its answer cannot overfill the GPU.   *)
PeakNeverTooLow ==
  \A w \in Windows :
    PeakConcurrentRam(InWindow(w), w[1], w[2]) >= TruePeak(rows, w[1], w[2])

(* Rows listed in the order they start are summed exactly: the tie between *)
(* an end and a start at one instant is then broken the right way round.   *)
ExactWhenListedByStart ==
  (\A q, r \in DOMAIN rows : q < r => rows[q].start <= rows[r].start) =>
    \A w \in Windows :
      PeakConcurrentRam(InWindow(w), w[1], w[2]) = TruePeak(rows, w[1], w[2])

(* When every row lies on the grid and the range starts on it, no two rows *)
(* meet inside a slot: the picker shows exactly the RAM that is free.      *)
GridSlotsExact ==
  OnGrid =>
    \A w \in Windows :
      w[1] % Slot = 0 =>
        LET free == SlotAvailability(Total, rows, w[1], w[2], Slot)
        IN  \A t \in DOMAIN free :
              t + Slot <= w[2] =>
                free[t] = Total - TruePeak(rows, t, t + Slot)

(* The amount the engine would still accept for the whole range is never   *)
(* more than what every slot of the picker offers.                         *)
PickerOffersEnough ==
  \A w \in Windows :
    LET free == SlotAvailability(Total, rows, w[1], w[2], Slot)
    IN  \A t \in DOMAIN free :
          t + Slot <= w[2] =>
            free[t] >= MinFreeRamInRange(Total, InWindow(w), w[1], w[2])

(* The docstring of slot_availability: the smallest free value over the    *)
(* slots "is exactly the largest ram_mb a single reservation spanning the  *)
(* whole range could request".  Rows and range are on the grid here.       *)
PickerAgreesWithEngine ==
  OnGrid =>
    \A w \in Windows :
      (w[1] % Slot = 0 /\ w[2] % Slot = 0) =>
        LET free == SlotAvailability(Total, rows, w[1], w[2], Slot)
        IN  Min({free[t] : t \in DOMAIN free})
              = MinFreeRamInRange(Total, InWindow(w), w[1], w[2])
==============================================================================
