--------------------------- MODULE MCPeakRam_proofs ---------------------------
(***************************************************************************)
(* Proofs about MCPeakRam: what its runs check of every list of a few      *)
(* rows, for lists of any length, any clock, any amounts and any slot      *)
(* width.  PeakRam_proofs has the sums and the sweep.                      *)
(***************************************************************************)
EXTENDS MCPeakRam, PeakRam_proofs

Row == [start : 0..Horizon, end : 0..Horizon, ram : Rams]
RowsOK == rows \in Seq(Row)

LEMMA RowsKept == Spec => []RowsOK
<1>1. Init => RowsOK
  BY DEF Init, RowsOK
<1>2. RowsOK /\ [Next]_rows => RowsOK'
  <2> SUFFICES ASSUME RowsOK, [Next]_rows PROVE RowsOK'
    OBVIOUS
  <2>1. CASE Next
    <3>1. PICK s \in 0..Horizon, e \in 0..Horizon, m \in Rams : NewRow(s, e, m)
      BY <2>1 DEF Next
    <3>2. [start |-> s, end |-> e, ram |-> m] \in Row
      BY DEF Row
    <3>3. rows' = Append(rows, [start |-> s, end |-> e, ram |-> m])
      BY <3>1 DEF NewRow
    <3> QED
      BY <3>2, <3>3 DEF RowsOK
  <2>2. CASE UNCHANGED rows
    BY <2>2 DEF RowsOK
  <2> QED
    BY <2>1, <2>2
<1> QED
  BY <1>1, <1>2, PTL DEF Spec

LEMMA RowsAreList ==
  ASSUME RowsOK
  PROVE  IsList(rows)
<1>1. DOMAIN rows = 1..Len(rows) /\ Len(rows) \in Nat
  BY DEF RowsOK
<1>2. rows \in [1..Len(rows) -> Row]
  BY DEF RowsOK
<1>3. IsFiniteSet(1..Len(rows))
  BY <1>1, FS_Interval
<1>4. \A x \in 0..Horizon : x \in Int
  BY BoundsAssumption
<1>5. \A r \in DOMAIN rows : /\ rows[r].start \in Int /\ rows[r].end \in Int
                             /\ rows[r].ram \in Nat
  BY <1>1, <1>2, <1>4, RamsAssumption DEF Row
<1> QED
  BY <1>1, <1>2, <1>3, <1>5 DEF IsList

LEMMA WindowInts ==
  ASSUME NEW w \in Windows
  PROVE  w[1] \in Int /\ w[2] \in Int /\ w[1] < w[2]
  BY BoundsAssumption DEF Windows

(* The query of a window finds every row that is active inside it.         *)
LEMMA WindowList ==
  ASSUME RowsOK, NEW from \in Int, NEW to \in Int
  PROVE  LET part == [r \in Overlapping(rows, from, to) |-> rows[r]]
         IN  /\ IsList(part)
             /\ \A t \in from..(to - 1) : UsageAt(part, t) = UsageAt(rows, t)
<1> DEFINE T == Overlapping(rows, from, to)
<1>1. IsList(rows)
  BY RowsAreList
<1>2. T \in SUBSET DOMAIN rows
  BY DEF Overlapping
<1>3. ASSUME NEW t \in from..(to - 1)
      PROVE  ActiveAt(rows, t) \subseteq T
  BY <1>1 DEF ActiveAt, Overlapping, IsList
<1> HIDE DEF T
<1>4. IsList([r \in T |-> rows[r]])
  BY <1>1, <1>2, PartIsList
<1>5. \A t \in from..(to - 1) : UsageAt([r \in T |-> rows[r]], t) = UsageAt(rows, t)
  BY <1>1, <1>2, <1>3, UsageOfPart
<1> QED
  BY <1>4, <1>5 DEF T

LEMMA SameTruePeak ==
  ASSUME NEW rs, NEW part, NEW from, NEW to,
         \A t \in from..(to - 1) : UsageAt(part, t) = UsageAt(rs, t)
  PROVE  TruePeak(part, from, to) = TruePeak(rs, from, to)
<1>1. {UsageAt(part, t) : t \in from..(to - 1)}
        = {UsageAt(rs, t) : t \in from..(to - 1)}
  OBVIOUS
<1> QED
  BY <1>1 DEF TruePeak

-----------------------------------------------------------------------------
(* The sweep never says less RAM is held than is held at some instant of   *)
(* the window, however many reservations there are: what the engine adds   *)
(* to its answer fits the GPU.                                             *)
THEOREM SweepIsSafe == Spec => []PeakNeverTooLow
<1>1. ASSUME RowsOK, NEW w \in Windows
      PROVE  PeakConcurrentRam(InWindow(w), w[1], w[2])
               >= TruePeak(rows, w[1], w[2])
  <2>1. w[1] \in Int /\ w[2] \in Int
    BY WindowInts
  <2>2. /\ IsList(InWindow(w))
        /\ \A t \in w[1]..(w[2] - 1) : UsageAt(InWindow(w), t) = UsageAt(rows, t)
    BY <1>1, <2>1, WindowList DEF InWindow
  <2>3. TruePeak(InWindow(w), w[1], w[2]) = TruePeak(rows, w[1], w[2])
    BY <2>2, SameTruePeak
  <2> QED
    BY <2>1, <2>2, <2>3, PeakOfEvents, PeakAtLeastUsage, TruePeakIs
<1>2. RowsOK => PeakNeverTooLow
  BY <1>1 DEF PeakNeverTooLow
<1> QED
  BY <1>2, RowsKept, PTL

ListedByStart ==
  \A q, r \in DOMAIN rows : q < r => rows[q].start <= rows[r].start

(* Listed by their start, rows are summed exactly.                         *)
LEMMA ByStart ==
  ASSUME RowsOK, NEW w \in Windows, ListedByStart
  PROVE  PeakConcurrentRam(InWindow(w), w[1], w[2])
           = TruePeak(rows, w[1], w[2])
<1> DEFINE L == InWindow(w)
<1>1. w[1] \in Int /\ w[2] \in Int
  BY WindowInts
<1>2. /\ IsList(L)
      /\ \A t \in w[1]..(w[2] - 1) : UsageAt(L, t) = UsageAt(rows, t)
  BY <1>1, WindowList DEF InWindow
<1>3. TruePeak(L, w[1], w[2]) = TruePeak(rows, w[1], w[2])
  BY <1>2, SameTruePeak
<1>4. /\ DOMAIN L \subseteq DOMAIN rows
      /\ \A r \in DOMAIN L : L[r] = rows[r]
  BY DEF InWindow, Overlapping
<1> HIDE DEF L
<1>5. ASSUME NEW q \in Inside(L, w[1], w[2]), NEW r \in Inside(L, w[1], w[2]),
             Goes(L, w[2], q) = Comes(L, w[1], r)
      PROVE  q < r
  <2>1. /\ q \in DOMAIN L /\ r \in DOMAIN L
        /\ Comes(L, w[1], q) < Goes(L, w[2], q)
        /\ Comes(L, w[1], r) < Goes(L, w[2], r)
    BY DEF Inside
  <2> DEFINE from == w[1]
             to == w[2]
  <2>a. from \in Int /\ to \in Int
    BY <1>1
  <2>b. IsList(L)
    BY <1>2
  <2> HIDE DEF from, to
  <2>c. \A x \in DOMAIN L :
          /\ Comes(L, from, x) \in Int /\ Goes(L, to, x) \in Int
          /\ Comes(L, from, x) >= from /\ Comes(L, from, x) >= L[x].start
          /\ Comes(L, from, x) \in {L[x].start, from}
          /\ x \in Int
    BY <2>a, <2>b, EventFields
  <2>d. \A x \in DOMAIN L : L[x].start \in Int
    BY <2>b DEF IsList
  <2>2. /\ Comes(L, w[1], q) \in Int /\ Goes(L, w[2], q) \in Int
        /\ Comes(L, w[1], r) \in Int /\ Goes(L, w[2], r) \in Int
        /\ Comes(L, w[1], q) >= w[1] /\ Comes(L, w[1], q) >= L[q].start
        /\ Comes(L, w[1], r) \in {L[r].start, w[1]}
        /\ L[q].start \in Int /\ q \in Int /\ r \in Int
    BY <2>1, <2>c, <2>d DEF from, to
  <2>3. Comes(L, w[1], r) > w[1] /\ Comes(L, w[1], r) > L[q].start
    BY <1>1, <1>5, <2>1, <2>2
  <2>4. L[r].start > L[q].start
    BY <1>1, <2>2, <2>3
  <2>5. ~(r < q)
    <3>1. L[r].start = rows[r].start /\ L[q].start = rows[q].start
          /\ q \in DOMAIN rows /\ r \in DOMAIN rows
      BY <1>4, <2>1
    <3>2. r < q => rows[r].start <= rows[q].start
      BY <3>1 DEF ListedByStart
    <3>3. L[r].start \in Int
      BY <1>2, <2>1 DEF IsList
    <3> QED
      BY <2>2, <2>4, <3>1, <3>2, <3>3
  <2>6. q # r
    <3>1. L[r].start \in Int
      BY <1>2, <2>1 DEF IsList
    <3> QED
      BY <2>4, <3>1
  <2> QED
    BY <2>2, <2>5, <2>6
<1>6. PeakConcurrentRam(L, w[1], w[2]) = TruePeak(L, w[1], w[2])
  BY <1>1, <1>2, <1>5, PeakExact
<1> QED
  BY <1>3, <1>6 DEF L

(* The sweep is exact on every list in the order of the starts.            *)
THEOREM SweepIsExact == Spec => []ExactWhenListedByStart
<1>1. RowsOK => ExactWhenListedByStart
  BY ByStart DEF ExactWhenListedByStart, ListedByStart
<1> QED
  BY <1>1, RowsKept, PTL

-----------------------------------------------------------------------------
(* The grid: numbers without a rest are the multiples of the slot.         *)
LEMMA Multiple ==
  ASSUME NEW s \in Nat \ {0}, NEW a \in Int, a % s = 0
  PROVE  \E i \in Int : a = s * i
<1>1. a \div s \in Int
  OBVIOUS
<1>2. a = s * (a \div s) + (a % s)
  OBVIOUS
<1> DEFINE i == a \div s
<1>3. i \in Int /\ a = s * i + 0
  BY <1>1, <1>2
<1> HIDE DEF i
<1>4. s * i \in Int
  BY <1>3
<1>5. a = s * i
  BY <1>3, <1>4
<1> QED
  BY <1>3, <1>5

LEMMA Product ==
  ASSUME NEW s \in Nat \ {0}, NEW i \in Int, NEW j \in Int
  PROVE  /\ s * i \in Int /\ s * j \in Int
         /\ i <= j => s * i <= s * j
         /\ s * (j + 1) = s * j + s
         /\ s * (i + j) = s * i + s * j
  OBVIOUS

(* No number of the grid lies strictly between t and the next one.         *)
LEMMA NoneInsideASlot ==
  ASSUME NEW s \in Nat \ {0}, NEW a \in Int, NEW t \in Int,
         a % s = 0, \E j \in Int : t = s * j, a < t + s
  PROVE  a <= t
<1>1. PICK i \in Int : a = s * i
  BY Multiple
<1>2. PICK j \in Int : t = s * j
  OBVIOUS
<1>3. CASE i <= j
  <2>1. s * i <= s * j
    BY <1>3, Product
  <2> QED
    BY <1>1, <1>2, <2>1
<1>4. CASE j + 1 <= i
  <2>1. j + 1 \in Int
    OBVIOUS
  <2>2. s * (j + 1) <= s * i
    BY <1>4, <2>1, Product
  <2>3. s * (j + 1) = s * j + s
    BY Product
  <2>4. t + s <= a
    BY <1>1, <1>2, <2>2, <2>3
  <2> QED
    BY <2>4
<1> QED
  BY <1>3, <1>4

(* The slots of a range that starts on the grid start on the grid.         *)
LEMMA SlotsOnGrid ==
  ASSUME NEW s \in Nat \ {0}, NEW from \in Int, NEW t \in Int,
         from % s = 0, (t - from) % s = 0
  PROVE  \E j \in Int : t = s * j
<1>1. PICK i \in Int : from = s * i
  BY Multiple
<1>2. t - from \in Int
  OBVIOUS
<1>3. PICK k \in Int : t - from = s * k
  BY <1>2, Multiple
<1>4. s * (i + k) = s * i + s * k /\ s * i \in Int /\ s * k \in Int
  BY Product
<1>5. t = s * (i + k)
  BY <1>1, <1>3, <1>4
<1> QED
  BY <1>5

(* What the picker reads for a slot inside the range.                      *)
LEMMA SlotOf ==
  ASSUME RowsOK, NEW w \in Windows,
         NEW t \in SlotStarts(w[1], w[2], Slot), t + Slot <= w[2]
  PROVE  /\ w[1] \in Int /\ w[2] \in Int /\ t \in Int /\ t + Slot \in Int
         /\ w[1] <= t
         /\ SlotAvailability(Total, rows, w[1], w[2], Slot)[t]
              = Total - PeakConcurrentRam(InWindow(w), t, t + Slot)
         /\ IsList(InWindow(w))
         /\ \A u \in w[1]..(w[2] - 1) :
              UsageAt(InWindow(w), u) = UsageAt(rows, u)
<1>1. w[1] \in Int /\ w[2] \in Int
  BY WindowInts
<1>2. t \in Int /\ w[1] <= t /\ t + Slot \in Int
  BY <1>1, SlotAssumption DEF SlotStarts
<1>3. SlotAvailability(Total, rows, w[1], w[2], Slot)[t]
        = Total - PeakConcurrentRam(InWindow(w), t, t + Slot)
  BY DEF SlotAvailability, InWindow
<1>4. /\ IsList(InWindow(w))
      /\ \A u \in w[1]..(w[2] - 1) :
           UsageAt(InWindow(w), u) = UsageAt(rows, u)
  BY <1>1, WindowList DEF InWindow
<1> QED
  BY <1>1, <1>2, <1>3, <1>4

(* On the grid no reservation begins or ends inside a slot, so the sum of  *)
(* the picker is that of rows held together.                               *)
LEMMA SlotExact ==
  ASSUME RowsOK, OnGrid, NEW w \in Windows, w[1] % Slot = 0,
         NEW t \in SlotStarts(w[1], w[2], Slot), t + Slot <= w[2]
  PROVE  SlotAvailability(Total, rows, w[1], w[2], Slot)[t]
           = Total - TruePeak(rows, t, t + Slot)
<1> DEFINE L == InWindow(w)
           from == w[1]
           to == w[2]
           u == t + Slot
<1>1. /\ from \in Int /\ to \in Int /\ t \in Int /\ u \in Int /\ from <= t
      /\ SlotAvailability(Total, rows, w[1], w[2], Slot)[t]
           = Total - PeakConcurrentRam(L, t, u)
      /\ IsList(L)
      /\ \A x \in from..(to - 1) : UsageAt(L, x) = UsageAt(rows, x)
  BY SlotOf
<1>2. u <= to
  OBVIOUS
<1>3. \E j \in Int : t = Slot * j
  <2>1. (t - from) % Slot = 0
    BY DEF SlotStarts
  <2> QED
    BY <1>1, <2>1, SlotAssumption, SlotsOnGrid
<1>4. \A r \in DOMAIN L : L[r].start % Slot = 0
  BY DEF OnGrid, InWindow, Overlapping
<1>5. u = t + Slot
  OBVIOUS
<1> HIDE DEF L, from, to, u
<1>6. \A x \in t..(u - 1) : UsageAt(L, x) = UsageAt(rows, x)
  BY <1>1, <1>2
<1>7. TruePeak(L, t, u) = TruePeak(rows, t, u)
  BY <1>6, SameTruePeak
<1>8. \A r \in Inside(L, t, u) :
        /\ r \in DOMAIN L /\ Comes(L, t, r) < Goes(L, u, r)
        /\ Comes(L, t, r) \in Int /\ Goes(L, u, r) \in Int
        /\ Comes(L, t, r) >= t /\ Goes(L, u, r) <= u
        /\ Comes(L, t, r) \in {L[r].start, t}
  BY <1>1, EventFields DEF Inside
<1>9. ASSUME NEW r \in Inside(L, t, u)
      PROVE  Comes(L, t, r) = t
  <2>1. L[r].start \in Int
    BY <1>1, <1>8 DEF IsList
  <2>2. CASE Comes(L, t, r) = L[r].start
    <3>1. L[r].start < t + Slot
      BY <1>1, <1>5, <1>8, <2>2
    <3>2. L[r].start <= t
      BY <1>1, <1>3, <1>4, <1>8, <2>1, <3>1, SlotAssumption, NoneInsideASlot
    <3> QED
      BY <1>1, <1>8, <2>1, <2>2, <3>2
  <2> QED
    BY <1>8, <2>2
<1>10. \A q, r \in Inside(L, t, u) : Goes(L, u, q) # Comes(L, t, r)
  BY <1>1, <1>8, <1>9
<1>11. PeakConcurrentRam(L, t, u) = TruePeak(L, t, u)
  BY <1>1, <1>10, PeakExact
<1> QED
  BY <1>1, <1>7, <1>11 DEF u

(* The picker shows exactly the RAM that is free in every slot, whatever   *)
(* is booked.                                                              *)
THEOREM GridIsExact == Spec => []GridSlotsExact
<1>1. ASSUME RowsOK
      PROVE  GridSlotsExact
  <2>1. \A w \in Windows : DOMAIN SlotAvailability(Total, rows, w[1], w[2], Slot)
                             = SlotStarts(w[1], w[2], Slot)
    BY DEF SlotAvailability
  <2> QED
    BY <1>1, <2>1, SlotExact DEF GridSlotsExact
<1> QED
  BY <1>1, RowsKept, PTL

LEMMA TotalInt == Total \in Int
<1>1. \A x \in Rams : x \in Int
  BY RamsAssumption
<1>2. Max(Rams) \in Rams
  BY <1>1, RamsAssumption, MaxOfFinite
<1>3. Max(Rams) \in Int
  BY <1>1, <1>2
<1> QED
  BY <1>3, BoundsAssumption DEF Total

(* No slot of the picker offers less than the engine still accepts for the *)
(* whole range.                                                            *)
THEOREM PickerIsGenerous == Spec => []PickerOffersEnough
<1>1. Total \in Int
  BY TotalInt
<1>2. ASSUME RowsOK, NEW w \in Windows,
             NEW t \in SlotStarts(w[1], w[2], Slot), t + Slot <= w[2]
      PROVE  SlotAvailability(Total, rows, w[1], w[2], Slot)[t]
               >= MinFreeRamInRange(Total, InWindow(w), w[1], w[2])
  <2> DEFINE L == InWindow(w)
             from == w[1]
             to == w[2]
             u == t + Slot
  <2>1. /\ from \in Int /\ to \in Int /\ t \in Int /\ u \in Int /\ from <= t
        /\ SlotAvailability(Total, rows, w[1], w[2], Slot)[t]
             = Total - PeakConcurrentRam(L, t, u)
        /\ IsList(L)
    BY <1>2, SlotOf
  <2>2. u <= to
    BY <1>2
  <2> HIDE DEF L, from, to, u
  <2>3. PeakConcurrentRam(L, t, u) <= PeakConcurrentRam(L, from, to)
    BY <2>1, <2>2, PeakOfSubwindow
  <2>4. /\ PeakConcurrentRam(L, t, u) \in Int
        /\ PeakConcurrentRam(L, from, to) \in Int
    BY <2>1, PeakOfEvents
  <2>5. Total - PeakConcurrentRam(L, t, u)
          >= Total - PeakConcurrentRam(L, from, to)
    BY <1>1, <2>3, <2>4
  <2> QED
    BY <2>1, <2>5 DEF MinFreeRamInRange, L, from, to
<1>3. ASSUME RowsOK
      PROVE  PickerOffersEnough
  <2>1. \A w \in Windows : DOMAIN SlotAvailability(Total, rows, w[1], w[2], Slot)
                             = SlotStarts(w[1], w[2], Slot)
    BY DEF SlotAvailability
  <2> QED
    BY <1>2, <1>3, <2>1 DEF PickerOffersEnough
<1> QED
  BY <1>3, RowsKept, PTL

-----------------------------------------------------------------------------
(* The whole range on the grid: its slots tile it.                         *)
LEMMA NoRest ==
  ASSUME NEW s \in Nat \ {0}, NEW d \in Int
  PROVE  /\ d % s \in 0..(s - 1) /\ d - (d % s) \in Int
         /\ (d - (d % s)) % s = 0
<1> DEFINE i == d \div s
<1>1. i \in Int /\ d % s \in 0..(s - 1) /\ d = s * i + (d % s)
  OBVIOUS
<1> HIDE DEF i
<1>2. s * i \in Int /\ d - (d % s) = s * i
  BY <1>1, Product
<1> DEFINE p == s * i
           j == p \div s
           k == p % s
<1>3. j \in Int /\ k \in 0..(s - 1) /\ p = s * j + k
  BY <1>2
<1>4. k = 0
  <2>1. j <= i /\ i <= j => k = 0
    BY <1>1, <1>3, Product
  <2>2. ASSUME j + 1 <= i PROVE FALSE
    <3>1. s * (j + 1) <= s * i /\ s * (j + 1) = s * j + s /\ s * j \in Int
      BY <1>1, <1>3, <2>2, Product
    <3> QED
      BY <1>2, <1>3, <3>1
  <2>3. ASSUME i + 1 <= j PROVE FALSE
    <3>1. s * (i + 1) <= s * j /\ s * (i + 1) = s * i + s /\ s * j \in Int
      BY <1>1, <1>3, <2>3, Product
    <3> QED
      BY <1>2, <1>3, <3>1
  <2> QED
    BY <1>1, <1>3, <2>1, <2>2, <2>3
<1> QED
  BY <1>1, <1>2, <1>4

LEMMA SlotsTile ==
  ASSUME NEW s \in Nat \ {0}, NEW from \in Int, NEW to \in Int,
         from % s = 0, to % s = 0
  PROVE  /\ \A t \in SlotStarts(from, to, s) : t + s <= to
         /\ \A x \in from..(to - 1) :
              \E t \in SlotStarts(from, to, s) : t <= x /\ x < t + s
<1>1. ASSUME NEW t \in SlotStarts(from, to, s)
      PROVE  t + s <= to
  <2>1. t \in Int /\ t < to /\ (t - from) % s = 0
    BY DEF SlotStarts
  <2>2. \E j \in Int : t = s * j
    BY <2>1, SlotsOnGrid
  <2>3. to < t + s => to <= t
    BY <2>1, <2>2, NoneInsideASlot
  <2> QED
    BY <2>1, <2>3
<1>2. ASSUME NEW x \in from..(to - 1)
      PROVE  \E t \in SlotStarts(from, to, s) : t <= x /\ x < t + s
  <2> DEFINE d == x - from
             rest == d % s
             t == x - rest
  <2>1. d \in Int /\ d >= 0
    OBVIOUS
  <2>2. rest \in 0..(s - 1) /\ (d - rest) % s = 0
    BY <2>1, NoRest
  <2>3. rest <= d
    BY <2>1
  <2>4. t - from = d - rest
    BY <2>2
  <2>5. t \in from..(to - 1) /\ t <= x /\ x < t + s
    BY <2>2, <2>3
  <2> HIDE DEF d, rest, t
  <2> QED
    BY <2>2, <2>4, <2>5 DEF SlotStarts
<1> QED
  BY <1>1, <1>2

LEMMA MinIs ==
  ASSUME NEW S \in SUBSET Int, NEW m \in S, \A x \in S : m <= x
  PROVE  Min(S) = m
<1>1. Min(S) \in S /\ \A x \in S : Min(S) <= x
  BY DEF Min
<1>2. Min(S) \in Int /\ m \in Int /\ Min(S) <= m /\ m <= Min(S)
  BY <1>1
<1> QED
  BY <1>2

(* Rows and range on the grid: the smallest free value over the slots is   *)
(* what is free over the whole range, in whatever order the rows are       *)
(* listed.  It is the engine's sweep of the range that may find less.      *)
PickerTellsTheTruth ==
  OnGrid =>
    \A w \in Windows :
      (w[1] % Slot = 0 /\ w[2] % Slot = 0) =>
        LET free == SlotAvailability(Total, rows, w[1], w[2], Slot)
        IN  Min({free[t] : t \in DOMAIN free})
              = Total - TruePeak(rows, w[1], w[2])

LEMMA PickerTruth == RowsOK => PickerTellsTheTruth
<1> SUFFICES ASSUME RowsOK, OnGrid, NEW w \in Windows, w[1] % Slot = 0,
                    w[2] % Slot = 0
             PROVE  LET free == SlotAvailability(Total, rows, w[1], w[2], Slot)
                    IN  Min({free[t] : t \in DOMAIN free})
                          = Total - TruePeak(rows, w[1], w[2])
  BY DEF PickerTellsTheTruth
<1> DEFINE from == w[1]
           to == w[2]
           D == SlotStarts(from, to, Slot)
           free == SlotAvailability(Total, rows, from, to, Slot)
           m == TruePeak(rows, from, to)
           part(t) == TruePeak(rows, t, t + Slot)
<1>1. from \in Int /\ to \in Int /\ from < to
  BY WindowInts
<1>2. DOMAIN free = D
  BY DEF SlotAvailability
<1>3. /\ \A t \in D : t \in Int /\ from <= t /\ t + Slot <= to
      /\ \A x \in from..(to - 1) : \E t \in D : t <= x /\ x < t + Slot
  <2>1. \A t \in D : t \in Int /\ from <= t
    BY <1>1 DEF SlotStarts
  <2>2. from % Slot = 0 /\ to % Slot = 0
    OBVIOUS
  <2> HIDE DEF from, to, D
  <2> QED
    BY <1>1, <2>1, <2>2, SlotAssumption, SlotsTile DEF D
<1>4. \A t \in D : free[t] = Total - part(t)
  BY <1>3, SlotExact
<1> HIDE DEF D, free, from, to
<1>5. IsList(rows)
  BY RowsAreList
<1>6. /\ m \in Int /\ m >= 0
      /\ \A x \in from..(to - 1) : m >= UsageAt(rows, x)
      /\ m = 0 \/ \E x \in from..(to - 1) : m = UsageAt(rows, x)
  BY <1>1, <1>5, TruePeakIs
<1>7. ASSUME NEW t \in D
      PROVE  /\ part(t) \in Int /\ part(t) >= 0
             /\ \A x \in t..(t + Slot - 1) : part(t) >= UsageAt(rows, x)
             /\ part(t) <= m
  <2>1. t \in Int /\ t + Slot \in Int /\ from <= t /\ t + Slot <= to
    BY <1>3, SlotAssumption
  <2>2. /\ part(t) \in Int /\ part(t) >= 0
        /\ \A x \in t..(t + Slot - 1) : part(t) >= UsageAt(rows, x)
    <3> DEFINE u == t + Slot
    <3>1. u \in Int
      BY <2>1
    <3> HIDE DEF u
    <3>2. /\ TruePeak(rows, t, u) \in Int /\ TruePeak(rows, t, u) >= 0
          /\ \A x \in t..(u - 1) : TruePeak(rows, t, u) >= UsageAt(rows, x)
      BY <1>5, <2>1, <3>1, TruePeakIs
    <3> QED
      BY <2>1, <3>1, <3>2, SlotAssumption DEF u, part
  <2>a. part(t) = 0 \/ \E x \in t..(t + Slot - 1) : part(t) = UsageAt(rows, x)
    <3> DEFINE u == t + Slot
    <3>1. u \in Int
      BY <2>1
    <3> HIDE DEF u
    <3>2. \/ TruePeak(rows, t, u) = 0
          \/ \E x \in t..(u - 1) : TruePeak(rows, t, u) = UsageAt(rows, x)
      BY <1>5, <2>1, <3>1, TruePeakIs
    <3> QED
      BY <2>1, <3>1, <3>2, SlotAssumption DEF u, part
  <2>3. \A x \in t..(t + Slot - 1) : x \in from..(to - 1)
    BY <1>1, <2>1, SlotAssumption
  <2> HIDE DEF part, m
  <2> QED
    BY <1>6, <2>2, <2>a, <2>3
<1>8. \E t \in D : part(t) = m
  <2>1. CASE m = 0
    <3>1. PICK t \in D : t <= from
      BY <1>1, <1>3
    <3> HIDE DEF part, m
    <3> QED
      BY <1>6, <1>7, <2>1, <3>1
  <2>2. ASSUME NEW x \in from..(to - 1), m = UsageAt(rows, x)
        PROVE  \E t \in D : part(t) = m
    <3>1. PICK t \in D : t <= x /\ x < t + Slot
      BY <1>3
    <3>2. x \in t..(t + Slot - 1)
      BY <1>1, <1>3, <3>1, SlotAssumption
    <3> HIDE DEF part, m
    <3>3. part(t) >= UsageAt(rows, x) /\ part(t) <= m /\ part(t) \in Int
      BY <1>7, <3>2
    <3> QED
      BY <1>6, <2>2, <3>3
  <2> QED
    BY <1>6, <2>1, <2>2
<1>9. PICK t0 \in D : part(t0) = m
  BY <1>8
<1> DEFINE S == {free[t] : t \in D}
<1> HIDE DEF part, m
<1>10. S \in SUBSET Int /\ Total - m \in S /\ \A x \in S : Total - m <= x
  BY <1>4, <1>6, <1>7, <1>9, TotalInt
<1> HIDE DEF S
<1>11. Min(S) = Total - m
  BY <1>10, MinIs
<1> QED
  BY <1>2, <1>11 DEF S, m, free, from, to

(* What the picker's smallest slot offers is what is free, no more and no  *)
(* less: it never promises RAM that is not there.                          *)
THEOREM PickerIsExact == Spec => []PickerTellsTheTruth
  BY PickerTruth, RowsKept, PTL

(* slot_availability's docstring holds where the rows are listed in the    *)
(* order they start: the order of the list is all that stands between the  *)
(* picker and the engine.                                                  *)
THEOREM PickerAgreesByStart == Spec => [](ListedByStart => PickerAgreesWithEngine)
<1>1. ASSUME RowsOK, ListedByStart
      PROVE  PickerAgreesWithEngine
  <2>1. \A w \in Windows : PeakConcurrentRam(InWindow(w), w[1], w[2])
                             = TruePeak(rows, w[1], w[2])
    BY <1>1, ByStart DEF ListedByStart
  <2> QED
    BY <1>1, <2>1, PickerTruth
    DEF PickerTellsTheTruth, PickerAgreesWithEngine, MinFreeRamInRange
<1> QED
  BY <1>1, RowsKept, PTL
=============================================================================
