----------------------------- MODULE Pages_proofs -----------------------------
(***************************************************************************)
(* Proofs about the pages of the web client, for any numbers of rows,      *)
(* servers, GPUs, users and requests under way, any slot grid and zone.    *)
(***************************************************************************)
EXTENDS Pages, PeakRam_proofs, SequencesExt, SequenceTheorems

-----------------------------------------------------------------------------
(* The page that is followed takes every step.                             *)
LEMMA StartOfPage ==
  ASSUME Init
  PROVE  /\ page = "form" => Form!Init
         /\ page = "mine" => Mine!Init
         /\ \A table \in Tables : page = table => Lists(table)!Init
         /\ page = "fleet" => Fleet!Init
         /\ page = "users" => Users!Init
BY TablesAssumption DEF Init

LEMMA StepOfPage ==
  ASSUME Next
  PROVE  /\ page' = page
         /\ page = "form" => Form!Next
         /\ page = "mine" => Mine!Next
         /\ \A table \in Tables : page = table => Lists(table)!Next
         /\ page = "fleet" => Fleet!Next
         /\ page = "users" => Users!Next
BY TablesAssumption DEF Next

-----------------------------------------------------------------------------
(***************************************************************************)
(* Lists of requests: the last of some of them, and one of them taken out. *)
(***************************************************************************)
LEMMA MinOfFinite ==
  ASSUME NEW M \in SUBSET Int, M # {}, IsFiniteSet(M)
  PROVE  Min(M) \in M /\ \A x \in M : Min(M) <= x
<1> DEFINE f == [x \in M |-> 0 - x]
           N == {f[x] : x \in M}
<1>1. N # {} /\ \A x \in N : x \in Int
  OBVIOUS
<1>2. IsFiniteSet(N)
  BY ImageIsFinite
<1> HIDE DEF N
<1>3. PICK n \in N : \A x \in N : n >= x
  BY <1>1, <1>2, MaxOfFinite
<1>4. PICK m \in M : n = 0 - m
  BY DEF N
<1>5. ASSUME NEW x \in M PROVE m <= x
  <2>1. 0 - x \in N
    BY DEF N
  <2> QED
    BY <1>3, <1>4, <2>1
<1> QED
  BY <1>4, <1>5 DEF Min

LEMMA Removed ==
  ASSUME NEW S, NEW s \in Seq(S), NEW i \in DOMAIN s
  PROVE  /\ RemoveAt(s, i) \in Seq(S)
         /\ Len(RemoveAt(s, i)) = Len(s) - 1
         /\ \A j \in 1..(Len(s) - 1) :
              RemoveAt(s, i)[j] = s[IF j < i THEN j ELSE j + 1]
<1>1. i \in 1..Len(s) /\ Len(s) \in Nat
  OBVIOUS
<1>2. /\ SubSeq(s, 1, i - 1) \in Seq(S) /\ Len(SubSeq(s, 1, i - 1)) = i - 1
      /\ \A j \in 1..(i - 1) : SubSeq(s, 1, i - 1)[j] = s[j]
  BY <1>1
<1>3. /\ SubSeq(s, i + 1, Len(s)) \in Seq(S)
      /\ Len(SubSeq(s, i + 1, Len(s))) = Len(s) - i
      /\ \A j \in 1..(Len(s) - i) : SubSeq(s, i + 1, Len(s))[j] = s[i + j]
  BY <1>1
<1> DEFINE a == SubSeq(s, 1, i - 1)
           b == SubSeq(s, i + 1, Len(s))
<1>4. RemoveAt(s, i) = a \o b
  BY DEF RemoveAt
<1> HIDE DEF a, b
<1>5. /\ a \in Seq(S) /\ b \in Seq(S) /\ Len(a) = i - 1 /\ Len(b) = Len(s) - i
      /\ \A j \in 1..(i - 1) : a[j] = s[j]
      /\ \A j \in 1..(Len(s) - i) : b[j] = s[i + j]
  BY <1>2, <1>3 DEF a, b
<1>6. a \o b \in Seq(S) /\ Len(a \o b) = Len(s) - 1
  BY <1>1, <1>5
<1>7. ASSUME NEW j \in 1..(Len(s) - 1)
      PROVE  (a \o b)[j] = s[IF j < i THEN j ELSE j + 1]
  <2>1. CASE j < i
    <3>1. (a \o b)[j] = a[j] /\ j \in 1..(i - 1)
      BY <1>1, <1>5, <2>1, ConcatProperties
    <3> QED
      BY <1>5, <2>1, <3>1
  <2>2. CASE ~(j < i)
    <3>1. j \in 1..(Len(a) + Len(b)) /\ ~(j <= Len(a))
      BY <1>1, <1>5, <2>2
    <3>2. (a \o b)[j] = b[j - Len(a)]
      <4>1. (a \o b)[j] = IF j <= Len(a) THEN a[j] ELSE b[j - Len(a)]
        BY <1>5, <3>1, ConcatProperties
      <4> QED
        BY <3>1, <4>1
    <3>3. j - Len(a) \in 1..(Len(s) - i) /\ i + (j - Len(a)) = j + 1
      BY <1>1, <1>5, <2>2
    <3> QED
      BY <1>5, <2>2, <3>2, <3>3
  <2> QED
    BY <2>1, <2>2
<1> QED
  BY <1>4, <1>6, <1>7

(* The last request of s that is among C, if there is one, is one of W.    *)
Among(s, C) == {j \in DOMAIN s : s[j] \in C}
NewestIn(s, C, W) == Among(s, C) # {} => s[Max(Among(s, C))] \in W

LEMMA MaxAmong ==
  ASSUME NEW S, NEW s \in Seq(S), NEW C, Among(s, C) # {}
  PROVE  /\ Max(Among(s, C)) \in Among(s, C)
         /\ \A j \in Among(s, C) : Max(Among(s, C)) >= j
<1>1. Among(s, C) \subseteq 1..Len(s) /\ Len(s) \in Nat
  BY DEF Among
<1>2. IsFiniteSet(Among(s, C))
  <2> DEFINE A == Among(s, C)
             B == 1..Len(s)
  <2>1. IsFiniteSet(B)
    BY <1>1, FS_Interval
  <2>2. A \subseteq B
    BY <1>1
  <2> HIDE DEF A, B
  <2>3. IsFiniteSet(A)
    BY <2>1, <2>2, FS_Subset
  <2> QED
    BY <2>3 DEF A
<1> QED
  <2>1. Among(s, C) \in SUBSET Int
    BY <1>1
  <2> QED
    BY <1>2, <2>1, MaxOfFinite DEF Max

LEMMA MaxIs ==
  ASSUME NEW M \in SUBSET Int, NEW m \in M, \A x \in M : m >= x
  PROVE  Max(M) = m
<1>1. \A y \in M : (\A x \in M : y >= x) => y = m
  OBVIOUS
<1> QED
  BY <1>1 DEF Max

LEMMA NewestStays ==
  ASSUME NEW S, NEW s \in Seq(S), NEW i \in DOMAIN s, NEW C, NEW W,
         NewestIn(s, C, W), i \in Among(s, C) => i # Max(Among(s, C))
  PROVE  NewestIn(RemoveAt(s, i), C, W)
<1> DEFINE t == RemoveAt(s, i)
           m == Max(Among(t, C))
           k == IF m < i THEN m ELSE m + 1
<1> SUFFICES ASSUME Among(t, C) # {} PROVE t[m] \in W
  BY DEF NewestIn
<1>1. /\ t \in Seq(S) /\ Len(t) = Len(s) - 1
      /\ \A j \in 1..(Len(s) - 1) : t[j] = s[IF j < i THEN j ELSE j + 1]
  BY Removed
<1>2. m \in Among(t, C) /\ \A j \in Among(t, C) : m >= j
  BY <1>1, MaxAmong
<1>3. i \in 1..Len(s) /\ Len(s) \in Nat /\ DOMAIN s = 1..Len(s)
  OBVIOUS
<1> HIDE DEF t, m
<1>4. m \in 1..(Len(s) - 1) /\ t[m] \in C /\ t[m] = s[k]
  BY <1>1, <1>2 DEF Among
<1>5. k \in 1..Len(s) /\ k \in Among(s, C)
  BY <1>3, <1>4 DEF Among
<1>6. Max(Among(s, C)) \in Among(s, C) /\ \A j \in Among(s, C) : Max(Among(s, C)) >= j
  BY <1>5, MaxAmong
<1>7. Max(Among(s, C)) = k
  <2> DEFINE n == Max(Among(s, C))
  <2>1. n \in 1..Len(s) /\ s[n] \in C /\ n # i /\ n >= k
    BY <1>3, <1>5, <1>6 DEF Among
  <2> HIDE DEF n
  <2> DEFINE j == IF n < i THEN n ELSE n - 1
  <2>2. j \in 1..(Len(s) - 1) /\ t[j] = s[n]
    BY <1>1, <1>3, <2>1
  <2>3. m >= j
    BY <1>1, <1>2, <2>1, <2>2 DEF Among
  <2>4. n = k
    BY <1>3, <1>4, <2>1, <2>3
  <2> QED
    BY <2>4 DEF n
<1> QED
  BY <1>4, <1>5, <1>7 DEF NewestIn

LEMMA NewestAppended ==
  ASSUME NEW S, NEW s \in Seq(S), NEW c \in S, NEW C, NEW W,
         c \in C => c \in W, c \notin C => NewestIn(s, C, W)
  PROVE  NewestIn(Append(s, c), C, W)
<1> DEFINE t == Append(s, c)
<1>1. /\ t \in Seq(S) /\ Len(t) = Len(s) + 1 /\ Len(s) \in Nat
      /\ t[Len(s) + 1] = c /\ \A j \in 1..Len(s) : t[j] = s[j]
  OBVIOUS
<1> HIDE DEF t
<1>2. CASE c \in C
  <2>1. Len(s) + 1 \in Among(t, C) /\ \A j \in Among(t, C) : Len(s) + 1 >= j
    BY <1>1, <1>2 DEF Among
  <2>2. Among(t, C) \in SUBSET Int
    BY <1>1 DEF Among
  <2>3. Max(Among(t, C)) = Len(s) + 1
    BY <2>1, <2>2, MaxIs
  <2>4. t[Max(Among(t, C))] \in W
    BY <1>1, <1>2, <2>3
  <2> QED
    BY <2>4 DEF NewestIn, t
<1>3. CASE c \notin C
  <2>1. Among(t, C) = Among(s, C)
    BY <1>1, <1>3 DEF Among
  <2>2. ASSUME Among(s, C) # {} PROVE Max(Among(s, C)) \in 1..Len(s)
    <3>1. Max(Among(s, C)) \in Among(s, C)
      BY <2>2, MaxAmong
    <3> QED
      BY <3>1 DEF Among
  <2> QED
    BY <1>1, <1>3, <2>1, <2>2 DEF NewestIn, t
<1> QED
  BY <1>2, <1>3

LEMMA NewestAnswered ==
  ASSUME NEW S, NEW s \in Seq(S), NEW i \in DOMAIN s, NEW d \in S, NEW C, NEW W,
         NewestIn(s, C, W), d \in C <=> s[i] \in C,
         d \in C /\ s[i] \in W => d \in W
  PROVE  NewestIn([s EXCEPT ![i] = d], C, W)
<1>1. Among([s EXCEPT ![i] = d], C) = Among(s, C)
  BY DEF Among
<1>2. Among(s, C) # {} => Max(Among(s, C)) \in Among(s, C)
  BY MaxAmong
<1>3. Among(s, C) \subseteq DOMAIN s /\ \A j \in Among(s, C) : s[j] \in C
  BY DEF Among
<1> QED
  BY <1>1, <1>2, <1>3 DEF NewestIn

-----------------------------------------------------------------------------
(***************************************************************************)
(* The booking form.  The slots offered are those of some moment up to     *)
(* now, and a question that will be shown asks for the window shown.       *)
(***************************************************************************)
FormLengths == Durations \cup {Hour}
FormWindow == [gpu : FormGpus \cup {None}, start : Int, length : FormLengths]
FormRow ==
  [gpu : FormGpus \cup {None}, day : Int, start : Int, length : FormLengths,
   text : BOOLEAN]
FormCall ==
  [kind : {"create", "watch", "free"}, on : FormWindow, reply : {None, "ok", "refused"}]
FreeCalls == {c \in FormCall : c.kind = "free"}
AskingFor(w) == {c \in FormCall : c.on = w}
SlotsOf(day, today, n) ==
  Form!SlotOptions(day, IF today THEN n ELSE Form!Midnight(day))

FormInv ==
  /\ r1 \in Int
  /\ r2 \in FormRow
  /\ r3 \in [day : Int, today : BOOLEAN, slots : SUBSET Int]
  /\ r5 \in Seq(FormCall)
  /\ \E n \in Int : n <= r1 /\ r3.slots = SlotsOf(r3.day, r3.today, n)
  /\ r2.start % Slot = 0
  /\ r6 = "asked" => NewestIn(r5, FreeCalls, AskingFor(Form!Window(r2)))
  /\ r6 = "answered" => r4 = Form!Window(r2)

LEMMA DayHolds ==
  ASSUME NEW t \in Int
  PROVE  /\ Form!LocalDay(t) \in Int
         /\ Form!Midnight(Form!LocalDay(t)) <= t
         /\ t <= Form!Midnight(Form!LocalDay(t)) + Day - 1
<1> DEFINE x == t + Offset
           q == x \div Day
<1>1. Day \in Nat \ {0} /\ Offset \in Int
  BY FormAssumption
<1>2. x \in Int
  BY <1>1
<1> HIDE DEF x
<1>3. q \in Int /\ q * Day <= x /\ x <= q * Day + Day - 1
  BY <1>1, <1>2
<1> HIDE DEF q
<1>4. q * Day \in Int
  BY <1>1, <1>3
<1> QED
  BY <1>1, <1>3, <1>4 DEF Form!LocalDay, Form!Midnight, q, x

LEMMA SlotWithin ==
  ASSUME NEW a \in Int
  PROVE  \E m \in Int : m % Slot = 0 /\ a - Slot < m /\ m <= a
<1>1. Slot \in Nat \ {0}
  BY FormAssumption
<1> DEFINE q == a \div Slot
<1>2. q \in Int /\ q * Slot <= a /\ a < q * Slot + Slot
  BY <1>1
<1> HIDE DEF q
<1> DEFINE m == q * Slot
<1>3. m \in Int /\ m % Slot = 0
  BY <1>1, <1>2
<1>4. m <= a /\ a < m + Slot
  BY <1>2
<1> HIDE DEF m
<1> QED
  BY <1>1, <1>3, <1>4

LEMMA SlotsOfType ==
  ASSUME NEW day \in Int, NEW today \in BOOLEAN, NEW n \in Int
  PROVE  /\ SlotsOf(day, today, n) \in SUBSET Int
         /\ IsFiniteSet(SlotsOf(day, today, n))
         /\ \A t \in SlotsOf(day, today, n) : t % Slot = 0
<1> DEFINE a == Form!Midnight(day)
           b == a + Day - 1
           S == SlotsOf(day, today, n)
           D == a..b
<1>1. a \in Int /\ b \in Int
  BY FormAssumption DEF Form!Midnight
<1>2. S \subseteq D /\ \A t \in S : t % Slot = 0
  BY DEF SlotsOf, Form!SlotOptions
<1> HIDE DEF S, a, b
<1>3. IsFiniteSet(D) /\ D \subseteq Int
  BY <1>1, FS_Interval
<1> HIDE DEF D
<1>4. IsFiniteSet(S)
  BY <1>2, <1>3, FS_Subset
<1> QED
  BY <1>2, <1>3, <1>4 DEF S

(* An hour from now there is a slot to be offered.                         *)
LEMMA SlotsLeft ==
  ASSUME NEW t \in Int, NEW n \in Int, n <= t, NEW today \in BOOLEAN,
         today => Form!LocalDay(t + Hour) = Form!LocalDay(t)
  PROVE  SlotsOf(Form!LocalDay(t + Hour), today, n) # {}
<1> DEFINE d == Form!LocalDay(t + Hour)
           a == Form!Midnight(d)
<1>1. /\ Hour \in Int /\ Slot \in Int /\ Day \in Int
      /\ Slot >= 1 /\ Slot <= Hour /\ Slot <= Day
  BY FormAssumption
<1>2. t + Hour \in Int
  BY <1>1
<1>3. d \in Int /\ a <= t + Hour /\ t + Hour <= a + Day - 1
  BY <1>2, DayHolds
<1>4. a \in Int
  BY <1>3, FormAssumption DEF Form!Midnight
<1>5. ASSUME today PROVE a <= t
  <2>1. d = Form!LocalDay(t)
    BY <1>5
  <2> QED
    BY <2>1, DayHolds
<1> DEFINE u == t + Hour
           z == a + Day - 1
           lo == IF today THEN n ELSE a
<1>6. u \in Int /\ z \in Int /\ a <= u /\ u <= z /\ z = a + Day - 1 /\ u = t + Hour
  BY <1>1, <1>3, <1>4
<1>7. today => lo = n
  OBVIOUS
<1>8. ~today => lo = a
  OBVIOUS
<1> HIDE DEF a, d, u, z, lo
<1>9. \E m \in Int : m % Slot = 0 /\ a <= m /\ m <= z /\ lo <= m
  <2>1. CASE today
    <3>1. PICK m \in Int : m % Slot = 0 /\ u - Slot < m /\ m <= u
      BY <1>6, SlotWithin
    <3>2. lo = n /\ a <= t
      BY <1>5, <1>7, <2>1
    <3>3. a <= m /\ m <= z /\ lo <= m
      BY <1>1, <1>4, <1>6, <3>1, <3>2
    <3> QED
      BY <3>1, <3>3
  <2>2. CASE ~today
    <3>1. PICK m \in Int : m % Slot = 0 /\ z - Slot < m /\ m <= z
      BY <1>6, SlotWithin
    <3>2. lo = a
      BY <1>8, <2>2
    <3>3. a <= m /\ m <= z /\ lo <= m
      BY <1>1, <1>4, <1>6, <3>1, <3>2
    <3> QED
      BY <3>1, <3>3
  <2> QED
    BY <2>1, <2>2
<1>10. PICK m \in Int : m % Slot = 0 /\ a <= m /\ m <= z /\ lo <= m
  BY <1>9
<1>11. lo \in Int
  BY <1>4, <1>7, <1>8
<1>12. m \in a..z /\ m >= lo
  BY <1>4, <1>6, <1>10, <1>11
<1>13. SlotsOf(d, today, n) = {x \in a..z : x % Slot = 0 /\ x >= lo}
  BY DEF SlotsOf, Form!SlotOptions, a, z, lo
<1> QED
  BY <1>10, <1>12, <1>13 DEF d

LEMMA OfferedSlots ==
  ASSUME FormInv, NEW f \in FormRow
  PROVE  /\ Form!Offer(f) \in [day : Int, today : BOOLEAN, slots : SUBSET Int]
         /\ Form!Offer(f).day = f.day
         /\ Form!Offer(f).today <=> f.day = Form!Today
         /\ \E n \in Int : /\ n <= r1
                          /\ Form!Offer(f).slots = SlotsOf(f.day, Form!Offer(f).today, n)
<1>1. r1 \in Int /\ f.day \in Int /\ r3 \in [day : Int, today : BOOLEAN, slots : SUBSET Int]
  BY DEF FormInv, FormRow
<1>2. CASE r3.day = f.day /\ r3.today = (f.day = Form!Today)
  <2>1. Form!Offer(f) = r3
    BY <1>2 DEF Form!Offer
  <2> QED
    BY <1>1, <1>2, <2>1 DEF FormInv
<1>3. CASE ~(r3.day = f.day /\ r3.today = (f.day = Form!Today))
  <2> DEFINE b == f.day = Form!Today
             slots == SlotsOf(f.day, b, r1)
  <2>1. Form!Offer(f) = [day |-> f.day, today |-> b, slots |-> slots]
    BY <1>3 DEF Form!Offer, SlotsOf
  <2>2. b \in BOOLEAN
    OBVIOUS
  <2>3. b <=> f.day = Form!Today
    OBVIOUS
  <2> HIDE DEF b
  <2>4. slots \in SUBSET Int
    BY <1>1, <2>2, SlotsOfType
  <2>5. \E n \in Int : n <= r1 /\ slots = SlotsOf(f.day, b, n)
    BY <1>1
  <2> HIDE DEF slots
  <2> QED
    BY <1>1, <2>1, <2>2, <2>3, <2>4, <2>5
<1> QED
  BY <1>2, <1>3

LEMMA FormRendered ==
  ASSUME FormInv, NEW f \in FormRow, NEW cs \in Seq(FormCall), NEW told, NEW about,
         Form!Render(f, cs, told, about), r1' = r1,
         f.start % Slot = 0 \/ f.day = Form!LocalDay(r1 + Hour),
         about = "asked" => NewestIn(cs, FreeCalls, AskingFor(Form!Window(r2))),
         about = "answered" => told = Form!Window(r2)
  PROVE  FormInv'
<1> DEFINE o == Form!Offer(f)
           g == Form!StartFixed(f, o.slots)
           m == Form!WindowChanged(f) \/ Form!WindowChanged(g)
<1>1. /\ o \in [day : Int, today : BOOLEAN, slots : SUBSET Int]
      /\ o.day = f.day /\ (o.today <=> f.day = Form!Today)
      /\ \E n \in Int : n <= r1 /\ o.slots = SlotsOf(f.day, o.today, n)
  BY OfferedSlots
<1>2. g = IF o.slots # {} /\ f.start \notin o.slots
          THEN [f EXCEPT !.start = Min(o.slots)] ELSE f
  BY DEF Form!StartFixed, Form!Min, Min
<1>3. /\ r2' = g /\ r3' = o /\ r5' = cs
      /\ r4' = IF m THEN None ELSE told
      /\ r6' = IF ~m THEN about ELSE IF g.gpu = None THEN "not due" ELSE "due"
  BY DEF Form!Render
<1>8. ~m => Form!Window(g) = Form!Window(r2)
  BY DEF Form!WindowChanged
<1> HIDE DEF o, g, m
<1>4. PICK n \in Int : n <= r1 /\ o.slots = SlotsOf(f.day, o.today, n)
  BY <1>1
<1>5. r1 \in Int /\ f.day \in Int /\ f.start \in Int /\ o.today \in BOOLEAN
  BY <1>1 DEF FormInv, FormRow
<1>6. /\ o.slots \in SUBSET Int /\ IsFiniteSet(o.slots)
      /\ \A t \in o.slots : t % Slot = 0
  BY <1>4, <1>5, SlotsOfType
<1>7. g \in FormRow /\ g.start % Slot = 0
  <2>1. CASE o.slots # {} /\ f.start \notin o.slots
    <3>1. Min(o.slots) \in o.slots
      BY <1>6, <2>1, MinOfFinite
    <3>2. g = [f EXCEPT !.start = Min(o.slots)]
      BY <1>2, <2>1
    <3>3. Min(o.slots) \in Int /\ Min(o.slots) % Slot = 0
      BY <1>6, <3>1
    <3> QED
      BY <3>2, <3>3 DEF FormRow
  <2>2. CASE f.start \in o.slots
    BY <1>2, <1>6, <2>2
  <2>3. CASE o.slots = {}
    <3>1. ASSUME f.day = Form!LocalDay(r1 + Hour) PROVE FALSE
      <4>1. o.today => Form!LocalDay(r1 + Hour) = Form!LocalDay(r1)
        BY <1>1, <3>1 DEF Form!Today
      <4>2. SlotsOf(Form!LocalDay(r1 + Hour), o.today, n) # {}
        BY <1>4, <1>5, <4>1, SlotsLeft
      <4> QED
        BY <1>4, <2>3, <3>1, <4>2
    <3>2. g = f
      BY <1>2, <2>3
    <3> QED
      BY <3>1, <3>2
  <2> QED
    BY <2>1, <2>2, <2>3
<1>9. (r6 = "asked" => NewestIn(r5, FreeCalls, AskingFor(Form!Window(r2))))'
  <2>1. SUFFICES ASSUME r6' = "asked"
                 PROVE  NewestIn(cs, FreeCalls, AskingFor(Form!Window(g)))
    BY <1>3
  <2>2. about = "asked" /\ Form!Window(g) = Form!Window(r2)
    BY <1>3, <1>8, <2>1
  <2> QED
    BY <2>2
<1>10. (r6 = "answered" => r4 = Form!Window(r2))'
  <2>1. SUFFICES ASSUME r6' = "answered" PROVE r4' = Form!Window(g)
    BY <1>3
  <2>2. ~m /\ about = "answered" /\ Form!Window(g) = Form!Window(r2)
    BY <1>3, <1>8, <2>1
  <2> QED
    BY <1>3, <2>2
<1>11. (\E k \in Int : k <= r1 /\ r3.slots = SlotsOf(r3.day, r3.today, k))'
  BY <1>1, <1>3
<1> QED
  BY <1>1, <1>3, <1>5, <1>7, <1>9, <1>10, <1>11 DEF FormInv

LEMMA FormStarts == ASSUME Form!Init PROVE FormInv
<1> DEFINE d == Form!LocalDay(r1 + Hour)
           b == d = Form!LocalDay(r1)
           slots == SlotsOf(d, b, r1)
<1>1. r1 = 0 /\ r1 \in Int /\ r1 + Hour \in Int
  <2>1. r1 = 0
    BY Zenon DEF Form!Init
  <2> QED
    BY <2>1, FormAssumption
<1>2. /\ r3 = [day |-> d, today |-> b, slots |-> slots]
      /\ r2 = [gpu |-> None, day |-> d, start |-> Min(slots), length |-> Hour, text |-> FALSE]
      /\ r5 = <<>> /\ r6 = "not due"
  BY DEF Form!Init, Form!Today, SlotsOf, Form!Min, Min
<1>3. d \in Int
  BY <1>1, DayHolds
<1>4. b \in BOOLEAN /\ (b => Form!LocalDay(r1 + Hour) = Form!LocalDay(r1))
  OBVIOUS
<1> HIDE DEF b
<1>5. slots # {}
  BY <1>1, <1>4, SlotsLeft
<1> HIDE DEF d
<1>6. slots \in SUBSET Int /\ IsFiniteSet(slots) /\ \A t \in slots : t % Slot = 0
  BY <1>1, <1>3, <1>4, SlotsOfType
<1>7. \E n \in Int : n <= r1 /\ slots = SlotsOf(d, b, n)
  BY <1>1
<1> HIDE DEF slots
<1>8. Min(slots) \in Int /\ Min(slots) % Slot = 0
  BY <1>5, <1>6, MinOfFinite
<1>9. r2 \in FormRow /\ r2.start % Slot = 0
  BY <1>2, <1>3, <1>8 DEF FormRow, FormLengths
<1>10. /\ r3 \in [day : Int, today : BOOLEAN, slots : SUBSET Int]
       /\ r3.day = d /\ r3.today = b /\ r3.slots = slots
  BY <1>2, <1>3, <1>4, <1>6
<1>11. r5 \in Seq(FormCall)
  <2>1. <<>> \in Seq(FormCall)
    OBVIOUS
  <2> QED
    BY <1>2, <2>1
<1> QED
  BY <1>1, <1>2, <1>7, <1>9, <1>10, <1>11 DEF FormInv

LEMMA FormAsks ==
  ASSUME FormInv, NEW kind \in {"create", "watch", "free"}
  PROVE  /\ Form!Question(kind, r2) \in FormCall
         /\ Form!Question(kind, r2).kind = kind
         /\ Form!Question(kind, r2) \in AskingFor(Form!Window(r2))
<1>1. Form!Window(r2) \in FormWindow
  BY DEF FormInv, FormRow, FormWindow, Form!Window
<1>2. Form!Question(kind, r2) = [kind |-> kind, on |-> Form!Window(r2), reply |-> None]
  BY DEF Form!Question
<1> QED
  BY <1>1, <1>2 DEF FormCall, AskingFor

LEMMA FormEdited ==
  ASSUME FormInv, NEW f \in FormRow, Form!Edit(f), f.start % Slot = 0
  PROVE  FormInv'
<1>1. /\ Form!Render(f, r5, r4, r6) /\ r1' = r1 /\ r5 \in Seq(FormCall)
      /\ r6 = "asked" => NewestIn(r5, FreeCalls, AskingFor(Form!Window(r2)))
      /\ r6 = "answered" => r4 = Form!Window(r2)
  BY DEF Form!Edit, FormInv
<1> QED
  BY <1>1, FormRendered

LEMMA FormPressed ==
  ASSUME FormInv, NEW kind \in {"create", "watch"}, Form!Press(kind)
  PROVE  FormInv'
<1> DEFINE c == Form!Question(kind, r2)
<1>1. c \in FormCall /\ c \notin FreeCalls
  BY FormAsks DEF FreeCalls
<1>2. Form!Render(r2, Append(r5, c), r4, r6) /\ r1' = r1
  BY DEF Form!Press
<1> HIDE DEF c
<1>3. /\ r2 \in FormRow /\ r5 \in Seq(FormCall) /\ r2.start % Slot = 0
      /\ r6 = "asked" => NewestIn(r5, FreeCalls, AskingFor(Form!Window(r2)))
      /\ r6 = "answered" => r4 = Form!Window(r2)
  BY DEF FormInv
<1>4. Append(r5, c) \in Seq(FormCall)
  BY <1>1, <1>3
<1>5. r6 = "asked" => NewestIn(Append(r5, c), FreeCalls, AskingFor(Form!Window(r2)))
  BY <1>1, <1>3, NewestAppended
<1> QED
  BY <1>2, <1>3, <1>4, <1>5, FormRendered

LEMMA FormAsked == ASSUME FormInv, Form!Ask PROVE FormInv'
<1> DEFINE c == Form!Question("free", r2)
<1>1. c \in FormCall /\ c \in FreeCalls /\ c \in AskingFor(Form!Window(r2))
  BY FormAsks DEF FreeCalls
<1>2. /\ r1' = r1 /\ r2' = r2 /\ r3' = r3 /\ r4' = r4 /\ r5' = Append(r5, c)
      /\ r6' = "asked"
  BY DEF Form!Ask
<1> HIDE DEF c
<1>3. r5 \in Seq(FormCall)
  BY DEF FormInv
<1>4. NewestIn(Append(r5, c), FreeCalls, AskingFor(Form!Window(r2)))
  BY <1>1, <1>3, NewestAppended
<1>5. Append(r5, c) \in Seq(FormCall)
  BY <1>1, <1>3
<1> QED
  BY <1>2, <1>4, <1>5 DEF FormInv

LEMMA FormServed ==
  ASSUME FormInv, NEW i \in DOMAIN r5, Form!Serve(i)
  PROVE  FormInv'
<1>1. r5 \in Seq(FormCall) /\ r5[i] \in FormCall /\ r5[i].kind = "create"
  BY DEF FormInv, Form!Serve
<1>2. PICK reply \in {"ok", "refused"} : r5' = [r5 EXCEPT ![i].reply = reply]
  BY DEF Form!Serve
<1> DEFINE d == [r5[i] EXCEPT !.reply = reply]
<1>3. r5' = [r5 EXCEPT ![i] = d]
  BY <1>2
<1>4. d \in FormCall /\ d.kind = "create"
  BY <1>1 DEF FormCall
<1> HIDE DEF d
<1>5. d \notin FreeCalls /\ r5[i] \notin FreeCalls
  BY <1>1, <1>4 DEF FreeCalls
<1>6. r6 = "asked" => NewestIn(r5, FreeCalls, AskingFor(Form!Window(r2)))
  BY DEF FormInv
<1>7. r6 = "asked" => NewestIn([r5 EXCEPT ![i] = d], FreeCalls, AskingFor(Form!Window(r2)))
  <2> DEFINE W == AskingFor(Form!Window(r2))
  <2> HIDE DEF W
  <2> QED
    BY <1>1, <1>4, <1>5, <1>6, NewestAnswered DEF W
<1>8. r5' \in Seq(FormCall)
  BY <1>1, <1>3, <1>4
<1>9. UNCHANGED <<r1, r2, r3, r4, r6>>
  BY DEF Form!Serve
<1> QED
  BY <1>3, <1>7, <1>8, <1>9 DEF FormInv

(* The newest question about the window is the last one under way.         *)
LEMMA FormNewest ==
  ASSUME NEW i \in DOMAIN r5, r5 \in Seq(FormCall)
  PROVE  /\ Form!UnderWay("free") = Among(r5, FreeCalls)
         /\ r5[i].kind = "free" <=> i \in Among(r5, FreeCalls)
         /\ i \in Among(r5, FreeCalls) =>
              (Form!Newest(i) <=> i = Max(Among(r5, FreeCalls)))
<1>1. Form!UnderWay("free") = Among(r5, FreeCalls)
  BY DEF Form!UnderWay, Among, FreeCalls
<1>2. r5[i].kind = "free" <=> i \in Among(r5, FreeCalls)
  BY DEF Among, FreeCalls
<1>3. Form!Newest(i) <=> Among(r5, FreeCalls) = {} \/ i = Max(Among(r5, FreeCalls))
  BY <1>1 DEF Form!Newest, Form!Max, Max
<1> QED
  BY <1>1, <1>2, <1>3

(* One request less, and not the newest question still to be shown.        *)
LEMMA FormTakenOut ==
  ASSUME FormInv, NEW i \in DOMAIN r5, NEW W,
         NewestIn(r5, FreeCalls, W), r5[i].kind = "free" => ~Form!Newest(i)
  PROVE  NewestIn(Form!RemoveAt(r5, i), FreeCalls, W)
<1>1. r5 \in Seq(FormCall)
  BY DEF FormInv
<1>2. Form!RemoveAt(r5, i) = RemoveAt(r5, i)
  BY DEF Form!RemoveAt, RemoveAt
<1>3. i \in Among(r5, FreeCalls) => i # Max(Among(r5, FreeCalls))
  BY <1>1, FormNewest
<1> QED
  BY <1>1, <1>2, <1>3, NewestStays

LEMMA FormAnswers ==
  ASSUME NEW i, Form!Arrive(i)
  PROVE  /\ r1' = r1
         /\ \/ /\ r5[i].kind = "free"
               /\ Form!FreeRamTold(r5[i], Form!RemoveAt(r5, i), Form!Newest(i))
            \/ r5[i].kind = "create" /\ Form!Booked(Form!RemoveAt(r5, i))
            \/ r5[i].kind # "free" /\ Form!OnlyToast(Form!RemoveAt(r5, i))
<1>1. r1' = r1
  BY DEF Form!Arrive
<1>2. CASE r5[i].kind = "free"
  BY <1>1, <1>2 DEF Form!Arrive
<1>3. CASE r5[i].kind = "create" /\ r5[i].reply = "ok"
  BY <1>1, <1>3 DEF Form!Arrive
<1>4. CASE r5[i].kind # "free" /\ ~(r5[i].kind = "create" /\ r5[i].reply = "ok")
  BY <1>1, <1>4 DEF Form!Arrive
<1> QED
  BY <1>2, <1>3, <1>4

LEMMA FormAnswered ==
  ASSUME FormInv, NEW i \in DOMAIN r5, Form!Arrive(i)
  PROVE  FormInv'
<1> DEFINE rest == Form!RemoveAt(r5, i)
           W == AskingFor(Form!Window(r2))
<1>1. /\ r1 \in Int /\ r2 \in FormRow /\ r5 \in Seq(FormCall) /\ r2.start % Slot = 0
      /\ r6 = "asked" => NewestIn(r5, FreeCalls, W)
      /\ r6 = "answered" => r4 = Form!Window(r2)
  BY DEF FormInv
<1>2. rest \in Seq(FormCall)
  BY <1>1, Removed DEF Form!RemoveAt, RemoveAt
<1>3. r6 = "asked" /\ (r5[i].kind = "free" => ~Form!Newest(i)) => NewestIn(rest, FreeCalls, W)
  BY <1>1, FormTakenOut
<1>4. r1' = r1
  BY FormAnswers
<1>5. CASE r5[i].kind = "free" /\ Form!FreeRamTold(r5[i], rest, Form!Newest(i))
  <2> DEFINE about == CASE r6 = "asked" /\ Form!Newest(i) -> "answered"
                        [] r6 = "answered" -> "overwritten"
                        [] OTHER -> r6
  <2>1. Form!Render(r2, rest, r5[i].on, about)
    BY <1>5 DEF Form!FreeRamTold
  <2>2. /\ about = "asked" => r6 = "asked" /\ ~Form!Newest(i)
        /\ about = "answered" => r6 = "asked" /\ Form!Newest(i)
    <3>1. CASE r6 = "asked" /\ Form!Newest(i)
      <4>1. about = "answered"
        BY <3>1
      <4> QED
        BY <3>1, <4>1
    <3>2. CASE r6 = "answered"
      <4>1. about = "overwritten"
        BY <3>2
      <4> QED
        BY <4>1
    <3>3. CASE ~(r6 = "asked" /\ Form!Newest(i)) /\ r6 # "answered"
      <4>1. about = r6
        BY <3>3
      <4> QED
        BY <3>3, <4>1
    <3> QED
      BY <3>1, <3>2, <3>3
  <2> HIDE DEF about, rest
  <2>3. about = "asked" => NewestIn(rest, FreeCalls, W)
    BY <1>3, <2>2
  <2>4. about = "answered" => r5[i].on = Form!Window(r2)
    <3> SUFFICES ASSUME about = "answered" PROVE r5[i].on = Form!Window(r2)
      OBVIOUS
    <3>1. i \in Among(r5, FreeCalls) /\ i = Max(Among(r5, FreeCalls))
      BY <1>1, <1>5, <2>2, FormNewest
    <3>2. r5[i] \in W
      BY <1>1, <2>2, <3>1 DEF NewestIn
    <3> QED
      BY <3>2 DEF AskingFor
  <2> HIDE DEF W
  <2> QED
    BY <1>1, <1>2, <1>4, <2>1, <2>3, <2>4, FormRendered DEF W
<1>6. CASE r5[i].kind = "create" /\ Form!Booked(rest)
  <2> DEFINE f == Form!Reset
  <2>1. Form!Render(f, rest, r4, r6)
    BY <1>6 DEF Form!Booked
  <2>2. f \in FormRow /\ f.day = Form!LocalDay(r1 + Hour)
    <3>1. r1 + Hour \in Int
      BY <1>1, FormAssumption
    <3>2. Form!LocalDay(r1 + Hour) \in Int
      BY <3>1, DayHolds
    <3> QED
      BY <1>1, <3>1, <3>2 DEF Form!Reset, FormRow, FormLengths
  <2> HIDE DEF f, rest
  <2>3. r6 = "asked" => NewestIn(rest, FreeCalls, W)
    BY <1>3, <1>6
  <2> QED
    BY <1>1, <1>2, <1>4, <2>1, <2>2, <2>3, FormRendered
<1>7. CASE r5[i].kind # "free" /\ Form!OnlyToast(rest)
  <2>1. Form!Render(r2, rest, r4, r6)
    BY <1>7 DEF Form!OnlyToast
  <2> HIDE DEF rest
  <2>2. r6 = "asked" => NewestIn(rest, FreeCalls, W)
    BY <1>3, <1>7
  <2> QED
    BY <1>1, <1>2, <1>4, <2>1, <2>2, FormRendered
<1> QED
  BY <1>5, <1>6, <1>7, FormAnswers

LEMMA FormLost ==
  ASSUME FormInv, NEW i \in DOMAIN r5, Form!Lose(i)
  PROVE  FormInv'
<1> DEFINE rest == Form!RemoveAt(r5, i)
           W == AskingFor(Form!Window(r2))
<1>1. /\ r1 \in Int /\ r2 \in FormRow /\ r5 \in Seq(FormCall) /\ r2.start % Slot = 0
      /\ r6 = "asked" => NewestIn(r5, FreeCalls, W)
      /\ r6 = "answered" => r4 = Form!Window(r2)
  BY DEF FormInv
<1>2. rest \in Seq(FormCall)
  BY <1>1, Removed DEF Form!RemoveAt, RemoveAt
<1>3. r6 = "asked" /\ (r5[i].kind = "free" => ~Form!Newest(i)) => NewestIn(rest, FreeCalls, W)
  BY <1>1, FormTakenOut
<1>4. r1' = r1
  BY DEF Form!Lose
<1>5. CASE r5[i].kind \in {"create", "watch"}
  <2>1. Form!Render(r2, rest, r4, r6)
    BY <1>5 DEF Form!Lose, Form!OnlyToast
  <2> HIDE DEF rest
  <2>2. r6 = "asked" => NewestIn(rest, FreeCalls, W)
    BY <1>3, <1>5
  <2> QED
    BY <1>1, <1>2, <1>4, <2>1, <2>2, FormRendered
<1>6. CASE r5[i].kind \notin {"create", "watch"}
  <2>1. /\ r5' = rest /\ r2' = r2 /\ r3' = r3 /\ r4' = r4
        /\ r6' = IF r5[i].kind = "free" /\ r6 = "asked" /\ Form!Newest(i)
                THEN "lost" ELSE r6
    BY <1>6 DEF Form!Lose
  <2> HIDE DEF rest
  <2>2. r6' = "asked" => NewestIn(rest, FreeCalls, W)
    BY <1>3, <2>1
  <2>3. r6' = "answered" => r6 = "answered"
    BY <2>1
  <2> QED
    BY <1>2, <1>4, <2>1, <2>2, <2>3 DEF FormInv
<1> QED
  BY <1>5, <1>6

LEMMA FormKeeps == ASSUME FormInv, Form!Next PROVE FormInv'
<1>1. r2 \in FormRow /\ r2.start % Slot = 0
  BY DEF FormInv
<1>2. CASE \E g \in FormGpus : Form!Pick(g)
  <2>1. PICK g \in FormGpus : Form!Edit([r2 EXCEPT !.gpu = g])
    BY <1>2 DEF Form!Pick
  <2> DEFINE f == [r2 EXCEPT !.gpu = g]
  <2>2. f \in FormRow /\ f.start % Slot = 0
    BY <1>1 DEF FormRow
  <2> HIDE DEF f
  <2>3. Form!Edit(f)
    BY <2>1 DEF f
  <2> QED
    BY <2>2, <2>3, FormEdited
<1>3. CASE Form!Deselected
  <2> DEFINE f == [r2 EXCEPT !.gpu = None]
  <2>1. Form!Edit(f)
    BY <1>3 DEF Form!Deselected
  <2>2. f \in FormRow /\ f.start % Slot = 0
    BY <1>1 DEF FormRow
  <2> HIDE DEF f
  <2> QED
    BY <2>1, <2>2, FormEdited
<1>4. CASE \E day \in Form!Today..Form!LastDay : Form!PickDate(day)
  <2>1. PICK day \in Form!Today..Form!LastDay : Form!Edit([r2 EXCEPT !.day = day])
    BY <1>4 DEF Form!PickDate
  <2> DEFINE f == [r2 EXCEPT !.day = day]
  <2>2. f \in FormRow /\ f.start % Slot = 0
    <3>1. day \in Int
      OBVIOUS
    <3> QED
      BY <1>1, <3>1 DEF FormRow
  <2> HIDE DEF f
  <2>3. Form!Edit(f)
    BY <2>1 DEF f
  <2> QED
    BY <2>2, <2>3, FormEdited
<1>5. CASE \E t \in r3.slots : Form!PickStart(t)
  <2>1. PICK t \in r3.slots : Form!Edit([r2 EXCEPT !.start = t])
    BY <1>5 DEF Form!PickStart
  <2> DEFINE f == [r2 EXCEPT !.start = t]
  <2>2. PICK n \in Int : r3.slots = SlotsOf(r3.day, r3.today, n)
    BY DEF FormInv
  <2>3. r3.day \in Int /\ r3.today \in BOOLEAN
    BY DEF FormInv
  <2>4. t \in Int /\ t % Slot = 0
    BY <2>2, <2>3, SlotsOfType
  <2>5. f \in FormRow /\ f.start % Slot = 0
    BY <1>1, <2>4 DEF FormRow
  <2> HIDE DEF f
  <2>6. Form!Edit(f)
    BY <2>1 DEF f
  <2> QED
    BY <2>5, <2>6, FormEdited
<1>6. CASE \E d \in Durations : Form!TypeHours(d)
  <2>1. PICK d \in Durations : Form!Edit([r2 EXCEPT !.length = d])
    BY <1>6 DEF Form!TypeHours
  <2> DEFINE f == [r2 EXCEPT !.length = d]
  <2>2. f \in FormRow /\ f.start % Slot = 0
    BY <1>1 DEF FormRow, FormLengths
  <2> HIDE DEF f
  <2>3. Form!Edit(f)
    BY <2>1 DEF f
  <2> QED
    BY <2>2, <2>3, FormEdited
<1>7. CASE \E typed \in BOOLEAN : Form!TypeText(typed)
  <2>1. PICK typed \in BOOLEAN : Form!Edit([r2 EXCEPT !.text = typed])
    BY <1>7 DEF Form!TypeText
  <2> DEFINE f == [r2 EXCEPT !.text = typed]
  <2>2. f \in FormRow /\ f.start % Slot = 0
    BY <1>1 DEF FormRow
  <2> HIDE DEF f
  <2>3. Form!Edit(f)
    BY <2>1 DEF f
  <2> QED
    BY <2>2, <2>3, FormEdited
<1>8. CASE Form!HandleSubmit \/ Form!HandleCreateWatch
  BY <1>8, FormPressed DEF Form!HandleSubmit, Form!HandleCreateWatch
<1>9. CASE Form!Ask
  BY <1>9, FormAsked
<1>10. CASE Form!AnswerNext
  BY <1>10, FormServed, FormAnswered, FormLost DEF Form!AnswerNext
<1>11. CASE Form!Tick
  <2>1. r1' = r1 + 1 /\ UNCHANGED <<r2, r3, r4, r5, r6>>
    BY <1>11 DEF Form!Tick
  <2>2. r1 \in Int
    BY DEF FormInv
  <2>3. PICK n \in Int : n <= r1 /\ r3.slots = SlotsOf(r3.day, r3.today, n)
    BY DEF FormInv
  <2>4. n <= r1'
    BY <2>1, <2>2, <2>3
  <2>5. r1' \in Int
    BY <2>1, <2>2
  <2>6. \E k \in Int : k <= r1' /\ r3'.slots = SlotsOf(r3'.day, r3'.today, k)
    BY <2>1, <2>3, <2>4
  <2> QED
    BY <2>1, <2>5, <2>6 DEF FormInv
<1> QED
  BY <1>2, <1>3, <1>4, <1>5, <1>6, <1>7, <1>8, <1>9, <1>10, <1>11
     DEF Form!Next, Form!FormNext

(* The form keeps its invariant through every edit, tick of the clock and  *)
(* answer.                                                                 *)
THEOREM FormStaysSound == Spec => [](page = "form" => FormInv)
<1>1. Init => (page = "form" => FormInv)
  BY FormStarts, StartOfPage
<1>2. (page = "form" => FormInv) /\ [Next]_pageVars => (page = "form" => FormInv)'
  <2> SUFFICES ASSUME page = "form" => FormInv, [Next]_pageVars, page' = "form"
               PROVE  FormInv'
    OBVIOUS
  <2>1. CASE Next
    <3>1. page = "form" /\ Form!Next
      BY <2>1, StepOfPage
    <3> QED
      BY <3>1, FormKeeps
  <2>2. CASE UNCHANGED pageVars
    BY <2>2 DEF pageVars, registers, FormInv
  <2> QED
    BY <2>1, <2>2
<1> QED
  BY <1>1, <1>2, PTL DEF Spec

(***************************************************************************)
(* The start the form would submit lies on the slot grid, whatever the     *)
(* zone is and however slots, hours and days divide each other, as long as *)
(* a slot is no longer than an hour: then the day on which the hour from   *)
(* now lies always has a slot left to move to.  Nothing is claimed of the  *)
(* end, which a typed length may put off the grid.                         *)
(***************************************************************************)
THEOREM StartStaysOnGrid == Spec => []StartOnGrid
<1>1. (page = "form" => FormInv) => StartOnGrid
  BY DEF FormInv, StartOnGrid, Form!StartOnGrid
<1> QED
  BY <1>1, FormStaysSound, PTL

(***************************************************************************)
(* Once the newest question about the window is the last to have been      *)
(* answered, the free RAM shown is that of the window shown.  An answer    *)
(* that comes after the newest one's overwrites it, and then nothing is    *)
(* claimed.                                                                *)
(***************************************************************************)
THEOREM FreeRamIsOfTheWindow == Spec => []FreeRamFits
<1>1. (page = "form" => FormInv) => FreeRamFits
  BY DEF FormInv, FreeRamFits, Form!FreeRamFits
<1> QED
  BY <1>1, FormStaysSound, PTL

-----------------------------------------------------------------------------
(***************************************************************************)
(* The student's lists: ranks of rows, and pages.                          *)
(***************************************************************************)
UpTo(S, r) == {q \in S : q <= r}

LEMMA UpToIs ==
  ASSUME NEW S \in SUBSET Int, IsFiniteSet(S), NEW r \in Int
  PROVE  /\ IsFiniteSet(UpTo(S, r)) /\ UpTo(S, r) \subseteq S
         /\ Cardinality(UpTo(S, r)) \in Nat
<1>1. UpTo(S, r) \subseteq S
  BY DEF UpTo
<1> DEFINE U == UpTo(S, r)
<1> HIDE DEF U
<1>2. U \subseteq S
  BY <1>1 DEF U
<1>3. IsFiniteSet(U)
  BY <1>2, FS_Subset
<1>4. Cardinality(U) \in Nat
  BY <1>3, FS_CardinalityType
<1> QED
  BY <1>2, <1>3, <1>4 DEF U

(* The rows of a finite list have every rank from 1 to their number.       *)
LEMMA Ranked ==
  ASSUME NEW S \in SUBSET Int, IsFiniteSet(S), NEW k \in 1..Cardinality(S)
  PROVE  \E r \in S : Cardinality(UpTo(S, r)) = k
<1> DEFINE High == {r \in S : Cardinality(UpTo(S, r)) >= k}
<1>1. S # {}
  BY FS_EmptySet
<1>2. PICK top \in S : \A x \in S : top >= x
  BY <1>1, MaxOfFinite
<1>3. UpTo(S, top) = S
  BY <1>2 DEF UpTo
<1>4. Cardinality(S) \in Nat
  BY FS_CardinalityType
<1>5. top \in High
  BY <1>3, <1>4
<1>6. IsFiniteSet(High) /\ High \in SUBSET Int
  <2>1. High \subseteq S
    OBVIOUS
  <2> HIDE DEF High
  <2> QED
    BY <2>1, FS_Subset
<1> DEFINE r == Min(High)
<1>7. r \in High /\ \A x \in High : r <= x
  <2> HIDE DEF High
  <2> QED
    BY <1>5, <1>6, MinOfFinite
<1> HIDE DEF r
<1>8. r \in S /\ Cardinality(UpTo(S, r)) >= k
  BY <1>7
<1>9. Cardinality(UpTo(S, r)) \in Nat /\ IsFiniteSet(UpTo(S, r))
  BY <1>8, UpToIs
<1>10. ASSUME Cardinality(UpTo(S, r)) # k PROVE FALSE
  <2> DEFINE L == {q \in S : q < r}
             n == Cardinality(L)
  <2>1. L = UpTo(S, r) \ {r} /\ r \in UpTo(S, r)
    <3>1. r \in Int /\ r \in S
      BY <1>8
    <3>2. \A q \in S : q < r <=> q <= r /\ q # r
      BY <3>1
    <3>3. r <= r
      BY <3>1
    <3>4. L = {q \in S : q <= r /\ q # r}
      BY <3>2
    <3> QED
      BY <3>1, <3>3, <3>4 DEF UpTo
  <2> DEFINE U == UpTo(S, r)
  <2>2. IsFiniteSet(U) /\ r \in U
    BY <1>9, <2>1
  <2> HIDE DEF U
  <2>3. IsFiniteSet(U \ {r}) /\ Cardinality(U \ {r}) = Cardinality(U) - 1
    BY <2>2, FS_RemoveElement
  <2>4. L = U \ {r}
    BY <2>1 DEF U
  <2>5. n = Cardinality(UpTo(S, r)) - 1
    BY <2>3, <2>4 DEF U
  <2>6. n >= k /\ n >= 1
    BY <1>8, <1>9, <1>10, <2>5
  <2>7. L # {} /\ IsFiniteSet(L) /\ L \in SUBSET Int
    <3>1. IsFiniteSet(L)
      BY <2>3, <2>4
    <3>2. L # {}
      BY <2>6, FS_EmptySet
    <3> QED
      BY <3>1, <3>2
  <2> HIDE DEF n
  <2>8. PICK p \in L : \A x \in L : p >= x
    <3> HIDE DEF L
    <3> QED
      BY <2>7, MaxOfFinite
  <2>9. UpTo(S, p) = L
    <3>1. p \in Int /\ r \in Int /\ p \in S /\ p < r
      BY <1>8, <2>8
    <3>2. \A q \in S : q < r => p >= q
      BY <2>8
    <3>3. \A q \in S : q <= p <=> q < r
      BY <3>1, <3>2
    <3> QED
      BY <3>3 DEF UpTo
  <2>10. p \in High
    BY <2>6, <2>8, <2>9 DEF n
  <2>11. r <= p /\ p < r /\ p \in Int /\ r \in Int
    BY <1>7, <1>8, <2>8, <2>10
  <2> QED
    BY <2>11
<1> QED
  BY <1>8, <1>10

LEMMA PagesOf ==
  ASSUME NEW S \in SUBSET Int, IsFiniteSet(S)
  PROVE  /\ Mine!TotalPages(S) \in Nat \ {0}
         /\ \A p \in Nat \ {0} :
              p <= Mine!TotalPages(S) /\ S # {} => (p - 1) * PageSize + 1 <= Cardinality(S)
<1> DEFINE n == Cardinality(S)
           last == n + PageSize - 1
           q == last \div PageSize
<1>1. n \in Nat /\ PageSize \in Nat \ {0}
  BY FS_CardinalityType, ListsAssumption
<1>2. S # {} => n # 0
  BY FS_EmptySet
<1> HIDE DEF n
<1>3. last \in Nat /\ last = n + PageSize - 1
  BY <1>1
<1> HIDE DEF last
<1>4. q \in Nat /\ q * PageSize <= last
  BY <1>1, <1>3
<1>5. Mine!TotalPages(S) = Max({1, q})
  <2>1. Mine!Cardinality(S) = n
    BY DEF Mine!Cardinality, Cardinality, n
  <2> QED
    BY <2>1 DEF Mine!TotalPages, Mine!Max, Max, q, last
<1> HIDE DEF q
<1> DEFINE m == IF q >= 1 THEN q ELSE 1
<1>6. Mine!TotalPages(S) = m /\ m \in Nat \ {0}
  <2>1. m \in {1, q} /\ \A x \in {1, q} : m >= x
    BY <1>4
  <2>2. {1, q} \in SUBSET Int
    BY <1>4
  <2>3. m \in Nat \ {0}
    BY <1>4
  <2> HIDE DEF m
  <2>4. Max({1, q}) = m
    BY <2>1, <2>2, MaxIs
  <2> QED
    BY <1>5, <2>3, <2>4
<1>7. ASSUME NEW p \in Nat \ {0}, p <= m, S # {} PROVE (p - 1) * PageSize + 1 <= n
  <2>1. CASE p = 1
    BY <1>1, <1>2, <1>7, <2>1
  <2>2. CASE p # 1
    <3>1. p <= q
      BY <1>4, <1>7, <2>2
    <3>2. p * PageSize <= q * PageSize
      BY <1>1, <1>4, <3>1
    <3>3. (p - 1) * PageSize = p * PageSize - PageSize
      BY <1>1
    <3>4. p * PageSize \in Int /\ q * PageSize \in Int
      BY <1>1, <1>4
    <3> DEFINE a == p * PageSize
               b == q * PageSize
    <3>5. a <= b /\ b <= last /\ a \in Int /\ b \in Int
      BY <1>4, <3>2, <3>4
    <3> HIDE DEF a, b
    <3>6. a - PageSize + 1 <= n
      BY <1>1, <1>3, <3>5
    <3> QED
      BY <3>3, <3>6 DEF a
  <2> QED
    BY <2>1, <2>2
<1> QED
  BY <1>6, <1>7 DEF n

LEMMA PageShowsRows ==
  ASSUME r3 \in SUBSET Int, IsFiniteSet(r3), r3 # {},
         r4 \in Nat \ {0}, r4 <= Mine!TotalPages(r3)
  PROVE  Mine!PageItems # {}
<1> DEFINE k == (r4 - 1) * PageSize + 1
           e == r4 * PageSize
<1>1. PageSize \in Nat \ {0}
  BY ListsAssumption
<1>2. (r4 - 1) * PageSize \in Nat /\ e = (r4 - 1) * PageSize + PageSize
  BY <1>1
<1>3. k <= Cardinality(r3)
  BY PagesOf
<1>4. k \in Nat /\ k >= 1 /\ k <= e /\ e \in Nat
  BY <1>1, <1>2
<1>5. Mine!PageItems = {r \in r3 : Cardinality(UpTo(r3, r)) \in k..e}
  <2>1. \A r : Mine!Cardinality({q \in r3 : q <= r}) = Cardinality(UpTo(r3, r))
    BY Zenon DEF Mine!Cardinality, Cardinality, UpTo
  <2>2. Mine!PageItems = {r \in r3 : Mine!Cardinality({q \in r3 : q <= r}) \in k..e}
    BY DEF Mine!PageItems
  <2> QED
    BY <2>1, <2>2
<1> HIDE DEF k, e
<1>6. k \in 1..Cardinality(r3)
  BY <1>3, <1>4, FS_CardinalityType
<1>7. PICK r \in r3 : Cardinality(UpTo(r3, r)) = k
  BY <1>6, Ranked
<1> QED
  BY <1>4, <1>5, <1>7

(***************************************************************************)
(* What was told to be cancelled is gone on the server, and the newest     *)
(* load, once answered, does not list it.                                  *)
(***************************************************************************)
MineLoad == [kind : {"load"}, row : {None}, reply : {None} \cup SUBSET MineRows]
MineCancel == [kind : {"cancel"}, row : MineRows, reply : {None, "ok", "refused"}]
MineCall == MineLoad \cup MineCancel
MineLoads == {c \in MineCall : c.kind = "load"}
Settled(held) ==
  {c \in MineCall : c.kind = "cancel" /\ c.reply = "ok" => held[c.row] = "gone"}
Without(T) == {c \in MineCall : c.reply # None => c.reply \cap T = {}}

MineInv ==
  /\ r2 \in [MineRows -> {"future", "held", "gone"}]
  /\ r4 \in Nat \ {0}
  /\ r3 # None => r3 \in SUBSET MineRows /\ r4 <= Mine!TotalPages(r3)
  /\ r5 \in MineRows \cup {None}
  /\ r6 \in Seq(Settled(r2))
  /\ r8 \in SUBSET MineRows
  /\ \A r \in r8 : r2[r] = "gone"
  /\ r7 = "asked" => NewestIn(r6, MineLoads, Without(r8))
  /\ r7 = "answered" /\ r3 # None => r3 \cap r8 = {}

LEMMA MineLists ==
  ASSUME NEW S \in SUBSET MineRows
  PROVE  S \in SUBSET Int /\ IsFiniteSet(S) /\ Mine!TotalPages(S) \in Nat \ {0}
<1>1. S \subseteq MineRows /\ MineRows \subseteq Int /\ IsFiniteSet(MineRows)
  BY ListsAssumption
<1>2. S \in SUBSET Int
  BY <1>1
<1>3. IsFiniteSet(S)
  BY <1>1, FS_Subset
<1> QED
  BY <1>2, <1>3, PagesOf

LEMMA MineRequests ==
  ASSUME NEW held
  PROVE  /\ Mine!Request("load", None) \in Settled(held) \cap MineLoads
         /\ \A T : Mine!Request("load", None) \in Without(T)
         /\ \A r \in MineRows : Mine!Request("cancel", r) \in Settled(held) \ MineLoads
<1>1. /\ Mine!Request("load", None) \in MineCall
      /\ Mine!Request("load", None).kind = "load"
      /\ Mine!Request("load", None).reply = None
  BY DEF Mine!Request, MineCall, MineLoad
<1>2. ASSUME NEW r \in MineRows
      PROVE  /\ Mine!Request("cancel", r) \in MineCall
             /\ Mine!Request("cancel", r).kind = "cancel"
             /\ Mine!Request("cancel", r).reply = None
  BY DEF Mine!Request, MineCall, MineCancel
<1> QED
  BY <1>1, <1>2, NoneAssumption DEF Settled, Without, MineLoads

LEMMA MineNewest ==
  ASSUME NEW i \in DOMAIN r6, r6 \in Seq(MineCall)
  PROVE  /\ r6[i].kind = "load" <=> i \in Among(r6, MineLoads)
         /\ Mine!Newest(i) <=> i = Max(Among(r6, MineLoads))
<1>1. Mine!UnderWay("load") = Among(r6, MineLoads)
  BY DEF Mine!UnderWay, Among, MineLoads
<1>2. r6[i].kind = "load" <=> i \in Among(r6, MineLoads)
  BY DEF Among, MineLoads
<1> QED
  BY <1>1, <1>2 DEF Mine!Newest, Mine!Max, Max

LEMMA MineTakenOut ==
  ASSUME NEW i \in DOMAIN r6, NEW S \in SUBSET MineCall, r6 \in Seq(S), NEW W
  PROVE  /\ Mine!RemoveAt(r6, i) \in Seq(S)
         /\ NewestIn(r6, MineLoads, W) /\ (r6[i].kind = "load" => ~Mine!Newest(i)) =>
              NewestIn(Mine!RemoveAt(r6, i), MineLoads, W)
<1>1. Mine!RemoveAt(r6, i) = RemoveAt(r6, i)
  BY DEF Mine!RemoveAt, RemoveAt
<1>2. r6 \in Seq(MineCall)
  OBVIOUS
<1>3. RemoveAt(r6, i) \in Seq(S)
  BY Removed
<1>4. ASSUME NewestIn(r6, MineLoads, W), r6[i].kind = "load" => ~Mine!Newest(i)
      PROVE  NewestIn(RemoveAt(r6, i), MineLoads, W)
  <2>1. i \in Among(r6, MineLoads) => i # Max(Among(r6, MineLoads))
    BY <1>2, <1>4, MineNewest
  <2> QED
    BY <1>2, <1>4, <2>1, NewestStays
<1> QED
  BY <1>1, <1>3, <1>4

(* A request more: a load, or a cancellation.                              *)
LEMMA MineLoaded ==
  ASSUME NEW held, NEW T, NEW cs \in Seq(Settled(held))
  PROVE  /\ Append(cs, Mine!Request("load", None)) \in Seq(Settled(held))
         /\ NewestIn(Append(cs, Mine!Request("load", None)), MineLoads, Without(T))
<1> DEFINE c == Mine!Request("load", None)
           S == Settled(held)
           W == Without(T)
<1>1. c \in S /\ c \in MineLoads /\ c \in W
  BY MineRequests
<1> HIDE DEF c, S, W
<1>2. cs \in Seq(S)
  BY DEF S
<1>3. NewestIn(Append(cs, c), MineLoads, W)
  BY <1>1, <1>2, NewestAppended
<1>4. Append(cs, c) \in Seq(S)
  BY <1>1, <1>2
<1> QED
  BY <1>3, <1>4 DEF c, S, W

LEMMA MineCancels ==
  ASSUME MineInv, NEW r \in MineRows, Mine!Cancel(r)
  PROVE  MineInv'
<1> DEFINE c == Mine!Request("cancel", r)
           S == Settled(r2)
           W == Without(r8)
<1>1. c \in S /\ c \notin MineLoads
  BY MineRequests
<1>2. r6' = Append(r6, c) /\ UNCHANGED <<r2, r3, r4, r5, r7, r8>>
  BY DEF Mine!Cancel
<1>3. r6 \in Seq(S) /\ (r7 = "asked" => NewestIn(r6, MineLoads, W))
  BY DEF MineInv
<1> HIDE DEF c, S, W
<1>4. Append(r6, c) \in Seq(S)
  BY <1>1, <1>3
<1>5. r7 = "asked" => NewestIn(Append(r6, c), MineLoads, W)
  BY <1>1, <1>3, NewestAppended
<1> QED
  BY <1>2, <1>4, <1>5 DEF MineInv, S, W

(* The server's side only moves on: what is gone stays so.                 *)
LEMMA MineGoesOn ==
  ASSUME NEW h, NEW k, \A r \in MineRows : h[r] = "gone" => k[r] = "gone"
  PROVE  Settled(h) \subseteq Settled(k) /\ Settled(h) \subseteq MineCall
<1>1. ASSUME NEW c \in Settled(h) PROVE c \in Settled(k)
  <2>1. c \in MineCall /\ (c.kind = "cancel" => c.row \in MineRows)
    BY DEF Settled, MineCall, MineLoad, MineCancel
  <2> QED
    BY <2>1 DEF Settled
<1> QED
  BY <1>1 DEF Settled

LEMMA MineServed ==
  ASSUME MineInv, NEW i \in DOMAIN r6, Mine!Serve(i)
  PROVE  MineInv'
<1> DEFINE c == r6[i]
           W == Without(r8)
           S == Settled(r2')
<1>1. /\ r2 \in [MineRows -> {"future", "held", "gone"}]
      /\ r6 \in Seq(Settled(r2)) /\ r8 \in SUBSET MineRows
      /\ \A r \in r8 : r2[r] = "gone"
      /\ r7 = "asked" => NewestIn(r6, MineLoads, W)
  BY DEF MineInv
<1>2. c \in Settled(r2)
  BY <1>1
<1>3. PICK reply \in Mine!Replies(c) : r6' = [r6 EXCEPT ![i].reply = reply]
  BY DEF Mine!Serve
<1>4. /\ c.reply = None /\ UNCHANGED <<r3, r4, r5, r7, r8>>
      /\ r2' = IF c.kind = "cancel" THEN [r2 EXCEPT ![c.row] = "gone"] ELSE r2
  BY DEF Mine!Serve
<1> DEFINE d == [c EXCEPT !.reply = reply]
<1>5. r6' = [r6 EXCEPT ![i] = d]
  BY <1>3
<1>6. \/ c.kind = "load" /\ c \in MineLoad
      \/ c.kind = "cancel" /\ c \in MineCancel
  BY <1>2 DEF Settled, MineCall, MineLoad, MineCancel
<1>7. /\ r2' \in [MineRows -> {"future", "held", "gone"}]
      /\ \A r \in MineRows : r2[r] = "gone" => r2'[r] = "gone"
  BY <1>1, <1>4, <1>6 DEF MineLoad, MineCancel
<1>8. d \in S /\ (d \in MineLoads <=> c \in MineLoads) /\ (c \in MineLoads => d \in W)
  <2>1. CASE c.kind = "load" /\ c \in MineLoad
    <3>1. reply = Mine!HeldRows
      BY <2>1 DEF Mine!Replies
    <3>2. reply \in SUBSET MineRows /\ reply \cap r8 = {}
      BY <1>1, <3>1 DEF Mine!HeldRows
    <3>3. /\ d \in MineLoad /\ d.kind = "load" /\ d.reply = reply
      BY <2>1, <3>2 DEF MineLoad
    <3> HIDE DEF d
    <3> QED
      BY <2>1, <3>2, <3>3 DEF MineLoads, MineCall, Settled, Without
  <2>2. CASE c.kind = "cancel" /\ c \in MineCancel
    <3>1. reply \in {"ok", "refused"}
      BY <2>2 DEF Mine!Replies
    <3>2. /\ d \in MineCancel /\ d.kind = "cancel" /\ d.row = c.row
      BY <2>2, <3>1 DEF MineCancel
    <3>3. r2'[c.row] = "gone" /\ c.row \in MineRows
      BY <1>1, <1>4, <2>2 DEF MineCancel
    <3> HIDE DEF d
    <3> QED
      BY <2>2, <3>2, <3>3 DEF MineLoads, MineCall, Settled, Without
  <2> QED
    BY <1>6, <2>1, <2>2
<1> HIDE DEF d, S, c, W
<1>9. Settled(r2) \subseteq S /\ S \subseteq MineCall
  BY <1>7, MineGoesOn DEF S, Settled
<1>10. r6 \in Seq(S)
  BY <1>1, <1>9
<1>11. [r6 EXCEPT ![i] = d] \in Seq(S)
  BY <1>8, <1>10
<1>12. r7 = "asked" => NewestIn([r6 EXCEPT ![i] = d], MineLoads, W)
  <2>1. d \in S /\ (d \in MineLoads <=> r6[i] \in MineLoads)
    BY <1>8 DEF c
  <2>2. CASE r6[i] \in MineLoads
    BY <1>1, <1>8, <1>10, <2>1, <2>2, NewestAnswered DEF c
  <2>3. CASE r6[i] \notin MineLoads
    BY <1>1, <1>8, <1>10, <2>1, <2>3, NewestAnswered DEF c
  <2> QED
    BY <2>2, <2>3
<1>13. \A r \in r8 : r2'[r] = "gone"
  BY <1>1, <1>7
<1> QED
  BY <1>4, <1>5, <1>7, <1>11, <1>12, <1>13 DEF MineInv, S, W

LEMMA MineMoves ==
  ASSUME MineInv, NEW r \in MineRows, Mine!Appear(r) \/ Mine!Vanish(r)
  PROVE  MineInv'
<1>1. /\ r2 \in [MineRows -> {"future", "held", "gone"}]
      /\ r6 \in Seq(Settled(r2)) /\ r8 \in SUBSET MineRows
      /\ \A q \in r8 : r2[q] = "gone"
  BY DEF MineInv
<1>2. /\ \/ r2' = [r2 EXCEPT ![r] = "held"] /\ r2[r] = "future"
         \/ r2' = [r2 EXCEPT ![r] = "gone"]
      /\ UNCHANGED <<r3, r4, r5, r6, r7, r8>>
  BY DEF Mine!Appear, Mine!Vanish
<1>3. /\ r2' \in [MineRows -> {"future", "held", "gone"}]
      /\ \A q \in MineRows : r2[q] = "gone" => r2'[q] = "gone"
  BY <1>1, <1>2
<1>4. Settled(r2) \subseteq Settled(r2')
  BY <1>3, MineGoesOn
<1>5. r6 \in Seq(Settled(r2'))
  BY <1>1, <1>4
<1>6. \A q \in r8 : r2'[q] = "gone"
  BY <1>1, <1>3
<1> QED
  BY <1>2, <1>3, <1>5, <1>6 DEF MineInv

LEMMA MineShown ==
  ASSUME MineInv, NEW i \in DOMAIN r6, r6[i].kind = "load", r6[i].reply # None,
         Mine!Show(r6[i].reply, i)
  PROVE  MineInv'
<1> DEFINE rows == r6[i].reply
           rest == Mine!RemoveAt(r6, i)
           W == Without(r8)
           S == Settled(r2)
<1>1. /\ r4 \in Nat \ {0} /\ r6 \in Seq(S)
      /\ r7 = "asked" => NewestIn(r6, MineLoads, W)
  BY DEF MineInv
<1>2. S \in SUBSET MineCall /\ r6 \in Seq(MineCall)
  BY <1>1, MineGoesOn DEF Settled
<1>3. rows \in SUBSET MineRows
  <2>1. r6[i] \in MineCall
    BY <1>2
  <2> QED
    BY <2>1 DEF MineCall, MineLoad, MineCancel
<1>4. /\ r3' = rows /\ r4' = Mine!Clamped(r4, rows) /\ r6' = rest
      /\ UNCHANGED <<r2, r5, r8>>
  BY DEF Mine!Show
<1>5. /\ r7' = "asked" => r7 = "asked" /\ ~Mine!Newest(i)
      /\ r7' = "answered" => r7 = "asked" /\ Mine!Newest(i)
  <2>1. CASE r7 = "asked" /\ Mine!Newest(i)
    <3>1. r7' = "answered"
      BY <2>1 DEF Mine!Show
    <3> QED
      BY <2>1, <3>1
  <2>2. CASE r7 = "answered"
    <3>1. r7' = "overwritten"
      BY <2>2 DEF Mine!Show
    <3> QED
      BY <3>1
  <2>3. CASE ~(r7 = "asked" /\ Mine!Newest(i)) /\ r7 # "answered"
    <3>1. r7' = r7
      BY <2>3 DEF Mine!Show
    <3> QED
      BY <2>3, <3>1
  <2> QED
    BY <2>1, <2>2, <2>3
<1>6. r4' \in Nat \ {0} /\ r4' <= Mine!TotalPages(rows)
  <2> DEFINE m == Mine!TotalPages(rows)
  <2>1. m \in Nat \ {0}
    BY <1>3, MineLists
  <2>2. r4' = Min({r4, m})
    BY <1>4 DEF Mine!Clamped, Mine!Min, Min
  <2> HIDE DEF m
  <2> DEFINE M == {r4, m}
  <2>3. M \in SUBSET Int /\ M # {}
    BY <1>1, <2>1
  <2>4. IsFiniteSet(M)
    <3>1. IsFiniteSet({m})
      BY FS_Singleton
    <3>2. IsFiniteSet({m} \cup {r4})
      BY <3>1, FS_AddElement
    <3>3. M = {m} \cup {r4}
      OBVIOUS
    <3> QED
      BY <3>2, <3>3
  <2> HIDE DEF M
  <2>5. Min(M) \in M /\ \A x \in M : Min(M) <= x
    BY <2>3, <2>4, MinOfFinite
  <2> QED
    BY <1>1, <2>1, <2>2, <2>5 DEF M, m
<1> HIDE DEF rest, S
<1>7. rest \in Seq(S)
  BY <1>1, <1>2, MineTakenOut DEF rest
<1>8. r7' = "asked" => NewestIn(rest, MineLoads, W)
  BY <1>1, <1>2, <1>5, MineTakenOut DEF rest
<1>9. r7' = "answered" => rows \cap r8 = {}
  <2> SUFFICES ASSUME r7' = "answered" PROVE rows \cap r8 = {}
    OBVIOUS
  <2>1. i \in Among(r6, MineLoads) /\ i = Max(Among(r6, MineLoads))
    BY <1>2, <1>5, MineNewest
  <2>2. r6[i] \in W
    BY <1>1, <1>5, <2>1 DEF NewestIn
  <2> QED
    BY <2>2 DEF Without
<1> HIDE DEF W, rows
<1>10. MineInv /\ UNCHANGED <<r2, r5, r8>> =>
         /\ r2' \in [MineRows -> {"future", "held", "gone"}]
         /\ r5' \in MineRows \cup {None} /\ r8' \in SUBSET MineRows
         /\ \A r \in r8' : r2'[r] = "gone"
  BY DEF MineInv
<1> QED
  BY <1>3, <1>4, <1>6, <1>7, <1>8, <1>9, <1>10 DEF MineInv, S, W

LEMMA MineTold ==
  ASSUME MineInv, NEW i \in DOMAIN r6, r6[i].kind # "load", r6[i].reply = "ok",
         Mine!CancelTold(r6[i].row, Mine!RemoveAt(r6, i))
  PROVE  MineInv'
<1> DEFINE r == r6[i].row
           rest == Mine!RemoveAt(r6, i)
           cs == Append(rest, Mine!Request("load", None))
<1>1. r6 \in Seq(Settled(r2))
  BY DEF MineInv
<1>2. Settled(r2) \in SUBSET MineCall
  BY DEF Settled
<1>3. rest \in Seq(Settled(r2))
  BY <1>1, <1>2, MineTakenOut
<1>4. r \in MineRows /\ r2[r] = "gone"
  <2>1. r6[i] \in Settled(r2)
    BY <1>1
  <2> QED
    BY <2>1 DEF Settled, MineCall, MineLoad, MineCancel
<1>5. /\ r8' = r8 \cup {r} /\ r5' = None /\ r6' = cs /\ r7' = "asked"
      /\ UNCHANGED <<r2, r3, r4>>
  BY DEF Mine!CancelTold, Mine!Load
<1>6. cs \in Seq(Settled(r2)) /\ NewestIn(cs, MineLoads, Without(r8'))
  BY <1>3, MineLoaded
<1> HIDE DEF r, rest, cs
<1>7. r8' \in SUBSET MineRows /\ \A q \in r8' : r2[q] = "gone"
  BY <1>4, <1>5 DEF MineInv
<1> QED
  BY <1>5, <1>6, <1>7 DEF MineInv

(* One request less, and nothing else changed.                             *)
LEMMA MineDropped ==
  ASSUME MineInv, NEW i \in DOMAIN r6, r6' = Mine!RemoveAt(r6, i),
         UNCHANGED <<r2, r3, r4, r5, r8>>,
         r7' = "asked" => r7 = "asked" /\ (r6[i].kind = "load" => ~Mine!Newest(i)),
         r7' = "answered" => r7 = "answered"
  PROVE  MineInv'
<1> DEFINE S == Settled(r2)
           W == Without(r8)
<1>1. r6 \in Seq(S) /\ (r7 = "asked" => NewestIn(r6, MineLoads, W))
  BY DEF MineInv
<1>2. S \in SUBSET MineCall
  BY DEF Settled
<1> HIDE DEF S, W
<1>3. r6' \in Seq(S)
  BY <1>1, <1>2, MineTakenOut
<1>4. r7' = "asked" => NewestIn(r6', MineLoads, W)
  BY <1>1, <1>2, MineTakenOut
<1> QED
  BY <1>3, <1>4 DEF MineInv, S, W

LEMMA MineKeeps == ASSUME MineInv, Mine!Next PROVE MineInv'
<1>1. CASE \E p \in 1..Mine!Cardinality(MineRows) : Mine!SetPage(p)
  <2>1. PICK p \in 1..Mine!Cardinality(MineRows) : Mine!SetPage(p)
    BY <1>1
  <2>2. /\ r3 # None /\ r3 \in SUBSET MineRows /\ p \in 1..Mine!TotalPages(r3)
        /\ r4' = p /\ UNCHANGED <<r2, r3, r5, r6, r7, r8>>
    BY <2>1 DEF Mine!SetPage, Mine!Listed, MineInv
  <2>3. Mine!TotalPages(r3) \in Nat \ {0}
    BY <2>2, MineLists
  <2>4. r4' \in Nat \ {0} /\ r4' <= Mine!TotalPages(r3)
    BY <2>2, <2>3
  <2> QED
    BY <2>2, <2>4 DEF MineInv
<1>2. CASE Mine!Reload
  <2>1. /\ r6' = Append(r6, Mine!Request("load", None)) /\ r7' = "asked"
        /\ UNCHANGED <<r2, r3, r4, r5, r8>>
    BY <1>2 DEF Mine!Reload, Mine!Load
  <2>2. r6 \in Seq(Settled(r2))
    BY DEF MineInv
  <2>3. r6' \in Seq(Settled(r2)) /\ NewestIn(r6', MineLoads, Without(r8))
    BY <2>1, <2>2, MineLoaded
  <2> QED
    BY <2>1, <2>3 DEF MineInv
<1>3. CASE Mine!Listed /\ \E r \in Mine!PageItems : Mine!AskToCancel(r) \/ Mine!HandleCancelWatch(r)
  <2>1. PICK r \in Mine!PageItems : Mine!AskToCancel(r) \/ Mine!HandleCancelWatch(r)
    BY <1>3
  <2>2. r \in MineRows
    BY <1>3 DEF Mine!Listed, Mine!PageItems, MineInv
  <2>3. CASE Mine!AskToCancel(r)
    BY <2>2, <2>3 DEF Mine!AskToCancel, MineInv
  <2>4. CASE Mine!HandleCancelWatch(r)
    BY <2>2, <2>4, MineCancels DEF Mine!HandleCancelWatch
  <2> QED
    BY <2>1, <2>3, <2>4
<1>4. CASE Mine!Dismiss
  BY <1>4 DEF Mine!Dismiss, MineInv
<1>5. CASE Mine!ConfirmCancel
  <2>1. r5 \in MineRows /\ Mine!Cancel(r5)
    BY <1>5 DEF Mine!ConfirmCancel, MineInv
  <2> QED
    BY <2>1, MineCancels
<1>6. CASE \E i \in DOMAIN r6 : Mine!Serve(i) \/ Mine!Arrive(i) \/ Mine!Lose(i)
  <2>1. PICK i \in DOMAIN r6 : Mine!Serve(i) \/ Mine!Arrive(i) \/ Mine!Lose(i)
    BY <1>6
  <2>2. CASE Mine!Serve(i)
    BY <2>2, MineServed
  <2>3. CASE Mine!Arrive(i)
    <3>1. CASE r6[i].kind = "load"
      <4>1. r6[i].reply # None /\ Mine!Show(r6[i].reply, i)
        BY <2>3, <3>1 DEF Mine!Arrive
      <4> QED
        BY <3>1, <4>1, MineShown
    <3>2. CASE r6[i].kind # "load" /\ r6[i].reply = "ok"
      <4>1. Mine!CancelTold(r6[i].row, Mine!RemoveAt(r6, i))
        BY <2>3, <3>2 DEF Mine!Arrive
      <4> QED
        BY <3>2, <4>1, MineTold
    <3>3. CASE r6[i].kind # "load" /\ r6[i].reply # "ok"
      <4>1. Mine!Toast(Mine!RemoveAt(r6, i))
        BY <2>3, <3>3 DEF Mine!Arrive
      <4> QED
        BY <3>3, <4>1, MineDropped DEF Mine!Toast
    <3> QED
      BY <3>1, <3>2, <3>3
  <2>4. CASE Mine!Lose(i)
    <3>1. /\ r6' = Mine!RemoveAt(r6, i) /\ UNCHANGED <<r2, r3, r4, r5, r8>>
          /\ r7' = IF r6[i].kind = "load" /\ r7 = "asked" /\ Mine!Newest(i)
                  THEN "lost" ELSE r7
      BY <2>4 DEF Mine!Lose
    <3>2. /\ r7' = "asked" => r7 = "asked" /\ (r6[i].kind = "load" => ~Mine!Newest(i))
          /\ r7' = "answered" => r7 = "answered"
      BY <3>1
    <3> QED
      BY <3>1, <3>2, MineDropped
  <2> QED
    BY <2>1, <2>2, <2>3, <2>4
<1>7. CASE \E r \in MineRows : Mine!Appear(r) \/ Mine!Vanish(r)
  BY <1>7, MineMoves
<1> QED
  BY <1>1, <1>2, <1>3, <1>4, <1>5, <1>6, <1>7 DEF Mine!Next

(* So does the list of one's own reservations, however its loads and       *)
(* cancellations are answered.                                             *)
THEOREM MineStaysSound == Spec => [](page = "mine" => MineInv)
<1>1. ASSUME Mine!Init PROVE MineInv
  <2> DEFINE c == Mine!Request("load", None)
  <2>1. /\ r2 \in [MineRows -> {"held", "future"}] /\ r3 = None /\ r4 = 1
        /\ r5 = None /\ r8 = {} /\ r6 = <<c>> /\ r7 = "asked"
    BY <1>1 DEF Mine!Init
  <2>2. <<>> \in Seq(Settled(r2)) /\ <<c>> = Append(<<>>, c)
    OBVIOUS
  <2>3. r6 \in Seq(Settled(r2)) /\ NewestIn(r6, MineLoads, Without(r8))
    BY <2>1, <2>2, MineLoaded
  <2> HIDE DEF c
  <2>4. r2 \in [MineRows -> {"future", "held", "gone"}]
    BY <2>1
  <2> QED
    BY <2>1, <2>3, <2>4 DEF MineInv
<1>2. Init => (page = "mine" => MineInv)
  BY <1>1, StartOfPage
<1>3. (page = "mine" => MineInv) /\ [Next]_pageVars => (page = "mine" => MineInv)'
  <2> SUFFICES ASSUME page = "mine" => MineInv, [Next]_pageVars, page' = "mine"
               PROVE  MineInv'
    OBVIOUS
  <2>1. CASE Next
    <3>1. page = "mine" /\ Mine!Next
      BY <2>1, StepOfPage
    <3> QED
      BY <3>1, MineKeeps
  <2>2. CASE UNCHANGED pageVars
    BY <2>2 DEF pageVars, registers, MineInv
  <2> QED
    BY <2>1, <2>2
<1> QED
  BY <1>2, <1>3, PTL DEF Spec

(***************************************************************************)
(* However the list shrinks, its page shows rows while there are any: the  *)
(* number of the page never exceeds that of the pages, and the rows of a   *)
(* finite list have every rank up to their number.                         *)
(***************************************************************************)
THEOREM PageIsNeverEmpty == Spec => []NeverAnEmptyPage
<1>1. (page = "mine" => MineInv) => NeverAnEmptyPage
  <2> SUFFICES ASSUME MineInv, r3 # None, r3 # {} PROVE Mine!PageItems # {}
    BY DEF NeverAnEmptyPage, Mine!NeverAnEmptyPage, Mine!Listed
  <2>1. r3 \in SUBSET MineRows /\ r4 \in Nat \ {0} /\ r4 <= Mine!TotalPages(r3)
    BY DEF MineInv
  <2>2. r3 \in SUBSET Int /\ IsFiniteSet(r3)
    BY <2>1, MineLists
  <2> QED
    BY <2>1, <2>2, PageShowsRows
<1> QED
  BY <1>1, MineStaysSound, PTL

(***************************************************************************)
(* What the student was told is cancelled leaves the list, as soon as the  *)
(* newest load is the last to have been answered.                          *)
(***************************************************************************)
THEOREM CancelledLeavesTheList == Spec => []CancelledIsGone
<1>1. (page = "mine" => MineInv) => CancelledIsGone
  BY DEF MineInv, CancelledIsGone, Mine!CancelledIsGone, Mine!Listed
<1> QED
  BY <1>1, MineStaysSound, PTL

-----------------------------------------------------------------------------
(***************************************************************************)
(* The administrator's lists: the newest load is for the filters and the   *)
(* page chosen, unless a cancellation asked for it.                        *)
(***************************************************************************)
ListFilters(t) ==
  [{"user", "server", "gpu", "category"} ->
     {All} \cup UNION {TableFilters[t][column] :
                        column \in {"user", "server", "gpu", "category"}}]
ListView(t) == [filters : ListFilters(t), page : Int]
ListReply(t) ==
  [rows : SUBSET TableRows[t], live : SUBSET TableRows[t],
   total : {Cardinality(M) : M \in SUBSET TableRows[t]}]
ListLoad(t) ==
  [kind : {"load"}, of : ListView(t), after : {"view", "cancellation"},
   reply : {None} \cup ListReply(t)]
ListTargets(t) ==
  TableRows[t] \cup {All} \cup
  UNION {TableFilters[t][column] : column \in {"user", "server", "gpu", "category"}}
ListCancel(t) ==
  [kind : {"cancel", "cancel of user", "cancel all"}, of : ListView(t),
   target : ListTargets(t), reply : {None, "ok", "refused"}]
ListCall(t) == ListLoad(t) \cup ListCancel(t)
OfView(t, view) == {c \in ListLoad(t) : c.of = view \/ c.after = "cancellation"}
View == [filters |-> r3, page |-> r4]

ListInv(t) ==
  /\ r1 \in {"reservations", "watches", "feedback"}
  /\ r2 \in SUBSET TableRows[t]
  /\ r3 \in ListFilters(t) /\ r4 \in Int
  /\ r7 \in Seq(ListCall(t))
  /\ r8 = "asked" => NewestIn(r7, ListLoad(t), OfView(t, View))
  /\ r8 = "answered" => r5.of = View \/ r5.after = "cancellation"

LEMMA ListKinds ==
  ASSUME NEW t, NEW c \in ListCall(t)
  PROVE  /\ c.kind = "load" <=> c \in ListLoad(t)
         /\ c.kind # "load" => c \in ListCancel(t)
BY DEF ListCall, ListLoad, ListCancel

LEMMA ListNewest ==
  ASSUME NEW t \in Tables, r7 \in Seq(ListCall(t)), NEW i \in DOMAIN r7
  PROVE  /\ r7[i].kind = "load" <=> i \in Among(r7, ListLoad(t))
         /\ Lists(t)!Newest(i) <=> i = Max(Among(r7, ListLoad(t)))
<1>1. \A j \in DOMAIN r7 : r7[j].kind = "load" <=> r7[j] \in ListLoad(t)
  BY ListKinds
<1>2. Lists(t)!UnderWay({"load"}) = Among(r7, ListLoad(t))
  BY <1>1 DEF Lists!UnderWay, Among
<1>3. r7[i].kind = "load" <=> i \in Among(r7, ListLoad(t))
  BY <1>1 DEF Among
<1> QED
  BY <1>2, <1>3 DEF Lists!Newest, Lists!Max, Max

LEMMA ListTakenOut ==
  ASSUME NEW t \in Tables, r7 \in Seq(ListCall(t)), NEW i \in DOMAIN r7, NEW W
  PROVE  /\ Lists(t)!Rest(i) \in Seq(ListCall(t))
         /\ /\ NewestIn(r7, ListLoad(t), W)
            /\ r7[i].kind = "load" => ~Lists(t)!Newest(i)
            => NewestIn(Lists(t)!Rest(i), ListLoad(t), W)
<1>1. Lists(t)!Rest(i) = RemoveAt(r7, i)
  BY DEF Lists!Rest, RemoveAt
<1>2. RemoveAt(r7, i) \in Seq(ListCall(t))
  BY Removed
<1>3. ASSUME NewestIn(r7, ListLoad(t), W), r7[i].kind = "load" => ~Lists(t)!Newest(i)
      PROVE  NewestIn(RemoveAt(r7, i), ListLoad(t), W)
  <2>1. i \in Among(r7, ListLoad(t)) => i # Max(Among(r7, ListLoad(t)))
    BY <1>3, ListNewest
  <2> QED
    BY <1>3, <2>1, NewestStays
<1> QED
  BY <1>1, <1>2, <1>3

LEMMA ListAsks ==
  ASSUME NEW t \in Tables, NEW f \in ListFilters(t), NEW p \in Int,
         NEW after \in {"view", "cancellation"}
  PROVE  /\ Lists(t)!Load(f, p, after) \in ListLoad(t)
         /\ Lists(t)!Load(f, p, after).of = [filters |-> f, page |-> p]
         /\ Lists(t)!Load(f, p, after).after = after
<1>1. Lists(t)!Load(f, p, after) =
        [kind |-> "load", of |-> [filters |-> f, page |-> p], after |-> after,
         reply |-> None]
  BY DEF Lists!Load
<1>2. [filters |-> f, page |-> p] \in ListView(t)
  BY DEF ListView
<1> QED
  BY <1>1, <1>2 DEF ListLoad

LEMMA OneMore ==
  ASSUME NEW S, NEW s \in Seq(S), NEW a \in S
  PROVE  s \o <<a>> = Append(s, a)
OBVIOUS

LEMMA TwoMore ==
  ASSUME NEW S, NEW s \in Seq(S), NEW a \in S, NEW b \in S
  PROVE  s \o <<a, b>> = Append(Append(s, a), b) /\ <<a, b>> = Append(<<a>>, b)
OBVIOUS

LEMMA ListViewed ==
  ASSUME NEW t \in Tables, ListInv(t), NEW f \in ListFilters(t),
         NEW g \in ListFilters(t), NEW p \in Int, Lists(t)!View(f, g, p)
  PROVE  ListInv(t)'
<1> DEFINE a == Lists(t)!Load(f, r4, "view")
           b == Lists(t)!Load(g, p, "view")
           W == OfView(t, [filters |-> g, page |-> p])
           D == ListCall(t)
           C == ListLoad(t)
           loads == Lists(t)!Loads(f, g, p)
<1>1. r7 \in Seq(D) /\ r4 \in Int
  BY DEF ListInv
<1>2. a \in C /\ a \in D /\ a.of = [filters |-> f, page |-> r4]
  BY <1>1, ListAsks DEF ListCall
<1>3. b \in C /\ b \in D /\ b \in W
  BY ListAsks DEF ListCall, OfView
<1>4. /\ r3' = g /\ r4' = p /\ r7' = r7 \o loads
      /\ r8' = IF loads = <<>> THEN r8 ELSE "asked"
      /\ UNCHANGED <<r1, r2, r5>>
  BY DEF Lists!View
<1>5. loads = IF <<g, p>> # <<f, r4>>
              THEN Append(IF Lists(t)!Changed(f, r4) THEN <<a>> ELSE <<>>, b)
              ELSE IF Lists(t)!Changed(f, r4) THEN <<a>> ELSE <<>>
  BY DEF Lists!Loads
<1>6. Lists(t)!Changed(f, r4) <=> f # r3
  BY DEF Lists!Changed
<1>7. <<g, p>> = <<f, r4>> => a = b /\ g = f /\ p = r4
  OBVIOUS
<1> HIDE DEF a, b, loads, W, C, D
<1>8. CASE loads = <<>>
  <2>1. r7' = r7
    BY <1>1, <1>4, <1>8
  <2>2. g = f /\ p = r4 /\ f = r3
    <3>1. \A s : Append(<<>>, s) # <<>>
      OBVIOUS
    <3>2. <<a>> # <<>> /\ Append(<<a>>, b) # <<>> /\ Append(<<>>, b) # <<>>
      OBVIOUS
    <3> QED
      BY <1>5, <1>6, <1>7, <1>8, <3>2
  <2>3. UNCHANGED <<r1, r2, r3, r4, r5, r7, r8>>
    BY <1>4, <1>8, <2>1, <2>2
  <2> QED
    BY <2>3 DEF ListInv, View
<1>9. ASSUME loads # <<>>
      PROVE  r7 \o loads \in Seq(D) /\ NewestIn(r7 \o loads, C, W)
  <2>1. loads \in {<<a>>, <<b>>, <<a, b>>} /\ (loads = <<a>> => a = b)
    <3>1. Append(<<a>>, b) = <<a, b>> /\ Append(<<>>, b) = <<b>>
      <4>1. Append(<<>>, b) = <<b>>
        OBVIOUS
      <4> QED
        BY <1>1, <1>2, <1>3, <4>1, TwoMore
    <3>2. CASE <<g, p>> # <<f, r4>>
      <4>1. loads = <<a, b>> \/ loads = <<b>>
        BY <1>5, <3>1, <3>2
      <4>2. <<a, b>> # <<a>> /\ (<<b>> = <<a>> => a = b)
        OBVIOUS
      <4> QED
        BY <4>1, <4>2
    <3>3. CASE <<g, p>> = <<f, r4>>
      BY <1>5, <1>7, <1>9, <3>3
    <3> QED
      BY <3>2, <3>3
  <2>2. CASE loads = <<b>>
    <3>1. r7 \o loads = Append(r7, b) /\ Append(r7, b) \in Seq(D)
      BY <1>1, <1>3, <2>2, OneMore
    <3> QED
      BY <1>1, <1>3, <3>1, NewestAppended
  <2>3. CASE loads = <<a, b>>
    <3> DEFINE s == Append(r7, a)
    <3>1. s \in Seq(D)
      BY <1>1, <1>2
    <3>2. r7 \o loads = Append(s, b)
      BY <1>1, <1>2, <1>3, <2>3, TwoMore
    <3> HIDE DEF s
    <3>3. NewestIn(Append(s, b), C, W) /\ Append(s, b) \in Seq(D)
      BY <1>3, <3>1, NewestAppended
    <3> QED
      BY <3>2, <3>3
  <2> QED
    BY <2>1, <2>2, <2>3
<1>10. CASE loads # <<>>
  <2>1. r7' \in Seq(D) /\ NewestIn(r7', C, W) /\ r8' = "asked"
    BY <1>4, <1>9, <1>10
  <2>2. View' = [filters |-> g, page |-> p]
    BY <1>4 DEF View
  <2> QED
    BY <1>4, <2>1, <2>2 DEF ListInv, W, C, D
<1> QED
  BY <1>8, <1>10

(* Steps that leave the view, what is shown and the newest load alone.     *)
LEMMA ListRests ==
  ASSUME NEW t \in Tables, ListInv(t), UNCHANGED <<r1, r3, r4, r5, r7, r8>>,
         r2' \subseteq r2
  PROVE  ListInv(t)'
BY DEF ListInv, View

LEMMA ListSent ==
  ASSUME NEW t \in Tables, ListInv(t),
         NEW kind \in {"cancel", "cancel of user", "cancel all"},
         NEW target \in ListTargets(t), Lists(t)!Send(kind, target)
  PROVE  ListInv(t)'
<1> DEFINE c == Lists(t)!Cancellation(kind, target)
           D == ListCall(t)
           C == ListLoad(t)
           W == OfView(t, View)
<1>1. c = [kind |-> kind, of |-> View, target |-> target, reply |-> None]
  BY DEF Lists!Cancellation, View
<1>2. View \in ListView(t)
  BY DEF View, ListView, ListInv
<1>3. c \in ListCancel(t) /\ c.kind # "load"
  <2> DEFINE v == View
  <2>1. c = [kind |-> kind, of |-> v, target |-> target, reply |-> None] /\ v \in ListView(t)
    BY <1>1, <1>2
  <2> HIDE DEF v, c
  <2>2. c \in ListCancel(t)
    BY <2>1 DEF ListCancel
  <2>3. c.kind = kind
    BY <2>1
  <2> QED
    BY <2>2, <2>3
<1>4. c \in D /\ c \notin C
  BY <1>3 DEF ListCall, ListLoad
<1>5. r7' = Append(r7, c) /\ UNCHANGED <<r1, r2, r3, r4, r5, r8>>
  BY DEF Lists!Send
<1>6. r7 \in Seq(D) /\ (r8 = "asked" => NewestIn(r7, C, W))
  BY DEF ListInv
<1> HIDE DEF c, C, D, W
<1>7. Append(r7, c) \in Seq(D)
  <2>1. c \in D /\ r7 \in Seq(D)
    BY <1>4, <1>6
  <2> QED
    BY <2>1, AppendProperties
<1>8. r8 = "asked" => NewestIn(Append(r7, c), C, W)
  BY <1>4, <1>6, NewestAppended
<1>9. View' = View
  BY <1>5 DEF View
<1> QED
  BY <1>5, <1>7, <1>8, <1>9 DEF ListInv, C, D, W

LEMMA ListServed ==
  ASSUME NEW t \in Tables, ListInv(t), NEW i \in DOMAIN r7, Lists(t)!Serve(i)
  PROVE  ListInv(t)'
<1> DEFINE c == r7[i]
           D == ListCall(t)
           C == ListLoad(t)
           W == OfView(t, View)
<1>1. /\ r1 \in {"reservations", "watches", "feedback"} /\ r2 \in SUBSET TableRows[t]
      /\ r7 \in Seq(D) /\ (r8 = "asked" => NewestIn(r7, C, W))
  BY DEF ListInv
<1>2. c \in D
  BY <1>1
<1>3. c.reply = None /\ UNCHANGED <<r1, r3, r4, r5, r8>>
  BY DEF Lists!Serve
<1>4. \E reply :
        /\ r7' = [r7 EXCEPT ![i].reply = reply] /\ r2' \subseteq r2
        /\ c.kind = "load" => reply \in ListReply(t)
        /\ c.kind # "load" => reply \in {"ok", "refused"}
  <2>1. CASE c.kind = "load"
    <3> DEFINE f == c.of.filters
               M == Lists(t)!Matching(f)
               rows == Lists(t)!PageOf(M, c.of.page)
               a == Lists(t)!Answer(f, c.of.page)
    <3>1. M \subseteq TableRows[t]
      <4>1. CASE r1 = "reservations"
        <5>1. M = {r \in r2 : Lists(t)!Passes(r, f, {"user", "server", "gpu"})}
          BY <4>1 DEF Lists!Matching
        <5> QED
          BY <1>1, <5>1
      <4>2. CASE r1 = "watches"
        <5>1. M = {r \in TableRows[t] : Lists(t)!Passes(r, f, {"user", "server", "gpu"})}
          BY <4>2 DEF Lists!Matching
        <5> QED
          BY <5>1
      <4>3. CASE r1 = "feedback"
        <5>1. M = {r \in r2 : Lists(t)!Passes(r, f, {"user", "category"})}
          BY <4>3 DEF Lists!Matching
        <5> QED
          BY <1>1, <5>1
      <4> QED
        BY <1>1, <4>1, <4>2, <4>3
    <3>2. a = [rows |-> rows, live |-> rows \cap r2, total |-> Cardinality(M)]
      <4>1. Lists(t)!Cardinality(M) = Cardinality(M)
        BY DEF Lists!Cardinality, Cardinality
      <4> QED
        BY <4>1 DEF Lists!Answer
    <3>3. rows \subseteq M
      BY DEF Lists!PageOf
    <3>4. r7' = [r7 EXCEPT ![i].reply = a] /\ r2' = r2
      BY <2>1 DEF Lists!Serve
    <3> HIDE DEF a, rows, M
    <3>5. a \in ListReply(t)
      BY <3>1, <3>2, <3>3 DEF ListReply
    <3> QED
      BY <2>1, <3>4, <3>5
  <2>2. CASE c.kind # "load"
    <3>1. PICK outcome \in Lists(t)!Outcomes(c) : r7' = [r7 EXCEPT ![i].reply = outcome]
      BY <2>2 DEF Lists!Serve
    <3>2. r2' = r2 \ Lists(t)!Hit(c)
      BY <2>2 DEF Lists!Serve
    <3>3. outcome \in {"ok", "refused"}
      BY DEF Lists!Outcomes
    <3> QED
      BY <2>2, <3>1, <3>2, <3>3
  <2> QED
    BY <2>1, <2>2
<1>5. PICK reply : /\ r7' = [r7 EXCEPT ![i].reply = reply] /\ r2' \subseteq r2
                   /\ c.kind = "load" => reply \in ListReply(t)
                   /\ c.kind # "load" => reply \in {"ok", "refused"}
  BY <1>4
<1> DEFINE d == [c EXCEPT !.reply = reply]
<1>6. r7' = [r7 EXCEPT ![i] = d]
  BY <1>5
<1>7. d \in D /\ (d \in C <=> c \in C) /\ (c \in W => d \in W)
  <2>1. CASE c.kind = "load"
    <3>1. c \in C
      BY <1>2, <2>1, ListKinds
    <3>2. reply \in ListReply(t)
      BY <1>5, <2>1
    <3>3. d \in C /\ d.of = c.of /\ d.after = c.after
      BY <3>1, <3>2 DEF ListLoad
    <3> HIDE DEF d, c
    <3> QED
      BY <3>1, <3>3 DEF ListCall, OfView
  <2>2. CASE c.kind # "load"
    <3>1. c \in ListCancel(t)
      BY <1>2, <2>2, ListKinds
    <3>2. reply \in {"ok", "refused"}
      BY <1>5, <2>2
    <3>3. d \in ListCancel(t) /\ d.kind # "load"
      BY <2>2, <3>1, <3>2 DEF ListCancel
    <3> HIDE DEF d, c
    <3>4. c \notin C /\ d \notin C /\ d \in D
      BY <2>2, <3>1, <3>3 DEF ListCall, ListLoad
    <3> QED
      BY <3>4 DEF OfView
  <2> QED
    BY <2>1, <2>2
<1> HIDE DEF d, C, D, W
<1>8. [r7 EXCEPT ![i] = d] \in Seq(D)
  BY <1>1, <1>7
<1>9. r8 = "asked" => NewestIn([r7 EXCEPT ![i] = d], C, W)
  <2>1. (d \in C <=> r7[i] \in C) /\ (d \in C /\ r7[i] \in W => d \in W) /\ d \in D
    BY <1>7
  <2> HIDE DEF c
  <2> QED
    BY <1>1, <2>1, NewestAnswered
<1>10. View' = View
  BY <1>3 DEF View
<1> QED
  BY <1>3, <1>5, <1>6, <1>8, <1>9, <1>10 DEF ListInv, C, D, W

LEMMA ListShown ==
  ASSUME NEW t \in Tables, ListInv(t), NEW i \in DOMAIN r7, r7[i].kind = "load",
         Lists(t)!Show(i)
  PROVE  ListInv(t)'
<1> DEFINE c == r7[i]
           rest == Lists(t)!Rest(i)
           W == OfView(t, View)
<1>1. r7 \in Seq(ListCall(t)) /\ (r8 = "asked" => NewestIn(r7, ListLoad(t), W))
  BY DEF ListInv
<1>2. /\ r5' = [of |-> c.of, after |-> c.after, rows |-> c.reply.rows,
                live |-> c.reply.live, total |-> c.reply.total]
      /\ r7' = rest /\ UNCHANGED <<r1, r2, r3, r4>>
  BY DEF Lists!Show
<1>3. /\ r8' = "asked" => r8 = "asked" /\ ~Lists(t)!Newest(i)
      /\ r8' = "answered" => r8 = "asked" /\ Lists(t)!Newest(i)
  <2>1. CASE r8 = "asked" /\ Lists(t)!Newest(i)
    <3>1. r8' = "answered"
      BY <2>1 DEF Lists!Show
    <3> QED
      BY <2>1, <3>1
  <2>2. CASE r8 = "answered"
    <3>1. r8' = "overwritten"
      BY <2>2 DEF Lists!Show
    <3> QED
      BY <3>1
  <2>3. CASE ~(r8 = "asked" /\ Lists(t)!Newest(i)) /\ r8 # "answered"
    <3>1. r8' = r8
      BY <2>3 DEF Lists!Show
    <3> QED
      BY <2>3, <3>1
  <2> QED
    BY <2>1, <2>2, <2>3
<1>4. r5'.of = c.of /\ r5'.after = c.after
  BY <1>2
<1>5. rest \in Seq(ListCall(t))
  BY <1>1, ListTakenOut
<1>6. r8' = "asked" => NewestIn(rest, ListLoad(t), W)
  BY <1>1, <1>3, ListTakenOut
<1>7. r8' = "answered" => c.of = View \/ c.after = "cancellation"
  <2> SUFFICES ASSUME r8' = "answered" PROVE c \in W
    BY DEF OfView
  <2>1. i \in Among(r7, ListLoad(t)) /\ i = Max(Among(r7, ListLoad(t)))
    BY <1>1, <1>3, ListNewest
  <2> QED
    BY <1>1, <1>3, <2>1 DEF NewestIn
<1>8. View' = View
  BY <1>2 DEF View
<1> HIDE DEF c, rest, W
<1> QED
  BY <1>2, <1>4, <1>5, <1>6, <1>7, <1>8 DEF ListInv, W

LEMMA ListReloaded ==
  ASSUME NEW t \in Tables, ListInv(t), NEW i \in DOMAIN r7, r7[i].kind # "load",
         Lists(t)!Cancelled(r7[i], Lists(t)!Rest(i))
  PROVE  ListInv(t)'
<1> DEFINE c == r7[i]
           rest == Lists(t)!Rest(i)
           b == Lists(t)!Load(c.of.filters, c.of.page, "cancellation")
           W == OfView(t, View)
<1>1. r7 \in Seq(ListCall(t))
  BY DEF ListInv
<1>2. c.of.filters \in ListFilters(t) /\ c.of.page \in Int
  <2>1. c \in ListCall(t)
    BY <1>1
  <2> QED
    BY <2>1 DEF ListCall, ListLoad, ListCancel, ListView
<1>3. b \in ListLoad(t) /\ b \in ListCall(t) /\ b \in W
  BY <1>2, ListAsks DEF ListCall, OfView
<1>4. r7' = Append(rest, b) /\ r8' = "asked" /\ UNCHANGED <<r1, r2, r3, r4, r5>>
  BY DEF Lists!Cancelled
<1>5. rest \in Seq(ListCall(t))
  BY <1>1, ListTakenOut
<1>6. View' = View
  BY <1>4 DEF View
<1> HIDE DEF c, rest, b, W
<1>7. Append(rest, b) \in Seq(ListCall(t)) /\ NewestIn(Append(rest, b), ListLoad(t), W)
  BY <1>3, <1>5, NewestAppended
<1> QED
  BY <1>4, <1>6, <1>7 DEF ListInv, W

LEMMA ListDropped ==
  ASSUME NEW t \in Tables, ListInv(t), NEW i \in DOMAIN r7, r7' = Lists(t)!Rest(i),
         UNCHANGED <<r1, r2, r3, r4, r5>>,
         r8' = "asked" => r8 = "asked" /\ (r7[i].kind = "load" => ~Lists(t)!Newest(i)),
         r8' = "answered" => r8 = "answered"
  PROVE  ListInv(t)'
<1> DEFINE W == OfView(t, View)
<1>1. r7 \in Seq(ListCall(t)) /\ (r8 = "asked" => NewestIn(r7, ListLoad(t), W))
  BY DEF ListInv
<1>2. View' = View
  BY DEF View
<1> HIDE DEF W
<1>3. r7' \in Seq(ListCall(t))
  BY <1>1, ListTakenOut
<1>4. r8' = "asked" => NewestIn(r7', ListLoad(t), W)
  BY <1>1, ListTakenOut
<1> QED
  BY <1>2, <1>3, <1>4 DEF ListInv, W

LEMMA ListKeeps ==
  ASSUME NEW t \in Tables, ListInv(t), Lists(t)!Next
  PROVE  ListInv(t)'
<1> DEFINE Values(column) == TableFilters[t][column] \cup {All}
<1>1. r3 \in ListFilters(t) /\ r4 \in Int /\ r2 \in SUBSET TableRows[t]
  BY DEF ListInv
<1>2. ASSUME NEW column \in {"user", "server", "gpu", "category"}, NEW v \in Values(column)
      PROVE  [r3 EXCEPT ![column] = v] \in ListFilters(t)
  BY <1>1 DEF ListFilters
<1>3. \A column \in {"user", "server", "gpu", "category"} :
        Lists(t)!Offered(column) = Values(column)
  BY DEF Lists!Offered
<1>4. CASE \E u \in Lists(t)!Offered("user") : Lists(t)!SetUser(u)
  <2>1. PICK u \in Values("user") : Lists(t)!SetUser(u)
    BY <1>3, <1>4
  <2> DEFINE f == [r3 EXCEPT !.user = u]
  <2>2. f \in ListFilters(t) /\ Lists(t)!View(f, f, 1)
    BY <1>2, <2>1 DEF Lists!SetUser
  <2> HIDE DEF f
  <2> QED
    BY <2>2, ListViewed
<1>5. CASE \E s \in Lists(t)!Offered("server") : Lists(t)!SetServer(s)
  <2>1. PICK s \in Values("server") : Lists(t)!SetServer(s)
    BY <1>3, <1>5
  <2> DEFINE f == [r3 EXCEPT !.server = s]
             g == [f EXCEPT !.gpu = All]
  <2>2. f \in ListFilters(t) /\ Lists(t)!View(f, g, 1)
    BY <1>2, <2>1 DEF Lists!SetServer
  <2> HIDE DEF f
  <2>3. g \in ListFilters(t)
    BY <2>2 DEF ListFilters
  <2> HIDE DEF g
  <2> QED
    BY <2>2, <2>3, ListViewed
<1>6. CASE \E v \in Lists(t)!Offered("gpu") : Lists(t)!SetGpu(v)
  <2>1. PICK v \in Values("gpu") : Lists(t)!SetGpu(v)
    BY <1>3, <1>6
  <2> DEFINE f == [r3 EXCEPT !.gpu = v]
  <2>2. f \in ListFilters(t) /\ Lists(t)!View(f, f, 1)
    BY <1>2, <2>1 DEF Lists!SetGpu
  <2> HIDE DEF f
  <2> QED
    BY <2>2, ListViewed
<1>7. CASE \E v \in Lists(t)!Offered("category") : Lists(t)!SetCategory(v)
  <2>1. PICK v \in Values("category") : Lists(t)!SetCategory(v)
    BY <1>3, <1>7
  <2> DEFINE f == [r3 EXCEPT !.category = v]
  <2>2. f \in ListFilters(t) /\ Lists(t)!View(f, f, 1)
    BY <1>2, <2>1 DEF Lists!SetCategory
  <2> HIDE DEF f
  <2> QED
    BY <2>2, ListViewed
<1>8. CASE \E p \in 1..Lists(t)!Cardinality(TableRows[t]) : Lists(t)!SetPage(p)
  <2>1. PICK p \in 1..Lists(t)!Cardinality(TableRows[t]) : Lists(t)!SetPage(p)
    BY <1>8
  <2>2. p \in Int /\ Lists(t)!View(r3, r3, p)
    BY <2>1 DEF Lists!SetPage
  <2> QED
    BY <1>1, <2>2, ListViewed
<1>9. CASE (\E r \in Lists(t)!Buttons : Lists(t)!AskAbout(r)) \/ Lists(t)!AskAboutUser
             \/ Lists(t)!Dismiss
  <2>1. UNCHANGED <<r1, r2, r3, r4, r5, r7, r8>>
    BY <1>9 DEF Lists!AskAbout, Lists!AskAboutUser, Lists!Dismiss
  <2> QED
    BY <2>1, ListRests
<1>10. CASE Lists(t)!Confirm
  <2>1. r6 \in ListTargets(t) /\ Lists(t)!Send("cancel", r6)
    BY <1>10 DEF Lists!Confirm, ListTargets
  <2> QED
    BY <2>1, ListSent
<1>11. CASE Lists(t)!ConfirmCancelForUser
  <2>1. r3.user \in ListTargets(t)
    BY <1>1 DEF ListFilters, ListTargets
  <2>2. Lists(t)!Send("cancel of user", r3.user)
    BY <1>11 DEF Lists!ConfirmCancelForUser
  <2> QED
    BY <2>1, <2>2, ListSent
<1>12. CASE Lists(t)!HandleCancelAll
  <2>1. All \in ListTargets(t) /\ Lists(t)!Send("cancel all", All)
    BY <1>12 DEF Lists!HandleCancelAll, ListTargets
  <2> QED
    BY <2>1, ListSent
<1>13. CASE \E i \in DOMAIN r7 : Lists(t)!Serve(i) \/ Lists(t)!Arrive(i) \/ Lists(t)!Lose(i)
  <2>1. PICK i \in DOMAIN r7 : Lists(t)!Serve(i) \/ Lists(t)!Arrive(i) \/ Lists(t)!Lose(i)
    BY <1>13
  <2>2. CASE Lists(t)!Serve(i)
    BY <2>2, ListServed
  <2>3. CASE Lists(t)!Arrive(i)
    <3>1. CASE r7[i].kind = "load"
      BY <2>3, <3>1, ListShown DEF Lists!Arrive
    <3>2. CASE r7[i].kind # "load" /\ r7[i].reply = "ok"
      BY <2>3, <3>2, ListReloaded DEF Lists!Arrive
    <3>3. CASE r7[i].kind # "load" /\ r7[i].reply # "ok"
      <4>1. r7' = Lists(t)!Rest(i) /\ UNCHANGED <<r1, r2, r3, r4, r5, r8>>
        BY <2>3, <3>3 DEF Lists!Arrive
      <4> QED
        BY <3>3, <4>1, ListDropped
    <3> QED
      BY <3>1, <3>2, <3>3
  <2>4. CASE Lists(t)!Lose(i)
    <3>1. /\ r7' = Lists(t)!Rest(i) /\ UNCHANGED <<r1, r2, r3, r4, r5>>
          /\ r8' = IF r7[i].kind = "load" /\ r8 = "asked" /\ Lists(t)!Newest(i)
                  THEN "lost" ELSE r8
      BY <2>4 DEF Lists!Lose
    <3>2. /\ r8' = "asked" => r8 = "asked" /\ (r7[i].kind = "load" => ~Lists(t)!Newest(i))
          /\ r8' = "answered" => r8 = "answered"
      BY <3>1
    <3> QED
      BY <3>1, <3>2, ListDropped
  <2> QED
    BY <2>1, <2>2, <2>3, <2>4
<1>14. CASE \E r \in TableRows[t] : Lists(t)!Elsewhere(r)
  <2>1. r2' \subseteq r2 /\ UNCHANGED <<r1, r3, r4, r5, r7, r8>>
    BY <1>14 DEF Lists!Elsewhere
  <2> QED
    BY <2>1, ListRests
<1> HIDE DEF Values
<1> QED
  BY <1>4, <1>5, <1>6, <1>7, <1>8, <1>9, <1>10, <1>11, <1>12, <1>13, <1>14 DEF Lists!Next

LEMMA ListStarts ==
  ASSUME NEW t \in Tables, Lists(t)!Init
  PROVE  ListInv(t)
<1> DEFINE f == Lists(t)!NoFilters
           c == Lists(t)!Load(f, 1, "view")
<1>1. /\ r1 \in {"reservations", "watches", "feedback"} /\ r2 = TableRows[t]
      /\ r3 = f /\ r4 = 1 /\ r7 = <<c>> /\ r8 = "asked"
  BY DEF Lists!Init
<1>2. f \in ListFilters(t)
  BY DEF Lists!NoFilters, Lists!Columns, ListFilters
<1>3. c \in ListLoad(t) /\ c \in ListCall(t) /\ c \in OfView(t, View)
  BY <1>1, <1>2, ListAsks DEF ListCall, OfView, View
<1> HIDE DEF c, f
<1>4. <<>> \in Seq(ListCall(t)) /\ <<c>> = Append(<<>>, c)
  OBVIOUS
<1>5. r7 \in Seq(ListCall(t)) /\ NewestIn(r7, ListLoad(t), OfView(t, View))
  <2>1. Append(<<>>, c) \in Seq(ListCall(t))
    BY <1>3, <1>4
  <2> QED
    BY <1>1, <1>3, <1>4, <2>1, NewestAppended
<1> QED
  BY <1>1, <1>2, <1>5 DEF ListInv

(* And each of the administrator's lists, whatever of them is shown when   *)
(* an answer comes.                                                        *)
THEOREM ListsStaySound == Spec => [](\A t \in Tables : page = t => ListInv(t))
<1>1. Init => \A t \in Tables : page = t => ListInv(t)
  BY ListStarts, StartOfPage
<1>2. (\A t \in Tables : page = t => ListInv(t)) /\ [Next]_pageVars
        => (\A t \in Tables : page = t => ListInv(t))'
  <2> SUFFICES ASSUME \A t \in Tables : page = t => ListInv(t), [Next]_pageVars,
                      NEW t \in Tables, page' = t
               PROVE  ListInv(t)'
    OBVIOUS
  <2>1. CASE Next
    <3>1. page = t /\ Lists(t)!Next
      BY <2>1, StepOfPage
    <3> QED
      BY <3>1, ListKeeps
  <2>2. CASE UNCHANGED pageVars
    BY <2>2 DEF pageVars, registers, ListInv, View
  <2> QED
    BY <2>1, <2>2
<1> QED
  BY <1>1, <1>2, PTL DEF Spec

(***************************************************************************)
(* The rows on screen are those of the filters and the page chosen, once   *)
(* the newest load is the last to have been answered, whatever tables,     *)
(* filters and numbers of pages and requests there are.                    *)
(***************************************************************************)
THEOREM ListsFitTheView == Spec => []ListFits
<1>1. (\A t \in Tables : page = t => ListInv(t)) => ListFits
  BY DEF ListInv, View, ListFits, Lists!ListFits
<1> QED
  BY <1>1, ListsStaySound, PTL

-----------------------------------------------------------------------------
(***************************************************************************)
(* The administrator's servers.  The newest load of GPUs is for the open   *)
(* card or follows a change; and what it, or the card, says of the         *)
(* switches is so, unless a change already made has yet to be answered -   *)
(* its answer loads the GPUs again or closes the card.                     *)
(***************************************************************************)
Things == Servers \cup Gpus
SwitchesOf(fleet, S) == [x \in {y \in S : fleet[y] # "gone"} |-> fleet[x]]
Shown == UNION {[D -> {"on", "off"}] : D \in SUBSET Things}

FleetList ==
  {c \in [kind : {"list"}, x : Servers \cup {None}, to : {"card", "change", "servers"},
          open : {None}, dialog : {FALSE},
          reply : {None} \cup [ok : BOOLEAN, rows : Shown]] :
     c.x = None /\ c.reply # None => DOMAIN c.reply.rows \subseteq Servers}
FleetEdit ==
  [kind : {"edit"}, x : Things, to : {None}, open : Servers \cup {None},
   dialog : BOOLEAN, reply : {None} \cup [ok : BOOLEAN, rows : {None}]]
FleetMove ==
  {c \in [kind : {"create", "switch", "delete"}, x : Things, to : {"on", "off", "gone"},
          open : Servers \cup {None}, dialog : BOOLEAN,
          reply : {None} \cup [ok : BOOLEAN, rows : {None}]] :
     c.to = "gone" => c.kind = "delete"}
FleetCall == FleetList \cup FleetEdit \cup FleetMove
GpuListCalls == {c \in FleetList : c.x # None}
Moving ==
  {c \in FleetMove : c.reply # None /\ c.reply.ok /\ (c.x \in Gpus \/ c.kind = "delete")}
OfCard(s) == {c \in FleetList : c.x = s \/ c.to = "change" \/ s = None}
Current(fleet) ==
  {c \in FleetList : c.reply # None /\ c.reply.ok =>
                       c.reply.rows = SwitchesOf(fleet, Fleet!GpusOf(c.x))}
Awaits(cs, s) == s = None \/ \E i \in DOMAIN cs : cs[i] \in Moving

FleetInv ==
  /\ r1 \in [Things -> {"on", "off", "gone"}]
  /\ DOMAIN r2 \subseteq Servers
  /\ r3 \in Servers \cup {None}
  /\ r5 \in [kind : {"delete", "edit"}, x : Gpus \cup {None}] \cup {None}
  /\ r5 # None /\ r5.kind = "edit" => r5.x \in Gpus
  /\ r6 \in Seq(FleetCall)
  /\ r7 = "asked" => NewestIn(r6, GpuListCalls, OfCard(r3))
  /\ r7 = "answered" => r4.of = r3 \/ r4.after = "change" \/ r3 = None
  /\ r7 = "asked" /\ ~Awaits(r6, r3) => NewestIn(r6, GpuListCalls, Current(r1))
  /\ r7 = "answered" /\ ~Awaits(r6, r3) =>
       r4.rows = SwitchesOf(r1, Fleet!GpusOf(r4.of))

LEMMA FleetKinds ==
  ASSUME NEW c \in FleetCall
  PROVE  /\ c.kind = "list" <=> c \in FleetList
         /\ c.kind = "edit" <=> c \in FleetEdit
         /\ c.kind \in {"create", "switch", "delete"} <=> c \in FleetMove
         /\ c.kind \in Fleet!Changes <=> c \in FleetEdit \cup FleetMove
         /\ c \in GpuListCalls <=> c.kind = "list" /\ c.x # None
         /\ c \in Moving => c.kind \in {"create", "switch", "delete"}
<1>1. c \in FleetList => c.kind = "list"
  BY DEF FleetList
<1>2. c \in FleetEdit => c.kind = "edit"
  BY DEF FleetEdit
<1>3. c \in FleetMove => c.kind \in {"create", "switch", "delete"}
  BY DEF FleetMove
<1>4. c \in FleetList \/ c \in FleetEdit \/ c \in FleetMove
  BY DEF FleetCall
<1> QED
  BY <1>1, <1>2, <1>3, <1>4 DEF GpuListCalls, Moving, Fleet!Changes

LEMMA FleetNewest ==
  ASSUME r6 \in Seq(FleetCall)
  PROVE  /\ Fleet!GpuLists = Among(r6, GpuListCalls)
         /\ \A i : Fleet!Newest(i) <=> i = Max(Among(r6, GpuListCalls))
<1>1. \A i \in DOMAIN r6 :
        r6[i] \in GpuListCalls <=> r6[i].kind = "list" /\ r6[i].x # None
  BY FleetKinds
<1>2. Fleet!GpuLists = Among(r6, GpuListCalls)
  BY <1>1 DEF Fleet!GpuLists, Fleet!UnderWay, Among
<1> QED
  BY <1>2 DEF Fleet!Newest, Fleet!Max, Max

LEMMA FleetTakenOut ==
  ASSUME r6 \in Seq(FleetCall), NEW i \in DOMAIN r6, NEW W
  PROVE  /\ Fleet!RemoveAt(r6, i) \in Seq(FleetCall)
         /\ /\ NewestIn(r6, GpuListCalls, W)
            /\ i \in Fleet!GpuLists => ~Fleet!Newest(i)
            => NewestIn(Fleet!RemoveAt(r6, i), GpuListCalls, W)
         /\ r6[i] \notin Moving /\ Awaits(r6, r3) => Awaits(Fleet!RemoveAt(r6, i), r3)
<1>1. Fleet!RemoveAt(r6, i) = RemoveAt(r6, i)
  BY DEF Fleet!RemoveAt, RemoveAt
<1>2. /\ RemoveAt(r6, i) \in Seq(FleetCall) /\ Len(RemoveAt(r6, i)) = Len(r6) - 1
      /\ \A j \in 1..(Len(r6) - 1) : RemoveAt(r6, i)[j] = r6[IF j < i THEN j ELSE j + 1]
  BY Removed
<1>3. ASSUME NewestIn(r6, GpuListCalls, W), i \in Fleet!GpuLists => ~Fleet!Newest(i)
      PROVE  NewestIn(RemoveAt(r6, i), GpuListCalls, W)
  <2>1. i \in Among(r6, GpuListCalls) => i # Max(Among(r6, GpuListCalls))
    BY <1>3, FleetNewest
  <2> QED
    BY <1>3, <2>1, NewestStays
<1>4. ASSUME r6[i] \notin Moving, Awaits(r6, r3) PROVE Awaits(RemoveAt(r6, i), r3)
  <2>1. CASE r3 = None
    BY <2>1 DEF Awaits
  <2>2. CASE r3 # None
    <3>1. PICK j \in DOMAIN r6 : r6[j] \in Moving
      BY <1>4, <2>2 DEF Awaits
    <3> DEFINE t == RemoveAt(r6, i)
               k == IF j < i THEN j ELSE j - 1
    <3>2. i \in 1..Len(r6) /\ j \in 1..Len(r6) /\ j # i /\ Len(r6) \in Nat
      BY <1>4, <3>1
    <3>3. /\ t \in Seq(FleetCall) /\ Len(t) = Len(r6) - 1
          /\ \A n \in 1..(Len(r6) - 1) : t[n] = r6[IF n < i THEN n ELSE n + 1]
      BY <1>2
    <3>4. k \in 1..(Len(r6) - 1) /\ (IF k < i THEN k ELSE k + 1) = j
      BY <3>2
    <3> HIDE DEF t, k
    <3>5. t[k] = r6[j]
      <4>1. t[k] = r6[IF k < i THEN k ELSE k + 1]
        BY <3>3, <3>4
      <4> QED
        BY <3>4, <4>1
    <3>6. k \in DOMAIN t
      <4>1. DOMAIN t = 1..Len(t)
        BY <3>3
      <4> QED
        BY <3>3, <3>4, <4>1
    <3> QED
      BY <3>1, <3>5, <3>6 DEF Awaits, t
  <2> QED
    BY <2>1, <2>2
<1> QED
  BY <1>1, <1>2, <1>3, <1>4

LEMMA AwaitsMore ==
  ASSUME NEW cs \in Seq(FleetCall), NEW c \in FleetCall, NEW s
  PROVE  Awaits(cs, s) => Awaits(Append(cs, c), s)
<1>1. CASE s = None
  BY <1>1 DEF Awaits
<1>2. CASE s # None /\ Awaits(cs, s)
  <2>1. PICK j \in DOMAIN cs : cs[j] \in Moving
    BY <1>2 DEF Awaits
  <2>2. j \in DOMAIN Append(cs, c) /\ Append(cs, c)[j] = cs[j]
    OBVIOUS
  <2> QED
    BY <2>1, <2>2 DEF Awaits
<1> QED
  BY <1>1, <1>2

LEMMA FleetAsks ==
  ASSUME NEW s \in Servers \cup {None}, NEW after \in {"card", "change", "servers"}
  PROVE  /\ Fleet!ListGpus(s, after) \in FleetList /\ Fleet!ListGpus(s, after).x = s
         /\ Fleet!ListGpus(s, after).to = after
         /\ \A fleet : Fleet!ListGpus(s, after) \in Current(fleet)
         /\ Fleet!ListGpus(s, after) \in GpuListCalls <=> s # None
<1> DEFINE c == Fleet!ListGpus(s, after)
<1>1. c = [kind |-> "list", x |-> s, to |-> after, open |-> None, dialog |-> FALSE,
           reply |-> None]
  BY DEF Fleet!ListGpus
<1>2. c \in FleetList /\ c.x = s /\ c.to = after /\ c.reply = None
  BY <1>1 DEF FleetList
<1> HIDE DEF c
<1>3. \A fleet : c \in Current(fleet)
  BY <1>2 DEF Current
<1> QED
  BY <1>2, <1>3 DEF GpuListCalls, c

(* Steps that only move requests, the dialog or the servers listed.        *)
LEMMA FleetMovesOn ==
  ASSUME FleetInv, UNCHANGED <<r1, r3, r4>>, DOMAIN r2' \subseteq Servers,
         r5' \in [kind : {"delete", "edit"}, x : Gpus \cup {None}] \cup {None},
         r5' # None /\ r5'.kind = "edit" => r5'.x \in Gpus,
         r6' \in Seq(FleetCall), Awaits(r6, r3) => Awaits(r6', r3),
         r7' = "answered" => r7 = "answered",
         r7' = "asked" => r7 = "asked",
         \A W : r7' = "asked" /\ NewestIn(r6, GpuListCalls, W) => NewestIn(r6', GpuListCalls, W)
  PROVE  FleetInv'
<1>1. r7' = "asked" => NewestIn(r6', GpuListCalls, OfCard(r3))
  BY DEF FleetInv
<1>2. r7' = "asked" /\ ~Awaits(r6', r3) => NewestIn(r6', GpuListCalls, Current(r1))
  BY DEF FleetInv
<1>3. r7' = "answered" => r4.of = r3 \/ r4.after = "change" \/ r3 = None
  BY DEF FleetInv
<1>4. r7' = "answered" /\ ~Awaits(r6', r3) => r4.rows = SwitchesOf(r1, Fleet!GpusOf(r4.of))
  BY DEF FleetInv
<1>5. /\ r1 \in [Things -> {"on", "off", "gone"}] /\ r3 \in Servers \cup {None}
      /\ Fleet!GpusOf(r4.of)' = Fleet!GpusOf(r4.of)
  BY DEF FleetInv, Fleet!GpusOf
<1> QED
  BY <1>1, <1>2, <1>3, <1>4, <1>5 DEF FleetInv

LEMMA FleetSent ==
  ASSUME FleetInv, NEW c \in FleetCall, c \notin GpuListCalls, Fleet!Send(c)
  PROVE  FleetInv'
<1>1. r6' = Append(r6, c) /\ UNCHANGED <<r1, r2, r3, r4, r5, r7>>
  BY DEF Fleet!Send
<1>2. r6 \in Seq(FleetCall)
  BY DEF FleetInv
<1>3. r6' \in Seq(FleetCall)
  BY <1>1, <1>2
<1>4. Awaits(r6, r3) => Awaits(r6', r3)
  BY <1>1, <1>2, AwaitsMore
<1>5. ASSUME NEW W, NewestIn(r6, GpuListCalls, W) PROVE NewestIn(r6', GpuListCalls, W)
  BY <1>1, <1>2, <1>5, NewestAppended
<1>6. /\ DOMAIN r2' \subseteq Servers
      /\ r5' \in [kind : {"delete", "edit"}, x : Gpus \cup {None}] \cup {None}
      /\ r5' # None /\ r5'.kind = "edit" => r5'.x \in Gpus
  BY <1>1 DEF FleetInv
<1> QED
  BY <1>1, <1>3, <1>4, <1>5, <1>6, FleetMovesOn

LEMMA FleetRequests ==
  ASSUME FleetInv, NEW x \in Things
  PROVE  /\ Fleet!Request("edit", x, None) \in FleetCall \ GpuListCalls
         /\ \A kind \in {"create", "switch", "delete"}, to \in {"on", "off"} :
              Fleet!Request(kind, x, to) \in FleetCall \ GpuListCalls
         /\ Fleet!Request("delete", x, "gone") \in FleetCall \ GpuListCalls
<1> DEFINE open == IF x \in Gpus /\ Fleet!CardOpen THEN r3 ELSE None
           b == r5 # None
<1>1. open \in Servers \cup {None} /\ b \in BOOLEAN
  BY DEF FleetInv
<1>2. \A kind, to : Fleet!Request(kind, x, to) =
        [kind |-> kind, x |-> x, to |-> to, open |-> open, dialog |-> b, reply |-> None]
  BY DEF Fleet!Request
<1> HIDE DEF open, b
<1>3. Fleet!Request("edit", x, None) \in FleetEdit
  BY <1>1, <1>2 DEF FleetEdit
<1>4. ASSUME NEW kind \in {"create", "switch", "delete"}, NEW to \in {"on", "off"}
      PROVE  Fleet!Request(kind, x, to) \in FleetMove
  BY <1>1, <1>2 DEF FleetMove
<1>5. Fleet!Request("delete", x, "gone") \in FleetMove
  BY <1>1, <1>2 DEF FleetMove
<1>6. FleetEdit \cup FleetMove \subseteq FleetCall \ GpuListCalls
  <2>1. ASSUME NEW c \in FleetEdit \cup FleetMove PROVE c \in FleetCall \ GpuListCalls
    <3>1. c \in FleetCall
      BY DEF FleetCall
    <3>2. c.kind # "list"
      BY DEF FleetEdit, FleetMove
    <3> QED
      BY <3>1, <3>2, FleetKinds
  <2> QED
    BY <2>1
<1> QED
  BY <1>3, <1>4, <1>5, <1>6

LEMMA FleetButtons ==
  ASSUME FleetInv,
         \/ \E s \in Servers : Fleet!HandleCreateServer(s)
         \/ Fleet!HandleEdit
         \/ \E g \in Gpus : Fleet!HandleAddGpu(g) \/ Fleet!HandleToggleGpuActive(g)
         \/ Fleet!HandleDeleteServer \/ Fleet!HandleDeleteGpu \/ Fleet!HandleRenameGpu
  PROVE  FleetInv'
<1>1. CASE \E s \in Servers : Fleet!HandleCreateServer(s)
  <2>1. PICK s \in Servers : Fleet!Send(Fleet!Request("create", s, "on"))
    BY <1>1 DEF Fleet!HandleCreateServer
  <2> QED
    BY <2>1, FleetRequests, FleetSent DEF Things
<1>2. CASE Fleet!HandleEdit
  <2>1. r3 \in Things /\ Fleet!Send(Fleet!Request("edit", r3, None))
    BY <1>2 DEF Fleet!HandleEdit, Fleet!CardOpen, FleetInv, Things
  <2> QED
    BY <2>1, FleetRequests, FleetSent
<1>3. CASE \E g \in Gpus : Fleet!HandleAddGpu(g)
  <2>1. PICK g \in Gpus : Fleet!Send(Fleet!Request("create", g, "on"))
    BY <1>3 DEF Fleet!HandleAddGpu
  <2> QED
    BY <2>1, FleetRequests, FleetSent DEF Things
<1>4. CASE \E g \in Gpus : Fleet!HandleToggleGpuActive(g)
  <2>1. PICK g \in Gpus : Fleet!Send(Fleet!Request("switch", g, Fleet!Flip(r4.rows[g])))
    BY <1>4 DEF Fleet!HandleToggleGpuActive
  <2>2. Fleet!Flip(r4.rows[g]) \in {"on", "off"} /\ g \in Things
    BY DEF Fleet!Flip, Things
  <2> QED
    BY <2>1, <2>2, FleetRequests, FleetSent
<1>5. CASE Fleet!HandleDeleteServer
  <2>1. r3 \in Things /\ Fleet!Send(Fleet!Request("delete", r3, "gone"))
    BY <1>5 DEF Fleet!HandleDeleteServer, Fleet!CardOpen, FleetInv, Things
  <2> QED
    BY <2>1, FleetRequests, FleetSent
<1>6. CASE Fleet!HandleDeleteGpu
  <2>1. r5.x \in Things /\ Fleet!Send(Fleet!Request("delete", r5.x, "gone"))
    BY <1>6 DEF Fleet!HandleDeleteGpu, FleetInv, Things
  <2> QED
    BY <2>1, FleetRequests, FleetSent
<1>7. CASE Fleet!HandleRenameGpu
  <2>1. r5.x \in Things /\ Fleet!Send(Fleet!Request("edit", r5.x, None))
    BY <1>7 DEF Fleet!HandleRenameGpu, FleetInv, Things
  <2> QED
    BY <2>1, FleetRequests, FleetSent
<1> QED
  BY <1>1, <1>2, <1>3, <1>4, <1>5, <1>6, <1>7

LEMMA FleetSelected ==
  ASSUME FleetInv, NEW s \in Servers, Fleet!SelectServer(s)
  PROVE  FleetInv'
<1> DEFINE c == Fleet!ListGpus(s, "card")
<1>1. /\ r3' = s /\ r6' = Append(r6, c) /\ r7' = "asked"
      /\ UNCHANGED <<r1, r2, r4, r5>>
  BY DEF Fleet!SelectServer
<1>2. c \in FleetCall /\ c \in OfCard(s) /\ c \in Current(r1) /\ c \in GpuListCalls
  BY FleetAsks, FleetAssumption DEF FleetCall, OfCard
<1> HIDE DEF c
<1>3. r6 \in Seq(FleetCall)
  BY DEF FleetInv
<1>4. r6' \in Seq(FleetCall)
  BY <1>1, <1>2, <1>3
<1>5. NewestIn(r6', GpuListCalls, OfCard(s)) /\ NewestIn(r6', GpuListCalls, Current(r1))
  BY <1>1, <1>2, <1>3, NewestAppended
<1> QED
  BY <1>1, <1>4, <1>5 DEF FleetInv
LEMMA SwitchesShown ==
  ASSUME r1 \in [Things -> {"on", "off", "gone"}], NEW S \in SUBSET Things
  PROVE  /\ Fleet!Switches(S) = SwitchesOf(r1, S)
         /\ Fleet!Switches(S) \in Shown
         /\ DOMAIN Fleet!Switches(S) \subseteq S
<1> DEFINE D == {y \in S : r1[y] # "gone"}
<1>1. Fleet!Switches(S) = [x \in D |-> r1[x]]
  BY DEF Fleet!Switches, Fleet!Present
<1>2. D \subseteq S /\ \A x \in D : r1[x] \in {"on", "off"}
  OBVIOUS
<1>3. SwitchesOf(r1, S) = [x \in D |-> r1[x]]
  BY DEF SwitchesOf
<1> HIDE DEF D
<1>4. [x \in D |-> r1[x]] \in [D -> {"on", "off"}] /\ DOMAIN [x \in D |-> r1[x]] = D
  BY <1>2
<1>5. D \in SUBSET Things
  BY <1>2
<1>6. [x \in D |-> r1[x]] \in Shown
  BY <1>4, <1>5 DEF Shown
<1> QED
  BY <1>1, <1>2, <1>3, <1>4, <1>6

(* A request is answered, and only a change that will load the GPUs again  *)
(* or close the card has touched a GPU.                                    *)
LEMMA FleetAnswered ==
  ASSUME FleetInv, NEW i \in DOMAIN r6, r6[i].reply = None, NEW d \in FleetCall,
         r6' = [r6 EXCEPT ![i] = d], UNCHANGED <<r2, r3, r4, r5, r7>>,
         d.kind = r6[i].kind, d.x = r6[i].x, d.to = r6[i].to,
         r1' \in [Things -> {"on", "off", "gone"}],
         d \in Moving \/ \A g \in Gpus : r1'[g] = r1[g],
         d \in GpuListCalls => d.reply.rows = SwitchesOf(r1, Fleet!GpusOf(d.x))
  PROVE  FleetInv'
<1>1. r6 \in Seq(FleetCall) /\ r6[i] \in FleetCall
  BY DEF FleetInv
<1>2. r6' \in Seq(FleetCall)
  BY <1>1
<1>3. (d \in GpuListCalls <=> r6[i] \in GpuListCalls) /\ (d \in FleetList <=> r6[i] \in FleetList)
  BY <1>1, FleetKinds
<1>4. r7' = "asked" => NewestIn(r6', GpuListCalls, OfCard(r3'))
  <2>1. r6[i] \in OfCard(r3) => d \in OfCard(r3)
    BY <1>3 DEF OfCard
  <2>2. r7 = "asked" => NewestIn(r6, GpuListCalls, OfCard(r3))
    BY DEF FleetInv
  <2>3. r7 = "asked" => NewestIn([r6 EXCEPT ![i] = d], GpuListCalls, OfCard(r3))
    BY <1>1, <1>3, <2>1, <2>2, NewestAnswered
  <2> QED
    BY <2>3
<1>5. Awaits(r6, r3) => Awaits(r6', r3)
  <2>1. r6[i] \notin Moving
    BY DEF Moving
  <2>2. \A j \in DOMAIN r6 : r6[j] \in Moving => j # i /\ j \in DOMAIN r6' /\ r6'[j] = r6[j]
    BY <2>1
  <2> QED
    BY <2>2 DEF Awaits
<1>6. ~Awaits(r6', r3) => \A g \in Gpus : r1'[g] = r1[g]
  <2>1. i \in DOMAIN r6' /\ r6'[i] = d
    BY <1>1
  <2> QED
    BY <2>1 DEF Awaits
<1>7. ASSUME ~Awaits(r6', r3), NEW s
      PROVE  SwitchesOf(r1', Fleet!GpusOf(s)) = SwitchesOf(r1, Fleet!GpusOf(s))
  <2>1. Fleet!GpusOf(s) \subseteq Gpus
    BY DEF Fleet!GpusOf
  <2>2. \A g \in Fleet!GpusOf(s) : r1'[g] = r1[g]
    BY <1>6, <1>7, <2>1
  <2> QED
    BY <2>2 DEF SwitchesOf
<1>8. r7' = "asked" /\ ~Awaits(r6', r3) => NewestIn(r6', GpuListCalls, Current(r1'))
  <2> SUFFICES ASSUME r7' = "asked", ~Awaits(r6', r3)
               PROVE  NewestIn(r6', GpuListCalls, Current(r1'))
    OBVIOUS
  <2>1. NewestIn(r6, GpuListCalls, Current(r1))
    BY <1>5 DEF FleetInv
  <2>2. d \in GpuListCalls => d \in Current(r1)
    BY DEF Current, GpuListCalls
  <2>3. NewestIn([r6 EXCEPT ![i] = d], GpuListCalls, Current(r1))
    BY <1>1, <1>3, <2>1, <2>2, NewestAnswered
  <2>4. Current(r1') = Current(r1)
    BY <1>7 DEF Current
  <2> QED
    BY <2>3, <2>4
<1>9. r7' = "answered" /\ ~Awaits(r6', r3) =>
        r4.rows = SwitchesOf(r1', Fleet!GpusOf(r4.of))
  BY <1>5, <1>7 DEF FleetInv
<1>10. Fleet!GpusOf(r4.of)' = Fleet!GpusOf(r4.of)
  BY DEF Fleet!GpusOf
<1> QED
  BY <1>2, <1>4, <1>8, <1>9, <1>10 DEF FleetInv

LEMMA FleetServed ==
  ASSUME FleetInv, NEW i \in DOMAIN r6, Fleet!Serve(i)
  PROVE  FleetInv'
<1> DEFINE c == r6[i]
<1>1. c \in FleetCall /\ r1 \in [Things -> {"on", "off", "gone"}]
  BY DEF FleetInv
<1>2. c.reply = None /\ UNCHANGED <<r2, r3, r4, r5, r7>>
  BY DEF Fleet!Serve
<1>3. CASE c.kind = "list"
  <2> DEFINE rows == Fleet!Listed(c.x)
             ok == c.x = None \/ r1[c.x] # "gone"
             d == [c EXCEPT !.reply = [ok |-> ok, rows |-> rows]]
  <2>1. r6' = [r6 EXCEPT ![i] = d] /\ r1' = r1
    BY <1>3 DEF Fleet!Serve
  <2>2. Servers \subseteq Things /\ Fleet!GpusOf(c.x) \subseteq Things
    BY DEF Things, Fleet!GpusOf
  <2>3. /\ rows \in Shown /\ (c.x = None => DOMAIN rows \subseteq Servers)
        /\ c.x # None => rows = SwitchesOf(r1, Fleet!GpusOf(c.x))
    <3>1. CASE c.x = None
      BY <1>1, <2>2, <3>1, SwitchesShown DEF Fleet!Listed
    <3>2. CASE c.x # None
      BY <1>1, <2>2, <3>2, SwitchesShown DEF Fleet!Listed
    <3> QED
      BY <3>1, <3>2
  <2>4. ok \in BOOLEAN /\ c \in FleetList
    BY <1>1, <1>3, FleetKinds
  <2> HIDE DEF rows, ok
  <2>5. /\ d \in FleetList /\ d.kind = c.kind /\ d.x = c.x /\ d.to = c.to
        /\ d.reply = [ok |-> ok, rows |-> rows]
    BY <2>3, <2>4 DEF FleetList
  <2>6. d \in FleetCall
    BY <2>5 DEF FleetCall
  <2> HIDE DEF d
  <2>7. d \in GpuListCalls => d.reply.rows = SwitchesOf(r1, Fleet!GpusOf(d.x))
    <3>1. d.reply.rows = rows
      BY <2>5
    <3>2. d \in GpuListCalls => c.x # None
      BY <2>5 DEF GpuListCalls
    <3> QED
      BY <2>3, <2>5, <3>1, <3>2
  <2> QED
    BY <1>1, <1>2, <2>1, <2>5, <2>6, <2>7, FleetAnswered
<1>4. CASE c.kind = "edit"
  <2>1. PICK ok \in BOOLEAN :
          r6' = [r6 EXCEPT ![i].reply = [ok |-> ok, rows |-> None]] /\ r1' = r1
    <3>1. Fleet!Accepted(c) \in BOOLEAN
      BY <1>4 DEF Fleet!Accepted
    <3> QED
      BY <1>4, <3>1 DEF Fleet!Serve
  <2> DEFINE d == [c EXCEPT !.reply = [ok |-> ok, rows |-> None]]
  <2>2. c \in FleetEdit
    BY <1>1, <1>4, FleetKinds
  <2>3. d \in FleetEdit /\ d.kind = c.kind /\ d.x = c.x /\ d.to = c.to
    BY <2>2 DEF FleetEdit
  <2>4. r6' = [r6 EXCEPT ![i] = d]
    BY <2>1
  <2> HIDE DEF d
  <2>5. d \in FleetCall /\ d \notin GpuListCalls
    BY <1>4, <2>3 DEF FleetCall, GpuListCalls, FleetList
  <2> QED
    BY <1>1, <1>2, <2>1, <2>3, <2>4, <2>5, FleetAnswered
<1>5. CASE c.kind \in {"create", "switch", "delete"}
  <2> DEFINE ok == Fleet!Accepted(c)
             d == [c EXCEPT !.reply = [ok |-> ok, rows |-> None]]
  <2>1. c \in FleetMove /\ c.x \in Things /\ c.to \in {"on", "off", "gone"}
    BY <1>1, <1>5, FleetKinds DEF FleetMove
  <2>2. ok \in BOOLEAN
    <3>1. CASE c.kind = "create"
      BY <3>1 DEF Fleet!Accepted
    <3>2. CASE c.kind # "create"
      BY <3>2 DEF Fleet!Accepted
    <3> QED
      BY <3>1, <3>2
  <2>3. r6' = [r6 EXCEPT ![i] = d] /\ r1' = IF ok THEN Fleet!Moved(c.x, c.to) ELSE r1
    BY <1>5 DEF Fleet!Serve
  <2> HIDE DEF ok
  <2>4. d \in FleetMove /\ d.kind = c.kind /\ d.x = c.x /\ d.to = c.to
    BY <2>1, <2>2 DEF FleetMove
  <2>5. d.reply # None /\ d.reply.ok = ok
    <3>1. d.reply = [ok |-> ok, rows |-> None]
      BY <2>1 DEF FleetMove
    <3> QED
      BY <2>2, <3>1, NoneAssumption
  <2> HIDE DEF d
  <2>6. d \in FleetCall /\ d \notin GpuListCalls
    BY <1>5, <2>4 DEF FleetCall, GpuListCalls, FleetList
  <2>7. r1' \in [Things -> {"on", "off", "gone"}]
    <3>1. Fleet!Moved(c.x, c.to) \in [Things -> {"on", "off", "gone"}]
      BY <1>1, <2>1 DEF Fleet!Moved, Fleet!Things, Things
    <3> QED
      BY <1>1, <2>3, <3>1
  <2>8. d \in Moving \/ \A g \in Gpus : r1'[g] = r1[g]
    <3>1. CASE ~ok
      BY <2>3, <3>1
    <3>2. CASE ok /\ (c.x \in Gpus \/ c.kind = "delete")
      BY <2>4, <2>5, <3>2 DEF Moving
    <3>3. CASE ok /\ c.x \notin Gpus /\ c.kind # "delete"
      <4>1. c.to # "gone"
        BY <2>1, <3>3 DEF FleetMove
      <4>2. ASSUME NEW g \in Gpus PROVE r1'[g] = r1[g]
        BY <2>3, <3>3, <4>1 DEF Fleet!Moved, Fleet!Things
      <4> QED
        BY <4>2
    <3> QED
      BY <2>2, <3>1, <3>2, <3>3
  <2> QED
    BY <1>1, <1>2, <2>3, <2>4, <2>6, <2>7, <2>8, FleetAnswered
<1> QED
  BY <1>1, <1>3, <1>4, <1>5 DEF FleetCall, FleetList, FleetEdit, FleetMove

LEMMA FleetServersShown ==
  ASSUME FleetInv, NEW i \in DOMAIN r6, r6[i].reply # None,
         i \in Fleet!UnderWay({"list"}) \ Fleet!GpuLists, Fleet!ShowServers(i)
  PROVE  FleetInv'
<1> DEFINE c == r6[i]
<1>1. r6 \in Seq(FleetCall) /\ c \in FleetCall
  BY DEF FleetInv
<1>2. /\ r2' = c.reply.rows /\ r6' = Fleet!RemoveAt(r6, i)
      /\ UNCHANGED <<r1, r3, r4, r5, r7>>
  BY DEF Fleet!ShowServers
<1>3. c.kind = "list" /\ c.x = None
  BY DEF Fleet!UnderWay, Fleet!GpuLists
<1>4. c \in FleetList /\ c \notin Moving
  BY <1>1, <1>3, FleetKinds
<1>5. DOMAIN r2' \subseteq Servers
  BY <1>2, <1>3, <1>4 DEF FleetList
<1>6. /\ r5' \in [kind : {"delete", "edit"}, x : Gpus \cup {None}] \cup {None}
      /\ r5' # None /\ r5'.kind = "edit" => r5'.x \in Gpus
  BY <1>2 DEF FleetInv
<1>7. r6' \in Seq(FleetCall) /\ (Awaits(r6, r3) => Awaits(r6', r3))
  BY <1>1, <1>2, <1>4, FleetTakenOut
<1>8. ASSUME NEW W, NewestIn(r6, GpuListCalls, W) PROVE NewestIn(r6', GpuListCalls, W)
  BY <1>1, <1>2, <1>8, FleetTakenOut
<1> HIDE DEF c
<1> QED
  BY <1>2, <1>5, <1>6, <1>7, <1>8, FleetMovesOn

LEMMA FleetGpusShown ==
  ASSUME FleetInv, NEW i \in DOMAIN r6, r6[i].reply # None, i \in Fleet!GpuLists,
         Fleet!ShowGpus(i)
  PROVE  FleetInv'
<1> DEFINE c == r6[i]
<1>1. r6 \in Seq(FleetCall) /\ c \in FleetCall
  BY DEF FleetInv
<1>2. /\ c.reply.ok /\ r6' = Fleet!RemoveAt(r6, i) /\ UNCHANGED <<r1, r2, r3, r5>>
      /\ r4' = [of |-> c.x, rows |-> c.reply.rows, after |-> c.to]
  BY DEF Fleet!ShowGpus
<1>3. /\ r7' = "asked" => r7 = "asked" /\ ~Fleet!Newest(i)
      /\ r7' = "answered" => r7 = "asked" /\ Fleet!Newest(i)
  <2>1. CASE r7 = "asked" /\ Fleet!Newest(i)
    <3>1. r7' = "answered"
      BY <2>1 DEF Fleet!ShowGpus
    <3> QED
      BY <2>1, <3>1
  <2>2. CASE r7 = "answered"
    <3>1. r7' = "unsure"
      BY <2>2 DEF Fleet!ShowGpus
    <3> QED
      BY <3>1
  <2>3. CASE ~(r7 = "asked" /\ Fleet!Newest(i)) /\ r7 # "answered"
    <3>1. r7' = r7
      BY <2>3 DEF Fleet!ShowGpus
    <3> QED
      BY <2>3, <3>1
  <2> QED
    BY <2>1, <2>2, <2>3
<1>4. c.kind = "list"
  BY DEF Fleet!GpuLists, Fleet!UnderWay
<1>5. c \in FleetList /\ c \notin Moving
  BY <1>1, <1>4, FleetKinds
<1>6. r6' \in Seq(FleetCall) /\ (Awaits(r6, r3) => Awaits(r6', r3))
  BY <1>1, <1>2, <1>5, FleetTakenOut
<1>7. r7' = "asked" => NewestIn(r6', GpuListCalls, OfCard(r3))
  <2>1. r7 = "asked" => NewestIn(r6, GpuListCalls, OfCard(r3))
    BY DEF FleetInv
  <2> QED
    BY <1>1, <1>2, <1>3, <2>1, FleetTakenOut
<1>8. r7' = "asked" /\ ~Awaits(r6', r3) => NewestIn(r6', GpuListCalls, Current(r1))
  <2>1. r7 = "asked" /\ ~Awaits(r6, r3) => NewestIn(r6, GpuListCalls, Current(r1))
    BY DEF FleetInv
  <2> QED
    BY <1>1, <1>2, <1>3, <1>6, <2>1, FleetTakenOut
<1>9. ASSUME r7' = "answered"
      PROVE  /\ \A W : NewestIn(r6, GpuListCalls, W) => c \in W
             /\ c \in OfCard(r3)
  <2>1. i \in Among(r6, GpuListCalls) /\ i = Max(Among(r6, GpuListCalls))
    BY <1>1, <1>3, <1>9, FleetNewest
  <2>2. \A W : NewestIn(r6, GpuListCalls, W) => c \in W
    BY <2>1 DEF NewestIn
  <2> QED
    BY <1>3, <1>9, <2>2 DEF FleetInv
<1>10. r4'.of = c.x /\ r4'.rows = c.reply.rows /\ r4'.after = c.to
  BY <1>2
<1> HIDE DEF c
<1>11. r7' = "answered" => r4'.of = r3 \/ r4'.after = "change" \/ r3 = None
  BY <1>9, <1>10 DEF OfCard
<1>12. r7' = "answered" /\ ~Awaits(r6', r3) => r4'.rows = SwitchesOf(r1, Fleet!GpusOf(c.x))
  <2> SUFFICES ASSUME r7' = "answered", ~Awaits(r6', r3)
               PROVE  r4'.rows = SwitchesOf(r1, Fleet!GpusOf(c.x))
    OBVIOUS
  <2>1. NewestIn(r6, GpuListCalls, Current(r1))
    BY <1>3, <1>6 DEF FleetInv
  <2>2. c \in Current(r1)
    BY <1>9, <2>1
  <2> QED
    BY <1>2, <1>10, <2>2 DEF Current, c
<1>13. Fleet!GpusOf(r4.of)' = Fleet!GpusOf(c.x)
  BY <1>10 DEF Fleet!GpusOf
<1> QED
  BY <1>2, <1>6, <1>7, <1>8, <1>11, <1>12, <1>13 DEF FleetInv

(* The change of a server loads the servers again; deleting one closes the *)
(* card.                                                                   *)
LEMMA FleetServerChanged ==
  ASSUME FleetInv, NEW i \in DOMAIN r6, r6[i].x \in Servers,
         i \in Fleet!UnderWay(Fleet!Changes), Fleet!Changed(i)
  PROVE  FleetInv'
<1> DEFINE c == r6[i]
           rest == Fleet!RemoveAt(r6, i)
           b == Fleet!ListServers
<1>1. r6 \in Seq(FleetCall) /\ c \in FleetCall /\ c.x \in Servers
  BY DEF FleetInv
<1>2. b \in FleetCall /\ b \notin GpuListCalls
  BY FleetAsks DEF Fleet!ListServers, FleetCall
<1>3. rest \in Seq(FleetCall) /\ i \notin Fleet!GpuLists
  <2>1. rest \in Seq(FleetCall)
    BY <1>1, FleetTakenOut
  <2> QED
    BY <2>1 DEF Fleet!GpuLists, Fleet!UnderWay, Fleet!Changes
<1>4. /\ r6' = rest \o <<b>> /\ r7' = r7 /\ UNCHANGED <<r1, r2, r4>>
      /\ r5' = IF Fleet!Closes(c) THEN None ELSE r5
      /\ r3' = IF c.kind = "delete" THEN None ELSE r3
  BY DEF Fleet!Changed, Fleet!Reload
<1>5. r6' = Append(rest, b)
  BY <1>2, <1>3, <1>4, AppendIsConcat
<1>6. ASSUME NEW W, NewestIn(r6, GpuListCalls, W) PROVE NewestIn(r6', GpuListCalls, W)
  <2>1. NewestIn(rest, GpuListCalls, W)
    BY <1>1, <1>3, <1>6, FleetTakenOut
  <2> HIDE DEF rest, b
  <2> QED
    BY <1>2, <1>3, <1>5, <2>1, NewestAppended
<1>7. c.kind # "delete" => c \notin Moving
  BY <1>1, FleetAssumption DEF Moving
<1>8. c.kind # "delete" /\ Awaits(r6, r3) => Awaits(r6', r3)
  <2>1. c.kind # "delete" /\ Awaits(r6, r3) => Awaits(rest, r3)
    BY <1>1, <1>7, FleetTakenOut
  <2> HIDE DEF rest, b
  <2> QED
    BY <1>2, <1>3, <1>5, <2>1, AwaitsMore
<1>9. /\ r5' \in [kind : {"delete", "edit"}, x : Gpus \cup {None}] \cup {None}
      /\ r5' # None /\ r5'.kind = "edit" => r5'.x \in Gpus
  BY <1>4 DEF FleetInv
<1> HIDE DEF c, rest, b
<1>10. r6' \in Seq(FleetCall)
  BY <1>2, <1>3, <1>5
<1>11. DOMAIN r2' \subseteq Servers
  BY <1>4 DEF FleetInv
<1>12. CASE c.kind # "delete"
  BY <1>4, <1>6, <1>8, <1>9, <1>10, <1>11, <1>12, FleetMovesOn
<1>13. CASE c.kind = "delete"
  <2>1. r3' = None /\ Awaits(r6', r3') /\ OfCard(r3) \subseteq OfCard(None)
    BY <1>4, <1>13 DEF Awaits, OfCard
  <2>2. r7 = "asked" => NewestIn(r6', GpuListCalls, OfCard(r3))
    BY <1>6 DEF FleetInv
  <2>3. r7' = "asked" => NewestIn(r6', GpuListCalls, OfCard(None))
    BY <1>4, <2>1, <2>2 DEF NewestIn
  <2> QED
    BY <1>4, <1>9, <1>10, <2>1, <2>3 DEF FleetInv
<1> QED
  BY <1>12, <1>13

(* The change of a GPU loads those of the card that was open.              *)
LEMMA FleetGpuChanged ==
  ASSUME FleetInv, NEW i \in DOMAIN r6, r6[i].x \notin Servers,
         i \in Fleet!UnderWay(Fleet!Changes), Fleet!Changed(i)
  PROVE  FleetInv'
<1> DEFINE c == r6[i]
           rest == Fleet!RemoveAt(r6, i)
           b == Fleet!ListGpus(c.open, "change")
<1>1. r6 \in Seq(FleetCall) /\ c \in FleetCall
  BY DEF FleetInv
<1>2. c.open \in Servers \cup {None}
  BY <1>1, FleetKinds DEF Fleet!UnderWay, FleetEdit, FleetMove
<1>3. b \in FleetCall /\ b \in Current(r1) /\ b \in OfCard(r3)
  BY <1>2, FleetAsks DEF FleetCall, OfCard
<1>4. rest \in Seq(FleetCall)
  BY <1>1, FleetTakenOut
<1>5. /\ r6' = rest \o Fleet!Reload(c) /\ UNCHANGED <<r1, r2, r3, r4>>
      /\ r5' = IF Fleet!Closes(c) THEN None ELSE r5
      /\ r7' = IF Fleet!Reload(c) = <<>> THEN "unsure" ELSE "asked"
      /\ Fleet!Reload(c) = IF c.open = None THEN <<>> ELSE <<b>>
  BY DEF Fleet!Changed, Fleet!Reload
<1>6. /\ r5' \in [kind : {"delete", "edit"}, x : Gpus \cup {None}] \cup {None}
      /\ r5' # None /\ r5'.kind = "edit" => r5'.x \in Gpus
  BY <1>5 DEF FleetInv
<1> HIDE DEF c, rest, b
<1>7. CASE c.open = None
  <2>1. r6' = rest /\ r7' = "unsure"
    BY <1>4, <1>5, <1>7, ConcatEmptySeq
  <2> QED
    BY <1>4, <1>5, <1>6, <2>1 DEF FleetInv
<1>8. CASE c.open # None
  <2>1. <<b>> # <<>>
    OBVIOUS
  <2>2. r6' = rest \o <<b>> /\ r7' = "asked"
    BY <1>5, <1>8, <2>1
  <2>3. r6' = Append(rest, b)
    BY <1>3, <1>4, <2>2, AppendIsConcat
  <2>4. r6' \in Seq(FleetCall)
    BY <1>3, <1>4, <2>3
  <2>5. b \in GpuListCalls
    BY <1>2, <1>8, FleetAsks DEF b
  <2>6. NewestIn(r6', GpuListCalls, OfCard(r3)) /\ NewestIn(r6', GpuListCalls, Current(r1))
    BY <1>3, <1>4, <2>3, <2>5, NewestAppended
  <2> QED
    BY <1>5, <1>6, <2>2, <2>4, <2>6 DEF FleetInv
<1> QED
  BY <1>7, <1>8

(* An answer that only takes its request away.                             *)
LEMMA FleetDropped ==
  ASSUME FleetInv, NEW i \in DOMAIN r6, r6' = Fleet!RemoveAt(r6, i),
         UNCHANGED <<r1, r2, r3, r4, r5>>,
         r7' = "unsure" \/ (r7' = r7 /\ ~Fleet!Lost(i) /\ r6[i] \notin Moving)
  PROVE  FleetInv'
<1>1. r6 \in Seq(FleetCall)
  BY DEF FleetInv
<1>2. r6' \in Seq(FleetCall)
  BY <1>1, FleetTakenOut
<1>3. CASE r7' = "unsure"
  BY <1>2, <1>3 DEF FleetInv
<1>4. CASE r7' = r7 /\ ~Fleet!Lost(i) /\ r6[i] \notin Moving
  <2>1. Awaits(r6, r3) => Awaits(r6', r3)
    BY <1>1, <1>4, FleetTakenOut
  <2>2. ASSUME NEW W, r7' = "asked", NewestIn(r6, GpuListCalls, W)
        PROVE  NewestIn(r6', GpuListCalls, W)
    <3>1. i \in Fleet!GpuLists => ~Fleet!Newest(i)
      BY <1>4, <2>2 DEF Fleet!Lost
    <3> QED
      BY <1>1, <2>2, <3>1, FleetTakenOut
  <2>3. /\ DOMAIN r2' \subseteq Servers
        /\ r5' \in [kind : {"delete", "edit"}, x : Gpus \cup {None}] \cup {None}
        /\ r5' # None /\ r5'.kind = "edit" => r5'.x \in Gpus
    BY DEF FleetInv
  <2> QED
    BY <1>2, <1>4, <2>1, <2>2, <2>3, FleetMovesOn
<1> QED
  BY <1>3, <1>4

LEMMA FleetArrived ==
  ASSUME FleetInv, NEW i \in DOMAIN r6, Fleet!Arrive(i)
  PROVE  FleetInv'
<1>1. r6[i].reply # None /\ r6[i] \in FleetCall
  BY DEF Fleet!Arrive, FleetInv
<1>2. CASE i \in Fleet!UnderWay({"list"}) \ Fleet!GpuLists /\ Fleet!ShowServers(i)
  BY <1>1, <1>2, FleetServersShown
<1>3. CASE i \in Fleet!GpuLists /\ Fleet!ShowGpus(i)
  BY <1>1, <1>3, FleetGpusShown
<1>4. CASE i \in Fleet!UnderWay(Fleet!Changes) /\ Fleet!Changed(i)
  BY <1>4, FleetServerChanged, FleetGpuChanged
<1>5. CASE Fleet!Refused(i)
  <2>1. /\ ~r6[i].reply.ok /\ r6' = Fleet!RemoveAt(r6, i)
        /\ UNCHANGED <<r1, r2, r3, r4, r5>>
        /\ r7' = IF Fleet!Lost(i) THEN "unsure" ELSE r7
    BY <1>5 DEF Fleet!Refused
  <2>2. r6[i] \notin Moving
    BY <2>1 DEF Moving
  <2>3. r7' = "unsure" \/ (r7' = r7 /\ ~Fleet!Lost(i) /\ r6[i] \notin Moving)
    BY <2>1, <2>2
  <2> QED
    BY <2>1, <2>3, FleetDropped
<1> QED
  BY <1>2, <1>3, <1>4, <1>5 DEF Fleet!Arrive

LEMMA FleetLost ==
  ASSUME FleetInv, NEW i \in DOMAIN r6, Fleet!Lose(i)
  PROVE  FleetInv'
<1>1. r6[i] \in FleetCall
  BY DEF FleetInv
<1>2. /\ r6' = Fleet!RemoveAt(r6, i) /\ UNCHANGED <<r1, r2, r3, r4, r5>>
      /\ r7' = IF Fleet!Lost(i) \/ (r6[i].kind \in Fleet!Changes /\ r6[i].reply # None)
               THEN "unsure" ELSE r7
  BY DEF Fleet!Lose
<1>3. r6[i] \in Moving => r6[i].kind \in Fleet!Changes /\ r6[i].reply # None
  <2>1. r6[i] \in Moving => r6[i].reply # None
    BY DEF Moving
  <2> QED
    BY <1>1, <2>1, FleetKinds DEF Fleet!Changes
<1>4. r7' = "unsure" \/ (r7' = r7 /\ ~Fleet!Lost(i) /\ r6[i] \notin Moving)
  BY <1>2, <1>3
<1> QED
  BY <1>2, <1>4, FleetDropped

(* A dialog is opened or dismissed.                                        *)
LEMMA FleetDialogs ==
  ASSUME FleetInv, UNCHANGED <<r1, r2, r3, r4, r6, r7>>,
         r5' \in [kind : {"delete", "edit"}, x : Gpus \cup {None}] \cup {None},
         r5' # None /\ r5'.kind = "edit" => r5'.x \in Gpus
  PROVE  FleetInv'
<1>1. r6' \in Seq(FleetCall) /\ DOMAIN r2' \subseteq Servers
  BY DEF FleetInv
<1> QED
  BY <1>1, FleetMovesOn

LEMMA FleetKeeps == ASSUME FleetInv, Fleet!Next PROVE FleetInv'
<1>1. CASE \E s \in Servers : Fleet!SelectServer(s)
  BY <1>1, FleetSelected
<1>2. CASE \/ \E s \in Servers : Fleet!HandleCreateServer(s)
           \/ Fleet!HandleEdit
           \/ \E g \in Gpus : Fleet!HandleAddGpu(g) \/ Fleet!HandleToggleGpuActive(g)
           \/ Fleet!HandleDeleteServer \/ Fleet!HandleDeleteGpu \/ Fleet!HandleRenameGpu
  BY <1>2, FleetButtons
<1>3. ASSUME NEW kind \in {"delete", "edit"}, NEW x \in Gpus \cup {None},
             kind = "edit" => x \in Gpus, Fleet!OpenDialog(kind, x)
      PROVE  FleetInv'
  <2> DEFINE d == [kind |-> kind, x |-> x]
  <2>1. r5' = d /\ UNCHANGED <<r1, r2, r3, r4, r6, r7>>
    BY <1>3 DEF Fleet!OpenDialog
  <2>2. d \in [kind : {"delete", "edit"}, x : Gpus \cup {None}] /\ d.kind = kind /\ d.x = x
    OBVIOUS
  <2> HIDE DEF d
  <2> QED
    BY <1>3, <2>1, <2>2, FleetDialogs
<1>4. CASE Fleet!OpenDialog("delete", None)
  BY <1>3, <1>4
<1>5. CASE \E g \in Gpus : Fleet!OpenDialog("delete", g) \/ Fleet!OpenDialog("edit", g)
  BY <1>3, <1>5
<1>6. CASE Fleet!Dismiss
  <2>1. r5' = None /\ UNCHANGED <<r1, r2, r3, r4, r6, r7>>
    BY <1>6 DEF Fleet!Dismiss
  <2> QED
    BY <2>1, FleetDialogs
<1>7. CASE \E i \in DOMAIN r6 : Fleet!Serve(i) \/ Fleet!Arrive(i) \/ Fleet!Lose(i)
  BY <1>7, FleetServed, FleetArrived, FleetLost
<1>8. CASE \E x \in Fleet!Things : Fleet!Elsewhere(x)
  <2>1. PICK x \in Fleet!Things : Fleet!Elsewhere(x)
    BY <1>8
  <2>2. /\ r1' = Fleet!Moved(x, "gone") /\ r7' = "unsure"
        /\ UNCHANGED <<r2, r3, r4, r5, r6>>
    BY <2>1 DEF Fleet!Elsewhere
  <2>3. r1 \in [Things -> {"on", "off", "gone"}]
    BY DEF FleetInv
  <2>4. r1' \in [Things -> {"on", "off", "gone"}]
    BY <2>2, <2>3 DEF Fleet!Moved, Fleet!Things, Things
  <2> QED
    BY <2>2, <2>4 DEF FleetInv
<1> QED
  BY <1>1, <1>2, <1>4, <1>5, <1>6, <1>7, <1>8 DEF Fleet!Next

(* And the servers' page, with any number of changes under way.            *)
THEOREM FleetStaysSound == Spec => [](page = "fleet" => FleetInv)
<1>1. ASSUME Fleet!Init PROVE FleetInv
  <2> DEFINE b == Fleet!ListServers
  <2>1. /\ r1 = [x \in Things |-> "on"] /\ r2 = <<>> /\ r3 = None /\ r5 = None
        /\ r6 = <<b>> /\ r7 = "unsure"
    BY <1>1 DEF Fleet!Init, Fleet!Things, Things
  <2>2. b \in FleetCall
    BY FleetAsks DEF Fleet!ListServers, FleetCall
  <2> HIDE DEF b
  <2>3. r6 \in Seq(FleetCall) /\ DOMAIN r2 = {}
    BY <2>1, <2>2
  <2>4. r1 \in [Things -> {"on", "off", "gone"}]
    BY <2>1
  <2> QED
    BY <2>1, <2>3, <2>4 DEF FleetInv
<1>2. Init => (page = "fleet" => FleetInv)
  BY <1>1, StartOfPage
<1>3. (page = "fleet" => FleetInv) /\ [Next]_pageVars => (page = "fleet" => FleetInv)'
  <2> SUFFICES ASSUME page = "fleet" => FleetInv, [Next]_pageVars, page' = "fleet"
               PROVE  FleetInv'
    OBVIOUS
  <2>1. CASE Next
    <3>1. page = "fleet" /\ Fleet!Next
      BY <2>1, StepOfPage
    <3> QED
      BY <3>1, FleetKeeps
  <2>2. CASE UNCHANGED pageVars
    BY <2>2 DEF pageVars, registers, FleetInv, Fleet!GpusOf
  <2> QED
    BY <2>1, <2>2
<1> QED
  BY <1>2, <1>3, PTL DEF Spec

(***************************************************************************)
(* The GPUs in an open card are those of its server, unless they were      *)
(* loaded after a change of a card left meanwhile, once the newest load is *)
(* the last to have been answered: however many cards are opened and       *)
(* answers overtake each other.                                            *)
(***************************************************************************)
THEOREM GpusStayWithTheCard == Spec => []GpusFit
<1>1. (page = "fleet" => FleetInv) => GpusFit
  BY FleetAssumption DEF FleetInv, GpusFit, Fleet!GpusFit, Fleet!CardOpen
<1> QED
  BY <1>1, FleetStaysSound, PTL

(***************************************************************************)
(* Then no change of this page's own leaves the card showing the GPUs as   *)
(* they were before it, however many changes are made, lost or refused.    *)
(***************************************************************************)
THEOREM OwnChangesStayShown == Spec => []OwnChangesShown
<1>1. ASSUME FleetInv, r7 = "answered", Fleet!CardOpen, Fleet!UnderWay(Fleet!Changes) = {}
      PROVE  r4.rows = Fleet!Switches(Fleet!GpusOf(r4.of))
  <2>1. r3 # None
    BY <1>1, FleetAssumption DEF FleetInv, Fleet!CardOpen
  <2>2. \A i \in DOMAIN r6 : r6[i] \notin Moving
    <3>1. ASSUME NEW i \in DOMAIN r6, r6[i] \in Moving PROVE FALSE
      <4>1. r6[i] \in FleetCall
        BY <1>1 DEF FleetInv
      <4>2. r6[i].kind \in Fleet!Changes
        BY <3>1, <4>1, FleetKinds DEF Fleet!Changes
      <4> QED
        BY <1>1, <4>2 DEF Fleet!UnderWay
    <3> QED
      BY <3>1
  <2>3. r4.rows = SwitchesOf(r1, Fleet!GpusOf(r4.of))
    BY <1>1, <2>1, <2>2 DEF FleetInv, Awaits
  <2>4. Fleet!GpusOf(r4.of) \subseteq Things /\ r1 \in [Things -> {"on", "off", "gone"}]
    BY <1>1 DEF Fleet!GpusOf, Things, FleetInv
  <2> QED
    BY <2>3, <2>4, SwitchesShown
<1>2. (page = "fleet" => FleetInv) => OwnChangesShown
  BY <1>1 DEF OwnChangesShown, Fleet!OwnChangesShown
<1> QED
  BY <1>2, FleetStaysSound, PTL

-----------------------------------------------------------------------------
(***************************************************************************)
(* The administrator's users.  While a save waits for requests, every      *)
(* field it sent has been changed by the server or is of one of them, and  *)
(* none of those is answered before its field has been changed.            *)
(***************************************************************************)
Proper(c) == {"kind", "joined", "reply"} \subseteq DOMAIN c
IsCalls(cs) ==
  cs \in Seq({cs[j] : j \in DOMAIN cs}) /\ \A j \in DOMAIN cs : Proper(cs[j])
Waited(cs) == {j \in DOMAIN cs : cs[j].joined}
SaveFits(cs, told) ==
  /\ \A j \in Waited(cs) :
       /\ cs[j].kind \in told.sent
       /\ cs[j].reply # None /\ cs[j].reply.ok => cs[j].kind \in told.applied
  /\ Waited(cs) # {} =>
       \A f \in told.sent \ told.applied : \E j \in Waited(cs) : cs[j].kind = f
Saves == [sent : SUBSET Users!Fields, applied : SUBSET Users!Fields, saved : BOOLEAN]

UsersInv ==
  /\ IsCalls(r6)
  /\ r7 \in Saves
  /\ r7.applied \subseteq r7.sent
  /\ r7.saved => r7.applied = r7.sent
  /\ SaveFits(r6, r7)
  /\ r5 = "revoke" => Waited(r6) = {}

LEMMA IsCallsOf ==
  ASSUME NEW S, NEW cs \in Seq(S), \A j \in DOMAIN cs : Proper(cs[j])
  PROVE  IsCalls(cs)
<1> DEFINE V == {cs[j] : j \in DOMAIN cs}
<1>1. Len(cs) \in Nat /\ DOMAIN cs = 1..Len(cs) /\ cs = [j \in 1..Len(cs) |-> cs[j]]
  OBVIOUS
<1>2. \A j \in 1..Len(cs) : cs[j] \in V
  BY <1>1
<1> HIDE DEF V
<1>3. [j \in 1..Len(cs) |-> cs[j]] \in Seq(V)
  BY <1>1, <1>2
<1> QED
  BY <1>1, <1>3 DEF IsCalls, V

LEMMA SetToSeqLists ==
  ASSUME NEW S, IsFiniteSet(S)
  PROVE  /\ SetToSeq(S) \in Seq(S)
         /\ \A x \in S : \E j \in DOMAIN SetToSeq(S) : SetToSeq(S)[j] = x
<1> DEFINE n == Cardinality(S)
           f == SetToSeq(S)
<1>1. n \in Nat /\ ExistsBijection(1..n, S)
  BY FS_CardinalityType
<1>2. PICK g : g \in [1..n -> S] /\ IsInjective(g)
  BY <1>1 DEF ExistsBijection, Bijection, Injection
<1>3. f \in [1..n -> S] /\ IsInjective(f)
  BY <1>2 DEF SetToSeq
<1>4. f \in Injection(1..n, S)
  BY <1>3 DEF Injection
<1>5. Cardinality(1..n) = n
  BY <1>1, FS_Interval
<1> HIDE DEF f, n
<1>6. f \in Surjection(1..n, S)
  BY <1>4, <1>5, FS_Injection DEF n
<1>7. f \in Seq(S) /\ DOMAIN f = 1..n
  BY <1>1, <1>3
<1>8. \A x \in S : \E j \in 1..n : f[j] = x
  BY <1>6 DEF Surjection
<1> QED
  BY <1>7, <1>8 DEF f

(* One request less: what is waited for still fits if that one was not     *)
(* waited for, or the server has changed its field.                        *)
LEMMA CallTakenOut ==
  ASSUME NEW cs, NEW told, IsCalls(cs), NEW i \in DOMAIN cs
  PROVE  /\ IsCalls(RemoveAt(cs, i))
         /\ /\ SaveFits(cs, told)
            /\ cs[i].joined => cs[i].kind \in told.applied
            => SaveFits(RemoveAt(cs, i), told)
         /\ Waited(cs) \subseteq {i} => Waited(RemoveAt(cs, i)) = {}
<1> DEFINE t == RemoveAt(cs, i)
           V == {cs[j] : j \in DOMAIN cs}
           From(j) == IF j < i THEN j ELSE j + 1
<1>1. cs \in Seq(V) /\ i \in 1..Len(cs) /\ DOMAIN cs = 1..Len(cs) /\ Len(cs) \in Nat
  BY DEF IsCalls
<1> HIDE DEF V
<1>2. /\ t \in Seq(V) /\ Len(t) = Len(cs) - 1
      /\ \A j \in 1..(Len(cs) - 1) : t[j] = cs[IF j < i THEN j ELSE j + 1]
  BY <1>1, Removed
<1> HIDE DEF t
<1>3. DOMAIN t = 1..(Len(cs) - 1)
  BY <1>2
<1>4. \A j \in DOMAIN t : From(j) \in DOMAIN cs \ {i} /\ t[j] = cs[From(j)]
  BY <1>1, <1>2, <1>3
<1>5. \A k \in DOMAIN cs \ {i} : \E j \in DOMAIN t : From(j) = k
  <2>1. ASSUME NEW k \in DOMAIN cs \ {i} PROVE \E j \in DOMAIN t : From(j) = k
    <3> DEFINE j == IF k < i THEN k ELSE k - 1
    <3>1. j \in DOMAIN t /\ From(j) = k
      BY <1>1, <1>3
    <3> QED
      BY <3>1
  <2> QED
    BY <2>1
<1> HIDE DEF From
<1>6. \A j \in DOMAIN t : Proper(t[j])
  BY <1>4 DEF IsCalls
<1>7. \A j \in Waited(t) : From(j) \in Waited(cs) \ {i} /\ t[j] = cs[From(j)]
  BY <1>4 DEF Waited
<1>8. ASSUME SaveFits(cs, told), cs[i].joined => cs[i].kind \in told.applied,
             Waited(t) # {}, NEW f \in told.sent \ told.applied
      PROVE  \E j \in Waited(t) : t[j].kind = f
  <2>1. Waited(cs) # {}
    BY <1>7, <1>8
  <2>2. PICK k \in Waited(cs) : cs[k].kind = f
    BY <1>8, <2>1 DEF SaveFits
  <2>3. k \in DOMAIN cs \ {i}
    BY <1>8, <2>2 DEF Waited
  <2>4. PICK j \in DOMAIN t : From(j) = k
    BY <1>5, <2>3
  <2>5. t[j] = cs[k]
    BY <1>4, <2>4
  <2> QED
    BY <2>2, <2>4, <2>5 DEF Waited
<1>9. ASSUME SaveFits(cs, told), cs[i].joined => cs[i].kind \in told.applied
      PROVE  SaveFits(t, told)
  BY <1>7, <1>8, <1>9 DEF SaveFits
<1>10. IsCalls(t)
  BY <1>2, <1>6, IsCallsOf
<1> QED
  BY <1>7, <1>9, <1>10 DEF t

(* Requests that no save waits for come after the others.                  *)
LEMMA CallAdded ==
  ASSUME NEW cs, NEW told, IsCalls(cs), SaveFits(cs, told),
         NEW c, Proper(c), ~c.joined
  PROVE  /\ IsCalls(Append(cs, c)) /\ SaveFits(Append(cs, c), told)
         /\ Waited(Append(cs, c)) = Waited(cs)
         /\ cs \o <<c>> = Append(cs, c)
<1> DEFINE V == {cs[j] : j \in DOMAIN cs} \cup {c}
           t == Append(cs, c)
<1>1. cs \in Seq(V) /\ c \in V
  <2> DEFINE U == {cs[j] : j \in DOMAIN cs}
  <2>1. cs \in Seq(U) /\ U \subseteq V
    BY DEF IsCalls
  <2> HIDE DEF U, V
  <2>2. cs \in Seq(V)
    BY <2>1
  <2> QED
    BY <2>2 DEF V
<1> HIDE DEF V
<1>2. /\ t \in Seq(V) /\ DOMAIN t = 1..(Len(cs) + 1) /\ Len(cs) \in Nat
      /\ t[Len(cs) + 1] = c /\ \A j \in 1..Len(cs) : t[j] = cs[j]
      /\ DOMAIN cs = 1..Len(cs)
  BY <1>1
<1>3. cs \o <<c>> = t
  BY <1>1, AppendIsConcat
<1> HIDE DEF t
<1>4. \A j \in DOMAIN t : Proper(t[j])
  <2>1. \A j \in DOMAIN t : j \in DOMAIN cs \/ j = Len(cs) + 1
    BY <1>2
  <2> QED
    BY <1>2, <2>1 DEF IsCalls
<1>5. Waited(t) = Waited(cs) /\ \A j \in Waited(cs) : t[j] = cs[j]
  BY <1>2 DEF Waited
<1>6. SaveFits(t, told)
  BY <1>5 DEF SaveFits
<1>7. IsCalls(t)
  BY <1>2, <1>4, IsCallsOf
<1> QED
  BY <1>3, <1>5, <1>6, <1>7 DEF t

(* A save that has failed or succeeded waits for nothing any more.         *)
LEMMA CallsReleased ==
  ASSUME NEW t, NEW told, IsCalls(t)
  PROVE  LET u == [j \in DOMAIN t |-> [t[j] EXCEPT !.joined = FALSE]]
         IN  IsCalls(u) /\ SaveFits(u, told) /\ Waited(u) = {}
<1> DEFINE u == [j \in DOMAIN t |-> [t[j] EXCEPT !.joined = FALSE]]
           V == {u[j] : j \in DOMAIN t}
<1>1. DOMAIN t = 1..Len(t) /\ Len(t) \in Nat
  BY DEF IsCalls
<1>2. \A j \in DOMAIN t : Proper(u[j]) /\ ~u[j].joined
  BY DEF IsCalls, Proper
<1>3. DOMAIN u = DOMAIN t /\ \A j \in DOMAIN t : u[j] \in V
  OBVIOUS
<1>4. u = [j \in 1..Len(t) |-> u[j]]
  BY <1>1
<1> HIDE DEF u, V
<1>5. [j \in 1..Len(t) |-> u[j]] \in Seq(V)
  BY <1>1, <1>3
<1>6. IsCalls(u)
  BY <1>2, <1>3, <1>4, <1>5, IsCallsOf
<1>7. Waited(u) = {}
  BY <1>2, <1>3 DEF Waited
<1>8. SaveFits(u, told)
  BY <1>7 DEF SaveFits
<1> QED
  BY <1>6, <1>7, <1>8 DEF u

LEMMA UsersRest ==
  ASSUME NEW i
  PROVE  Users!Rest(i) = RemoveAt(r6, i)
BY DEF Users!Rest, Users!RemoveAt, RemoveAt

LEMMA UsersMove ==
  ASSUME UsersInv, r7' = r7, IsCalls(r6'), SaveFits(r6', r7),
         r5' = "revoke" => Waited(r6') = {}
  PROVE  UsersInv'
BY DEF UsersInv

LEMMA UsersAsk ==
  ASSUME NEW kind, NEW u, NEW value
  PROVE  LET c == Users!Request(kind, u, value)
         IN  Proper(c) /\ ~c.joined /\ c.kind = kind
BY DEF Users!Request, Proper

LEMMA UsersSent ==
  ASSUME UsersInv, NEW kind, NEW u, NEW value,
         Users!Send(<<Users!Request(kind, u, value)>>), UNCHANGED <<r5, r7>>
  PROVE  UsersInv'
<1> DEFINE c == Users!Request(kind, u, value)
<1>1. r6' = r6 \o <<c>>
  BY DEF Users!Send
<1>2. Proper(c) /\ ~c.joined
  BY UsersAsk
<1>3. IsCalls(r6) /\ SaveFits(r6, r7) /\ (r5 = "revoke" => Waited(r6) = {})
  BY DEF UsersInv
<1> HIDE DEF c
<1>4. IsCalls(r6') /\ SaveFits(r6', r7) /\ Waited(r6') = Waited(r6)
  BY <1>1, <1>2, <1>3, CallAdded
<1> QED
  BY <1>3, <1>4, UsersMove

(* A save: one request for every field that differs.                       *)
LEMMA UsersTasks ==
  ASSUME NEW D, D = Users!Differs
  PROVE  \E S : /\ Users!Tasks \in Seq(S)
                /\ \A c \in S : /\ Proper(c) /\ c.joined /\ c.kind \in D
                                /\ c.reply = None
                /\ \A f \in D : \E j \in DOMAIN Users!Tasks : Users!Tasks[j].kind = f
<1> DEFINE Task(f) == [Users!Request(f, r3, r4[f]) EXCEPT !.joined = TRUE]
           g == [f \in D |-> Task(f)]
           S == {g[f] : f \in D}
<1>1. \A f \in D : /\ g[f] = Task(f)
                   /\ g[f] = [kind |-> f, user |-> r3, value |-> r4[f],
                              joined |-> TRUE, reply |-> None]
  BY DEF Users!Request
<1>2. \A f \in D : /\ Proper(g[f]) /\ g[f].joined /\ g[f].kind = f
                   /\ g[f].reply = None
  <2>1. ASSUME NEW f \in D
        PROVE  Proper(g[f]) /\ g[f].joined /\ g[f].kind = f /\ g[f].reply = None
    <3> DEFINE c == g[f]
    <3>1. c = [kind |-> f, user |-> r3, value |-> r4[f], joined |-> TRUE, reply |-> None]
      BY <1>1
    <3> HIDE DEF c
    <3>2. /\ c.joined = TRUE /\ c.kind = f /\ c.reply = None
          /\ DOMAIN c = {"kind", "user", "value", "joined", "reply"}
      BY <3>1
    <3> QED
      BY <3>2 DEF Proper, c
  <2> QED
    BY <2>1
<1>3. Users!Tasks = Users!SetToSeq(S)
  <2>1. {Task(f) : f \in D} = S
    BY <1>1
  <2> HIDE DEF S, g
  <2> QED
    BY <2>1 DEF Users!Tasks
<1>4. IsFiniteSet(D)
  <2>1. IsFiniteSet({"name"} \cup {"access"})
    BY FS_Singleton, FS_Union
  <2>2. D \subseteq {"name"} \cup {"access"}
    BY DEF Users!Differs, Users!Fields
  <2> QED
    BY <2>1, <2>2, FS_Subset
<1> HIDE DEF g, Task
<1>5. IsFiniteSet(S)
  BY <1>4, ImageIsFinite
<1> HIDE DEF S
<1>6. Users!SetToSeq(S) = SetToSeq(S)
  <2>1. Users!Cardinality(S) = Cardinality(S)
    BY DEF Users!Cardinality, Cardinality
  <2>2. \A f : Users!IsInjective(f) <=> IsInjective(f)
    BY DEF Users!IsInjective, IsInjective
  <2> QED
    BY Zenon, <2>1, <2>2 DEF Users!SetToSeq, SetToSeq
<1>7. /\ Users!Tasks \in Seq(S)
      /\ \A x \in S : \E j \in DOMAIN Users!Tasks : Users!Tasks[j] = x
  BY <1>3, <1>5, <1>6, SetToSeqLists
<1>8. \A f \in D : \E j \in DOMAIN Users!Tasks : Users!Tasks[j].kind = f
  BY <1>2, <1>7 DEF S
<1>9. \A c \in S : Proper(c) /\ c.joined /\ c.kind \in D /\ c.reply = None
  BY <1>2 DEF S
<1> QED
  BY <1>7, <1>8, <1>9

LEMMA UsersSaves ==
  ASSUME UsersInv, Waited(r6) = {}, Users!HandleSaveDetails, r5' # "revoke"
  PROVE  UsersInv'
<1> DEFINE D == Users!Differs
           T == Users!Tasks
           n == Len(r6)
           V == {r6[j] : j \in DOMAIN r6}
           told == [sent |-> D, applied |-> {}, saved |-> FALSE]
<1>1. r6' = r6 \o T /\ r7' = told
  BY DEF Users!HandleSaveDetails, Users!Send
<1>2. D \subseteq Users!Fields
  BY DEF Users!Differs
<1>3. PICK S : /\ T \in Seq(S)
               /\ \A c \in S : Proper(c) /\ c.joined /\ c.kind \in D /\ c.reply = None
               /\ \A f \in D : \E j \in DOMAIN T : T[j].kind = f
  BY UsersTasks
<1>4. r6 \in Seq(V) /\ \A j \in DOMAIN r6 : Proper(r6[j]) /\ ~r6[j].joined
  BY DEF UsersInv, IsCalls, Waited
<1> HIDE DEF D, T, V
<1>5. r6 \in Seq(V \cup S) /\ T \in Seq(V \cup S)
  BY <1>3, <1>4
<1> DEFINE t == r6 \o T
<1>6. /\ t \in Seq(V \cup S) /\ DOMAIN t = 1..(n + Len(T)) /\ n \in Nat /\ Len(T) \in Nat
      /\ DOMAIN r6 = 1..n /\ DOMAIN T = 1..Len(T)
      /\ \A j \in 1..(n + Len(T)) : t[j] = IF j <= n THEN r6[j] ELSE T[j - n]
  BY <1>5, ConcatProperties
<1> HIDE DEF t, n
<1>7. \A j \in 1..n : j \in DOMAIN t /\ t[j] = r6[j]
  BY <1>6
<1>8. \A j \in DOMAIN T : n + j \in DOMAIN t /\ t[n + j] = T[j] /\ T[j] \in S
  <2>1. ASSUME NEW j \in DOMAIN T PROVE n + j \in DOMAIN t /\ t[n + j] = T[j]
    <3>1. n + j \in 1..(n + Len(T)) /\ ~(n + j <= n) /\ (n + j) - n = j
      BY <1>6
    <3> QED
      BY <1>6, <3>1
  <2>2. \A j \in DOMAIN T : T[j] \in S
    BY <1>3
  <2> QED
    BY <2>1, <2>2
<1>9. \A j \in DOMAIN t : j \in 1..n \/ \E k \in DOMAIN T : j = n + k
  <2>1. ASSUME NEW j \in DOMAIN t, j \notin 1..n PROVE \E k \in DOMAIN T : j = n + k
    <3>1. j - n \in DOMAIN T /\ j = n + (j - n)
      BY <1>6, <2>1
    <3> QED
      BY <3>1
  <2> QED
    BY <2>1
<1>10. \A j \in DOMAIN t : Proper(t[j])
  BY <1>3, <1>4, <1>6, <1>7, <1>8, <1>9
<1>11. \A j \in Waited(t) : t[j] \in S
  BY <1>4, <1>6, <1>7, <1>8, <1>9 DEF Waited
<1>12. \A f \in D : \E j \in Waited(t) : t[j].kind = f
  <2>1. ASSUME NEW f \in D PROVE \E j \in Waited(t) : t[j].kind = f
    <3>1. PICK k \in DOMAIN T : T[k].kind = f
      BY <1>3
    <3>2. n + k \in Waited(t) /\ t[n + k].kind = f
      BY <1>3, <1>8, <3>1 DEF Waited
    <3> QED
      BY <3>2
  <2> QED
    BY <2>1
<1>13. told.sent = D /\ told.applied = {} /\ ~told.saved /\ told \in Saves
  BY <1>2 DEF Saves
<1> HIDE DEF told
<1>14. SaveFits(t, told)
  BY <1>3, <1>11, <1>12, <1>13 DEF SaveFits
<1>15. IsCalls(t)
  BY <1>6, <1>10, IsCallsOf
<1> QED
  BY <1>1, <1>13, <1>14, <1>15 DEF UsersInv, t

LEMMA UsersServed ==
  ASSUME UsersInv, NEW i \in DOMAIN r6, Users!Serve(i)
  PROVE  UsersInv'
<1> DEFINE c == r6[i]
           V == {r6[j] : j \in DOMAIN r6}
<1>1. c.reply = None /\ r5' = r5
  BY DEF Users!Serve
<1> DEFINE ok == Users!Accepted(c)
           rows == IF c.kind = "list" THEN r1 ELSE None
<1>2. /\ ok \in BOOLEAN
      /\ r6' = [r6 EXCEPT ![i].reply = [ok |-> ok, rows |-> rows]]
      /\ r7' = IF ok /\ c.joined THEN [r7 EXCEPT !.applied = @ \cup {c.kind}] ELSE r7
  <2>1. CASE c.kind = "create"
    BY <2>1 DEF Users!Accepted, Users!Serve
  <2>2. CASE c.kind = "list"
    BY <2>2 DEF Users!Accepted, Users!Serve
  <2>3. CASE c.kind # "create" /\ c.kind # "list"
    <3>1. ok = (c.user \in DOMAIN r1)
      BY <2>3 DEF Users!Accepted
    <3>2. /\ r6' = [r6 EXCEPT ![i].reply = [ok |-> ok, rows |-> rows]]
          /\ r7' = IF ok /\ c.joined THEN [r7 EXCEPT !.applied = @ \cup {c.kind}] ELSE r7
      BY DEF Users!Serve
    <3> QED
      BY <3>1, <3>2
  <2> QED
    BY <2>1, <2>2, <2>3
<1> HIDE DEF ok, rows
<1> DEFINE reply == [ok |-> ok, rows |-> rows]
           d == [c EXCEPT !.reply = reply]
<1>3. /\ r6 \in Seq(V) /\ \A j \in DOMAIN r6 : Proper(r6[j])
      /\ SaveFits(r6, r7) /\ r7 \in Saves /\ r7.applied \subseteq r7.sent
      /\ r7.saved => r7.applied = r7.sent
      /\ r5 = "revoke" => Waited(r6) = {}
  BY DEF UsersInv, IsCalls
<1>4. r6' = [r6 EXCEPT ![i] = d]
  BY <1>2
<1>5. reply.ok = ok
  OBVIOUS
<1> HIDE DEF reply
<1>6. d.kind = c.kind /\ (d.joined <=> c.joined) /\ d.reply = reply /\ Proper(d)
  BY <1>3 DEF Proper
<1> HIDE DEF d
<1>7. /\ DOMAIN r6' = DOMAIN r6 /\ r6'[i] = d
      /\ \A j \in DOMAIN r6 \ {i} : r6'[j] = r6[j]
  BY <1>3, <1>4
<1>8. r6' \in Seq(V \cup {d})
  <2>1. r6 \in Seq(V \cup {d})
    <3> HIDE DEF V
    <3> QED
      BY <1>3
  <2> DEFINE U == V \cup {d}
  <2>2. r6 \in Seq(U) /\ d \in U
    BY <2>1
  <2> HIDE DEF U, V
  <2>3. [r6 EXCEPT ![i] = d] \in Seq(U)
    BY <2>2
  <2> QED
    BY <1>4, <2>3 DEF U
<1>9. IsCalls(r6')
  <2> HIDE DEF V
  <2>1. \A j \in DOMAIN r6' : Proper(r6'[j])
    BY <1>3, <1>6, <1>7
  <2> QED
    BY <1>8, <2>1, IsCallsOf
<1>10. Waited(r6') = Waited(r6) /\ \A j \in DOMAIN r6 : r6'[j].kind = r6[j].kind
  <2>1. \A j \in DOMAIN r6 : (r6'[j].joined <=> r6[j].joined) /\ r6'[j].kind = r6[j].kind
    BY <1>6, <1>7
  <2> QED
    BY <1>7, <2>1 DEF Waited
<1>11. /\ r7'.sent = r7.sent /\ (r7'.saved <=> r7.saved) /\ r7' \in Saves
       /\ r7.applied \subseteq r7'.applied /\ r7'.applied \subseteq r7.sent
       /\ ok /\ c.joined => c.kind \in r7'.applied
  <2>1. CASE ok /\ c.joined
    <3>1. c.kind \in r7.sent
      BY <1>3, <2>1 DEF SaveFits, Waited
    <3> DEFINE a == r7.applied \cup {c.kind}
    <3>2. r7' = [r7 EXCEPT !.applied = a]
      BY <1>2, <2>1
    <3>3. a \in SUBSET Users!Fields /\ a \subseteq r7.sent
      BY <1>3, <3>1 DEF Saves
    <3>4. r7.applied \subseteq a /\ c.kind \in a
      OBVIOUS
    <3> HIDE DEF a
    <3>5. r7' \in Saves /\ r7'.applied = a /\ r7'.sent = r7.sent /\ r7'.saved = r7.saved
      BY <1>3, <3>2, <3>3 DEF Saves
    <3> QED
      BY <3>3, <3>4, <3>5
  <2>2. CASE ~(ok /\ c.joined)
    BY <1>2, <1>3, <2>2
  <2> QED
    BY <2>1, <2>2
<1>12. \A j \in Waited(r6) :
         /\ r6[j].kind \in r7.sent
         /\ r6'[j].reply # None /\ r6'[j].reply.ok => r6[j].kind \in r7'.applied
  <2> SUFFICES ASSUME NEW j \in Waited(r6)
               PROVE  /\ r6[j].kind \in r7.sent
                      /\ r6'[j].reply # None /\ r6'[j].reply.ok => r6[j].kind \in r7'.applied
    OBVIOUS
  <2>1. j \in DOMAIN r6 /\ r6[j].joined
    BY DEF Waited
  <2>2. CASE j = i
    BY <1>3, <1>5, <1>6, <1>7, <1>11, <2>1, <2>2 DEF SaveFits
  <2>3. CASE j # i
    BY <1>3, <1>7, <1>11, <2>1, <2>3 DEF SaveFits
  <2> QED
    BY <2>2, <2>3
<1>13. SaveFits(r6', r7')
  <2>1. \A j \in Waited(r6) : j \in DOMAIN r6
    BY DEF Waited
  <2>2. Waited(r6) # {} => \A f \in r7'.sent \ r7'.applied : \E j \in Waited(r6) : r6[j].kind = f
    BY <1>3, <1>11 DEF SaveFits
  <2> HIDE DEF c, V
  <2> QED
    BY <1>10, <1>11, <1>12, <2>1, <2>2 DEF SaveFits
<1> HIDE DEF c, V
<1> QED
  BY <1>1, <1>3, <1>9, <1>10, <1>11, <1>13 DEF UsersInv

(* A save that fails waits for nothing any more.                           *)
LEMMA UsersFailed ==
  ASSUME UsersInv, NEW i \in DOMAIN r6, Users!Failed(i)
  PROVE  UsersInv'
<1> DEFINE t == RemoveAt(r6, i)
<1>1. IsCalls(r6) /\ SaveFits(r6, r7) /\ (r5 = "revoke" => Waited(r6) = {})
  BY DEF UsersInv
<1>2. /\ r6' = IF r6[i].joined THEN [j \in DOMAIN t |-> [t[j] EXCEPT !.joined = FALSE]] ELSE t
      /\ r5' = r5 /\ r7' = r7
  BY UsersRest DEF Users!Failed
<1>3. /\ IsCalls(t) /\ (~r6[i].joined => SaveFits(t, r7))
      /\ Waited(r6) \subseteq {i} => Waited(t) = {}
  BY <1>1, CallTakenOut
<1> HIDE DEF t
<1>4. CASE r6[i].joined
  <2>1. IsCalls(r6') /\ SaveFits(r6', r7) /\ Waited(r6') = {}
    BY <1>2, <1>3, <1>4, CallsReleased
  <2> QED
    BY <1>2, <2>1, UsersMove
<1>5. CASE ~r6[i].joined
  BY <1>1, <1>2, <1>3, <1>5, UsersMove
<1> QED
  BY <1>4, <1>5

(* The last answer a save waited for: all it sent has been changed.        *)
LEMMA UsersSaved ==
  ASSUME UsersInv, NEW i \in DOMAIN r6, r6[i].joined, r6[i].reply # None,
         r6[i].reply.ok, Users!Saved(i)
  PROVE  UsersInv'
<1> DEFINE t == RemoveAt(r6, i)
           u == [j \in DOMAIN t |-> [t[j] EXCEPT !.joined = FALSE]]
<1>1. IsCalls(r6) /\ SaveFits(r6, r7) /\ r5' = r5 /\ (r5 = "revoke" => Waited(r6) = {})
  BY DEF UsersInv, Users!Saved
<1>2. i \in Waited(r6) /\ r6[i].kind \in r7.applied
  BY <1>1 DEF Waited, SaveFits
<1>3. /\ IsCalls(t) /\ SaveFits(t, r7)
      /\ Waited(r6) \subseteq {i} => Waited(t) = {}
  BY <1>1, <1>2, CallTakenOut
<1>4. CASE Users!LastAnswered(i)
  <2>1. Waited(r6) = {i}
    BY <1>4 DEF Users!LastAnswered, Users!Joined, Waited
  <2>2. r7.sent \subseteq r7.applied
    BY <1>1, <1>2, <2>1 DEF SaveFits
  <2> DEFINE b == Users!Listing
             told == [r7 EXCEPT !.saved = TRUE]
  <2>3. r6' = Append(u, b) /\ r7' = told
    BY <1>4, UsersRest DEF Users!Saved
  <2>4. r7 \in Saves /\ r7.applied \subseteq r7.sent
    BY DEF UsersInv
  <2>5. told \in Saves /\ told.sent = r7.sent /\ told.applied = r7.applied
    BY <2>4 DEF Saves
  <2>6. Proper(b) /\ ~b.joined
    BY UsersAsk DEF Users!Listing
  <2> HIDE DEF t, b, told
  <2>7. IsCalls(u) /\ SaveFits(u, told) /\ Waited(u) = {}
    BY <1>3, CallsReleased
  <2> HIDE DEF u
  <2>8. IsCalls(r6') /\ SaveFits(r6', told) /\ Waited(r6') = {}
    BY <2>3, <2>6, <2>7, CallAdded
  <2>9. told.applied = told.sent
    <3> DEFINE sent == r7.sent
               applied == r7.applied
    <3>1. sent \subseteq applied /\ applied \subseteq sent
      BY <2>2, <2>4
    <3> HIDE DEF sent, applied
    <3>2. sent = applied
      BY <3>1
    <3> QED
      BY <2>5, <3>2 DEF sent, applied
  <2> QED
    BY <2>3, <2>5, <2>8, <2>9 DEF UsersInv
<1>5. CASE ~Users!LastAnswered(i)
  <2>1. r6' = t /\ r7' = r7
    BY <1>5, UsersRest DEF Users!Saved
  <2>2. r5' # "revoke"
    BY <1>1, <1>2
  <2> HIDE DEF t
  <2> QED
    BY <1>3, <2>1, <2>2, UsersMove
<1> QED
  BY <1>4, <1>5

LEMMA UsersArrived ==
  ASSUME UsersInv, NEW i \in DOMAIN r6, r6[i].reply # None, r6[i].reply.ok,
         Users!Arrived(i)
  PROVE  UsersInv'
<1> DEFINE c == r6[i]
           t == RemoveAt(r6, i)
           b == Users!Listing
<1>1. IsCalls(r6) /\ SaveFits(r6, r7) /\ (r5 = "revoke" => Waited(r6) = {})
  BY DEF UsersInv
<1>2. c.joined => c.kind \in r7.applied
  BY <1>1 DEF Waited, SaveFits
<1>3. /\ IsCalls(t) /\ SaveFits(t, r7)
      /\ Waited(r6) \subseteq {i} => Waited(t) = {}
  BY <1>1, <1>2, CallTakenOut
<1>4. Users!Rest(i) = t
  BY UsersRest
<1>5. Proper(b) /\ ~b.joined
  BY UsersAsk DEF Users!Listing
<1> HIDE DEF t, b
<1>6. IsCalls(Append(t, b)) /\ SaveFits(Append(t, b), r7) /\ Waited(Append(t, b)) = Waited(t)
  BY <1>3, <1>5, CallAdded
<1>7. CASE c.kind \in Users!Fields /\ c.joined
  <2>1. Users!Saved(i)
    BY <1>7 DEF Users!Arrived, Users!Fields
  <2> QED
    BY <1>7, <2>1, UsersSaved
<1>8. CASE c.kind = "list" \/ (c.kind \in Users!Fields /\ ~c.joined)
  <2>1. r6' = t /\ r5' = r5 /\ r7' = r7
    BY <1>4, <1>8 DEF Users!Arrived, Users!Fields
  <2> QED
    BY <1>1, <1>3, <2>1, UsersMove
<1>9. CASE c.kind # "list" /\ c.kind \notin Users!Fields
  <2>1. /\ r6' = Append(t, b) /\ r7' = r7
        /\ r5' = IF c.kind = "delete" /\ r5 = "delete" THEN None ELSE r5
    BY <1>4, <1>9 DEF Users!Arrived, b
  <2>2. r5' = "revoke" => r5 = "revoke"
    BY <2>1, NoneAssumption
  <2> HIDE DEF c
  <2> QED
    BY <1>1, <1>3, <1>6, <2>1, <2>2, UsersMove
<1> QED
  BY <1>7, <1>8, <1>9

LEMMA UsersKeeps == ASSUME UsersInv, Users!Next PROVE UsersInv'
<1>1. IsCalls(r6) /\ SaveFits(r6, r7) /\ (r5 = "revoke" => Waited(r6) = {})
  BY DEF UsersInv
<1>2. ASSUME UNCHANGED <<r6, r7>>, r5' = "revoke" => r5 = "revoke" \/ Waited(r6) = {}
      PROVE  UsersInv'
  BY <1>1, <1>2, UsersMove
<1>3. CASE \/ \E u \in Persons : Users!SelectUser(u)
           \/ \E n \in PersonNames : Users!Type(n)
           \/ \E s \in Grantable : Users!ToggleServer(s)
           \/ Users!AskDelete \/ Users!Dismiss
           \/ \E u \in Persons :
                Users!Deletes(u) \/ \E access \in SUBSET Grantable : Users!Grants(u, access)
  <2>1. UNCHANGED <<r6, r7>> /\ r5' \in {r5, "delete", None}
    BY <1>3 DEF Users!SelectUser, Users!Type, Users!ToggleServer, Users!AskDelete,
                Users!Dismiss, Users!Deletes, Users!Grants
  <2> QED
    BY <1>2, <2>1, NoneAssumption
<1>4. CASE Users!HandleSaveClick
  <2>1. Waited(r6) = {} /\ r5 = None
    BY <1>4 DEF Users!HandleSaveClick, Users!DetailsBusy, Users!Joined, Waited
  <2>2. CASE Users!HandleSaveDetails /\ r5' = r5
    BY <2>1, <2>2, UsersSaves, NoneAssumption
  <2>3. CASE UNCHANGED <<r6, r7>>
    BY <1>2, <2>1, <2>3
  <2> QED
    BY <1>4, <2>2, <2>3 DEF Users!HandleSaveClick
<1>5. CASE Users!ConfirmRevokeAndSave
  <2>1. Waited(r6) = {} /\ r5' = None
    BY <1>1, <1>5 DEF Users!ConfirmRevokeAndSave
  <2>2. CASE Users!HandleSaveDetails
    BY <2>1, <2>2, UsersSaves, NoneAssumption
  <2>3. CASE UNCHANGED <<r6, r7>>
    BY <1>2, <2>1, <2>3
  <2> QED
    BY <1>5, <2>2, <2>3 DEF Users!ConfirmRevokeAndSave
<1>6. CASE Users!HandleToggle
  BY <1>6, UsersSent DEF Users!HandleToggle
<1>7. CASE Users!HandleDelete
  BY <1>7, UsersSent DEF Users!HandleDelete
<1>8. CASE \E u \in Persons, profile \in Drafts : Users!HandleCreate(u, profile)
  BY <1>8, UsersSent DEF Users!HandleCreate
<1>9. CASE \E i \in DOMAIN r6 : Users!Serve(i) \/ Users!Arrive(i) \/ Users!Lose(i)
  <2>1. PICK i \in DOMAIN r6 : Users!Serve(i) \/ Users!Arrive(i) \/ Users!Lose(i)
    BY <1>9
  <2>2. CASE Users!Arrive(i)
    <3>1. CASE r6[i].reply.ok
      BY <2>2, <3>1, UsersArrived DEF Users!Arrive
    <3>2. CASE ~r6[i].reply.ok
      BY <2>2, <3>2, UsersFailed DEF Users!Arrive
    <3> QED
      BY <3>1, <3>2
  <2> QED
    BY <2>1, <2>2, UsersServed, UsersFailed DEF Users!Lose
<1> QED
  BY <1>3, <1>4, <1>5, <1>6, <1>7, <1>8, <1>9 DEF Users!Next

(* And the users' page, between the requests that make up one save.        *)
THEOREM UsersStaySound == Spec => [](page = "users" => UsersInv)
<1>1. ASSUME Users!Init PROVE UsersInv
  <2> DEFINE b == Users!Listing
             told == [sent |-> {}, applied |-> {}, saved |-> FALSE]
  <2>1. r5 = None /\ r6 = <<b>> /\ r7 = told
    BY <1>1 DEF Users!Init
  <2>2. Proper(b) /\ ~b.joined
    BY UsersAsk DEF Users!Listing
  <2>3. told \in Saves /\ told.applied = {} /\ told.sent = {}
    BY DEF Saves
  <2> HIDE DEF b, told
  <2>4. DOMAIN r6 = {1} /\ r6[1] = b /\ r6 \in Seq({b})
    BY <2>1
  <2>5. IsCalls(r6) /\ Waited(r6) = {}
    BY <2>2, <2>4 DEF IsCalls, Waited
  <2>6. SaveFits(r6, r7)
    BY <2>5 DEF SaveFits
  <2> QED
    BY <2>1, <2>3, <2>5, <2>6 DEF UsersInv
<1>2. Init => (page = "users" => UsersInv)
  BY <1>1, StartOfPage
<1>3. (page = "users" => UsersInv) /\ [Next]_pageVars => (page = "users" => UsersInv)'
  <2> SUFFICES ASSUME page = "users" => UsersInv, [Next]_pageVars, page' = "users"
               PROVE  UsersInv'
    OBVIOUS
  <2>1. CASE Next
    <3>1. page = "users" /\ Users!Next
      BY <2>1, StepOfPage
    <3> QED
      BY <3>1, UsersKeeps
  <2>2. CASE UNCHANGED pageVars
    BY <2>2 DEF pageVars, registers, UsersInv
  <2> QED
    BY <2>1, <2>2
<1> QED
  BY <1>2, <1>3, PTL DEF Spec

(***************************************************************************)
(* "Changes saved." is only said when the server has made every change of  *)
(* the save, whichever of its requests fail, are lost or are answered late *)
(* and whatever other lists, saves and dialogs run beside it.              *)
(***************************************************************************)
THEOREM SavedIsApplied == Spec => []SavedMeansAllApplied
<1>1. (page = "users" => UsersInv) => SavedMeansAllApplied
  BY DEF UsersInv, SavedMeansAllApplied, Users!SavedMeansAllApplied
<1> QED
  BY <1>1, UsersStaySound, PTL

=============================================================================
