---------------------------- MODULE PeakRam_proofs ----------------------------
(***************************************************************************)
(* Proofs about the sweep line of PeakRam for every list of reservations.  *)
(*                                                                         *)
(* First the sums: MapThenSumSet takes the elements of a set one by one,   *)
(* in an order nobody knows, so what is to be shown is that the order does *)
(* not matter.  The induction is over finite sets, by smallest             *)
(* counterexample.                                                         *)
(***************************************************************************)
EXTENDS PeakRam, FiniteSetTheorems, TLAPS

-----------------------------------------------------------------------------
(* A set of finite sets that is not empty has a smallest member.           *)
LEMMA SmallestSet ==
  ASSUME NEW S, IsFiniteSet(S), NEW C \in SUBSET SUBSET S, C # {}
  PROVE  \E s \in C : \A u \in C : u \subseteq s => u = s
<1>1. IsWellFoundedOn(StrictSubsetOrdering(S), SUBSET S)
  BY FS_StrictSubsetOrderingWellFounded, FS_FiniteSubsetsOfFinite
<1>2. PICK s \in C : \A u \in C : <<u, s>> \notin StrictSubsetOrdering(S)
  BY <1>1, WFMin
<1>3. ASSUME NEW u \in C, u \subseteq s, u # s
      PROVE  FALSE
  BY <1>2, <1>3 DEF StrictSubsetOrdering
<1> QED
  BY <1>2, <1>3

(***************************************************************************)
(* SumsUp(w, S, f): f is the recursive function MapThenSumSet defines, for *)
(* the subsets of S, where x counts w[x].                                  *)
(***************************************************************************)
Pick(s) == CHOOSE x \in s : TRUE
SumsUp(w, S, f) ==
  f = [s \in SUBSET S |-> IF s = {} THEN 0 ELSE w[Pick(s)] + f[s \ {Pick(s)}]]
WeightOf(w, S) == (CHOOSE f : SumsUp(w, S, f))[S]

LEMMA PickInside ==
  ASSUME NEW s, s # {}
  PROVE  Pick(s) \in s
  BY DEF Pick

LEMMA FoldUnique ==
  ASSUME NEW w, NEW S, IsFiniteSet(S), NEW f, NEW g,
         SumsUp(w, S, f), SumsUp(w, S, g)
  PROVE  f = g
<1> DEFINE C == {s \in SUBSET S : f[s] # g[s]}
<1>1. \A s \in SUBSET S :
        /\ f[s] = IF s = {} THEN 0 ELSE w[Pick(s)] + f[s \ {Pick(s)}]
        /\ g[s] = IF s = {} THEN 0 ELSE w[Pick(s)] + g[s \ {Pick(s)}]
  BY DEF SumsUp
<1>2. C = {}
  <2> SUFFICES ASSUME C # {} PROVE FALSE
    OBVIOUS
  <2> C \in SUBSET SUBSET S
    OBVIOUS
  <2> HIDE DEF C
  <2>1. PICK s \in C : \A u \in C : u \subseteq s => u = s
    BY SmallestSet
  <2> USE DEF C
  <2>2. s # {}
    BY <1>1, <2>1
  <2>3. s \ {Pick(s)} \in SUBSET S /\ s \ {Pick(s)} # s
    BY <2>1, <2>2, PickInside
  <2>4. f[s \ {Pick(s)}] = g[s \ {Pick(s)}]
    BY <2>1, <2>3
  <2> QED
    BY <1>1, <2>1, <2>2, <2>4
<1> QED
  BY <1>2 DEF SumsUp

(* The function for a set serves its subsets.                              *)
LEMMA FoldRestricts ==
  ASSUME NEW w, NEW S, NEW f, SumsUp(w, S, f), NEW T \in SUBSET S
  PROVE  SumsUp(w, T, [s \in SUBSET T |-> f[s]])
<1> DEFINE g == [s \in SUBSET T |-> f[s]]
<1>1. \A s \in SUBSET T :
        g[s] = IF s = {} THEN 0 ELSE w[Pick(s)] + g[s \ {Pick(s)}]
  BY DEF SumsUp
<1>2. g = [s \in SUBSET T |-> g[s]]
  OBVIOUS
<1> HIDE DEF g
<1>3. g = [s \in SUBSET T |->
             IF s = {} THEN 0 ELSE w[Pick(s)] + g[s \ {Pick(s)}]]
  BY <1>1, <1>2
<1> QED
  BY <1>3 DEF SumsUp, g

LEMMA FoldExists ==
  ASSUME NEW w, NEW S, IsFiniteSet(S)
  PROVE  \E f : SumsUp(w, S, f)
<1> DEFINE C == {T \in SUBSET S : ~\E f : SumsUp(w, T, f)}
<1>1. C = {}
  <2> SUFFICES ASSUME C # {} PROVE FALSE
    OBVIOUS
  <2> C \in SUBSET SUBSET S
    OBVIOUS
  <2> HIDE DEF C
  <2>1. PICK T \in C : \A u \in C : u \subseteq T => u = T
    BY SmallestSet
  <2> USE DEF C
  <2>2. T \in SUBSET S /\ ~\E f : SumsUp(w, T, f)
    BY <2>1
  <2>3. \A u \in SUBSET T : u # T => \E f : SumsUp(w, u, f)
    BY <2>1, <2>2
  <2> HIDE DEF C
  <2> DEFINE F(u) == CHOOSE f : SumsUp(w, u, f)
             v(s) == IF s = {} THEN 0
                     ELSE w[Pick(s)] + F(s \ {Pick(s)})[s \ {Pick(s)}]
             g == [s \in SUBSET T |-> v(s)]
  <2>4. \A u \in SUBSET T : u # T => SumsUp(w, u, F(u))
    BY <2>3
  <2> HIDE DEF F
  <2>5. ASSUME NEW u \in SUBSET T, u # T
        PROVE  F(u)[u] = v(u)
    <3>1. SumsUp(w, u, F(u))
      BY <2>4, <2>5
    <3>2. CASE u = {}
      <4>1. u \in SUBSET u
        OBVIOUS
      <4> QED
        BY <3>1, <3>2, <4>1 DEF SumsUp
    <3>3. CASE u # {}
      <4> DEFINE d == u \ {Pick(u)}
      <4>1. d \in SUBSET u /\ d # T /\ d \in SUBSET T
        BY <2>5, <3>3, PickInside
      <4>2. SumsUp(w, d, F(d))
        BY <2>4, <4>1
      <4>3. SumsUp(w, d, [s \in SUBSET d |-> F(u)[s]])
        BY <3>1, <4>1, FoldRestricts
      <4>4. IsFiniteSet(d)
        BY <2>2, <4>1, FS_Subset
      <4>5. F(d) = [s \in SUBSET d |-> F(u)[s]]
        BY <4>2, <4>3, <4>4, FoldUnique
      <4>6. d \in SUBSET d
        OBVIOUS
      <4>7. F(d)[d] = F(u)[d]
        BY <4>5, <4>6
      <4>8. u \in SUBSET u
        OBVIOUS
      <4>9. F(u)[u] = w[Pick(u)] + F(u)[d]
        BY <3>1, <3>3, <4>8 DEF SumsUp
      <4> QED
        BY <3>3, <4>7, <4>9
    <3> QED
      BY <3>2, <3>3
  <2>6. ASSUME NEW s \in SUBSET T, s # {}
        PROVE  F(s \ {Pick(s)})[s \ {Pick(s)}] = v(s \ {Pick(s)})
    <3>1. s \ {Pick(s)} \in SUBSET T /\ s \ {Pick(s)} # T
      BY <2>6, PickInside
    <3> HIDE DEF v
    <3> QED
      BY <2>5, <3>1
  <2>7. \A s \in SUBSET T :
          v(s) = IF s = {} THEN 0 ELSE w[Pick(s)] + g[s \ {Pick(s)}]
    <3> SUFFICES ASSUME NEW s \in SUBSET T
                 PROVE  v(s) = IF s = {} THEN 0
                               ELSE w[Pick(s)] + g[s \ {Pick(s)}]
      OBVIOUS
    <3>1. g[s \ {Pick(s)}] = v(s \ {Pick(s)})
      <4> HIDE DEF v
      <4> QED
        OBVIOUS
    <3>2. s # {} => v(s) = w[Pick(s)] + F(s \ {Pick(s)})[s \ {Pick(s)}]
      OBVIOUS
    <3> QED
      BY <2>6, <3>1, <3>2
  <2> HIDE DEF v
  <2>8. g = [s \in SUBSET T |->
               IF s = {} THEN 0 ELSE w[Pick(s)] + g[s \ {Pick(s)}]]
    BY <2>7
  <2> QED
    BY <2>2, <2>8 DEF SumsUp
<1> QED
  BY <1>1

-----------------------------------------------------------------------------
(***************************************************************************)
(* What a sum is: nothing for the empty set, and any element apart from    *)
(* the rest.                                                               *)
(***************************************************************************)
LEMMA WeightSums ==
  ASSUME NEW w, NEW S, IsFiniteSet(S), NEW f, SumsUp(w, S, f)
  PROVE  WeightOf(w, S) = f[S]
<1> DEFINE g == CHOOSE h : SumsUp(w, S, h)
<1>1. SumsUp(w, S, g)
  OBVIOUS
<1> HIDE DEF g
<1>2. g = f
  BY <1>1, FoldUnique
<1> QED
  BY <1>2 DEF WeightOf, g

LEMMA WeightOfNone ==
  ASSUME NEW w
  PROVE  WeightOf(w, {}) = 0
<1>1. IsFiniteSet({})
  BY FS_EmptySet
<1>2. PICK f : SumsUp(w, {}, f)
  BY <1>1, FoldExists
<1>3. f[{}] = 0
  BY <1>2 DEF SumsUp
<1> QED
  BY <1>1, <1>2, <1>3, WeightSums

LEMMA WeightOfPick ==
  ASSUME NEW w, NEW S, IsFiniteSet(S), S # {}
  PROVE  WeightOf(w, S) = w[Pick(S)] + WeightOf(w, S \ {Pick(S)})
<1> DEFINE d == S \ {Pick(S)}
<1>1. d \in SUBSET S /\ S \in SUBSET S /\ IsFiniteSet(d)
  BY FS_Subset
<1>2. PICK f : SumsUp(w, S, f)
  BY FoldExists
<1>3. f[S] = w[Pick(S)] + f[d]
  BY <1>1, <1>2 DEF SumsUp
<1> HIDE DEF d
<1> DEFINE g == [s \in SUBSET d |-> f[s]]
<1>4. g[d] = f[d]
  OBVIOUS
<1>5. SumsUp(w, d, g)
  BY <1>1, <1>2, FoldRestricts
<1> HIDE DEF g
<1>6. WeightOf(w, d) = f[d]
  BY <1>1, <1>4, <1>5, WeightSums
<1>7. WeightOf(w, S) = f[S]
  BY <1>2, WeightSums
<1> QED
  BY <1>3, <1>6, <1>7 DEF d

LEMMA WeightType ==
  ASSUME NEW w, NEW S, IsFiniteSet(S), \A x \in S : w[x] \in Int
  PROVE  WeightOf(w, S) \in Int
<1> DEFINE C == {s \in SUBSET S : WeightOf(w, s) \notin Int}
<1> SUFFICES ASSUME C # {} PROVE FALSE
  OBVIOUS
<1> C \in SUBSET SUBSET S
  OBVIOUS
<1> HIDE DEF C
<1>1. PICK s \in C : \A u \in C : u \subseteq s => u = s
  BY SmallestSet
<1> USE DEF C
<1>2. s # {} /\ IsFiniteSet(s)
  <2>1. WeightOf(w, {}) \in Int
    BY WeightOfNone
  <2>2. s \in SUBSET S /\ WeightOf(w, s) \notin Int
    BY <1>1
  <2> QED
    BY <2>1, <2>2, FS_Subset
<1> DEFINE d == s \ {Pick(s)}
<1>3. Pick(s) \in s /\ d \in SUBSET S /\ d # s
  BY <1>1, <1>2, PickInside
<1>4. WeightOf(w, d) \in Int
  BY <1>1, <1>3
<1>5. WeightOf(w, s) = w[Pick(s)] + WeightOf(w, d)
  BY <1>2, WeightOfPick
<1>6. w[Pick(s)] \in Int
  BY <1>1, <1>3
<1> HIDE DEF d
<1>7. w[Pick(s)] + WeightOf(w, d) \in Int
  BY <1>4, <1>6
<1> QED
  BY <1>1, <1>5, <1>7

(* Which element is taken first makes no difference.                       *)
LEMMA WeightApart ==
  ASSUME NEW w, NEW S, IsFiniteSet(S), \A x \in S : w[x] \in Int
  PROVE  \A x \in S : WeightOf(w, S) = w[x] + WeightOf(w, S \ {x})
<1> DEFINE C == {s \in SUBSET S :
                   \E x \in s : WeightOf(w, s) # w[x] + WeightOf(w, s \ {x})}
<1> SUFFICES ASSUME C # {} PROVE FALSE
  OBVIOUS
<1> C \in SUBSET SUBSET S
  OBVIOUS
<1> HIDE DEF C
<1>1. PICK s \in C : \A u \in C : u \subseteq s => u = s
  BY SmallestSet
<1>2. s \in SUBSET S /\ IsFiniteSet(s)
  BY <1>1, FS_Subset DEF C
<1>3. PICK x \in s : WeightOf(w, s) # w[x] + WeightOf(w, s \ {x})
  BY <1>1 DEF C
<1>4. \A u \in SUBSET s : u # s =>
        \A y \in u : WeightOf(w, u) = w[y] + WeightOf(w, u \ {y})
  BY <1>1, <1>2 DEF C
<1> DEFINE y == Pick(s)
           b == s \ {x, y}
<1>5. y \in s
  BY <1>3, PickInside
<1>6. WeightOf(w, s) = w[y] + WeightOf(w, s \ {y})
  BY <1>2, <1>3, WeightOfPick
<1> HIDE DEF y
<1>7. x # y
  BY <1>3, <1>6
<1>8. s \ {y} \in SUBSET s /\ s \ {y} # s /\ x \in s \ {y}
      /\ (s \ {y}) \ {x} = b
  BY <1>5, <1>7
<1>9. s \ {x} \in SUBSET s /\ s \ {x} # s /\ y \in s \ {x}
      /\ (s \ {x}) \ {y} = b
  BY <1>5, <1>7
<1>10. WeightOf(w, s \ {y}) = w[x] + WeightOf(w, b)
  BY <1>4, <1>8
<1>11. WeightOf(w, s \ {x}) = w[y] + WeightOf(w, b)
  BY <1>4, <1>9
<1>12. b \in SUBSET S /\ IsFiniteSet(b)
  BY <1>2, FS_Subset
<1>13. w[x] \in Int /\ w[y] \in Int /\ WeightOf(w, b) \in Int
  BY <1>2, <1>5, <1>12, WeightType
<1> HIDE DEF b
<1>14. WeightOf(w, s) = w[x] + WeightOf(w, s \ {x})
  BY <1>6, <1>10, <1>11, <1>13
<1> QED
  BY <1>3, <1>14

(* Only what the elements count matters.                                   *)
LEMMA WeightSame ==
  ASSUME NEW w, NEW v, NEW S, IsFiniteSet(S), \A x \in S : w[x] = v[x]
  PROVE  WeightOf(w, S) = WeightOf(v, S)
<1>1. PICK f : SumsUp(w, S, f)
  BY FoldExists
<1>2. \A s \in SUBSET S : s # {} => w[Pick(s)] = v[Pick(s)]
  BY PickInside
<1>3. SumsUp(v, S, f)
  BY <1>1, <1>2 DEF SumsUp
<1> QED
  BY <1>1, <1>3, WeightSums

(* More elements that count for nothing less than 0.                       *)
LEMMA WeightGrows ==
  ASSUME NEW w, NEW S, IsFiniteSet(S), \A x \in S : w[x] \in Int,
         NEW T \in SUBSET S, \A x \in S \ T : w[x] >= 0
  PROVE  WeightOf(w, T) <= WeightOf(w, S)
<1> DEFINE C == {s \in SUBSET S : T \subseteq s
                                  /\ ~(WeightOf(w, T) <= WeightOf(w, s))}
<1> SUFFICES ASSUME C # {} PROVE FALSE
  OBVIOUS
<1> C \in SUBSET SUBSET S
  OBVIOUS
<1> HIDE DEF C
<1>1. PICK s \in C : \A u \in C : u \subseteq s => u = s
  BY SmallestSet
<1>2. /\ s \in SUBSET S /\ T \subseteq s /\ IsFiniteSet(s)
      /\ ~(WeightOf(w, T) <= WeightOf(w, s))
  BY <1>1, FS_Subset DEF C
<1>3. IsFiniteSet(T) /\ WeightOf(w, T) \in Int
  BY FS_Subset, WeightType
<1>4. s # T
  BY <1>2, <1>3
<1>5. PICK x \in s : x \notin T
  BY <1>2, <1>4
<1> DEFINE d == s \ {x}
<1>6. d \in SUBSET S /\ T \subseteq d /\ d \subseteq s /\ d # s /\ IsFiniteSet(d)
  BY <1>2, <1>5, FS_Subset
<1>7. WeightOf(w, T) <= WeightOf(w, d)
  BY <1>1, <1>6 DEF C
<1>8. WeightOf(w, s) = w[x] + WeightOf(w, d)
  BY <1>2, WeightApart
<1>9. WeightOf(w, d) \in Int /\ w[x] \in Int /\ w[x] >= 0
  BY <1>2, <1>5, <1>6, WeightType
<1> HIDE DEF d
<1> QED
  BY <1>2, <1>3, <1>7, <1>8, <1>9

(* Elements that count for m at most.                                      *)
LEMMA WeightBounded ==
  ASSUME NEW w, NEW S, IsFiniteSet(S), NEW m \in Int,
         \A x \in S : w[x] \in Int /\ w[x] <= m
  PROVE  WeightOf(w, S) <= Cardinality(S) * m
<1> DEFINE C == {s \in SUBSET S : ~(WeightOf(w, s) <= Cardinality(s) * m)}
<1> SUFFICES ASSUME C # {} PROVE FALSE
  OBVIOUS
<1> C \in SUBSET SUBSET S
  OBVIOUS
<1> HIDE DEF C
<1>1. PICK s \in C : \A u \in C : u \subseteq s => u = s
  BY SmallestSet
<1>2. s \in SUBSET S /\ IsFiniteSet(s) /\ ~(WeightOf(w, s) <= Cardinality(s) * m)
  BY <1>1, FS_Subset DEF C
<1>3. s # {}
  <2> SUFFICES ASSUME s = {} PROVE FALSE
    OBVIOUS
  <2>1. WeightOf(w, s) = 0 /\ Cardinality(s) = 0
    BY WeightOfNone, FS_EmptySet
  <2> QED
    BY <1>2, <2>1
<1>4. PICK x \in s : TRUE
  BY <1>3
<1> DEFINE d == s \ {x}
<1>5. d \in SUBSET S /\ d \subseteq s /\ d # s
  BY <1>2
<1>6. IsFiniteSet(d) /\ Cardinality(d) = Cardinality(s) - 1
  BY <1>2, FS_RemoveElement
<1>7. WeightOf(w, s) = w[x] + WeightOf(w, d)
  BY <1>2, WeightApart
<1> HIDE DEF d
<1>8. WeightOf(w, d) <= Cardinality(d) * m
  BY <1>1, <1>5 DEF C
<1>9. WeightOf(w, d) \in Int /\ w[x] \in Int /\ w[x] <= m
  BY <1>2, <1>5, <1>6, WeightType
<1> DEFINE c == Cardinality(d)
           k == Cardinality(s)
<1>10. c \in Nat /\ k \in Nat
  BY <1>2, <1>6, FS_CardinalityType
<1>11. k = c + 1 /\ WeightOf(w, d) <= c * m /\ ~(WeightOf(w, s) <= k * m)
  BY <1>2, <1>6, <1>8, <1>10
<1> HIDE DEF c, k
<1>12. k * m = c * m + m /\ c * m \in Int
  BY <1>10, <1>11
<1> QED
  BY <1>7, <1>9, <1>11, <1>12

(* The two sums of PeakRam.                                                *)
LEMMA RamSum ==
  ASSUME NEW rs, NEW S, IsFiniteSet(S), NEW w, \A r \in S : w[r] = rs[r].ram
  PROVE  MapThenSumSet(LAMBDA r : rs[r].ram, S) = WeightOf(w, S)
<1> DEFINE Q(g) == g = [s \in SUBSET S |-> IF s = {} THEN 0
                          ELSE rs[CHOOSE x \in s : TRUE].ram
                               + g[s \ {CHOOSE x \in s : TRUE}]]
<1>1. MapThenSumSet(LAMBDA r : rs[r].ram, S) = (CHOOSE g : Q(g))[S]
  BY Zenon DEF MapThenSumSet, MapThenFoldSet
<1>2. \A s \in SUBSET S : s # {} => w[Pick(s)] = rs[Pick(s)].ram
  BY PickInside
<1>3. \A g : Q(g) <=> SumsUp(w, S, g)
  BY <1>2 DEF SumsUp, Pick
<1>4. PICK f : SumsUp(w, S, f)
  BY FoldExists
<1> HIDE DEF Q
<1>5. Q(CHOOSE g : Q(g))
  BY <1>3, <1>4, Zenon
<1> QED
  BY <1>1, <1>3, <1>5, WeightSums

LEMMA DeltaSum ==
  ASSUME NEW S, IsFiniteSet(S), NEW w, \A d \in S : w[d] = d.delta
  PROVE  MapThenSumSet(LAMBDA d : d.delta, S) = WeightOf(w, S)
<1> DEFINE Q(g) == g = [s \in SUBSET S |-> IF s = {} THEN 0
                          ELSE (CHOOSE x \in s : TRUE).delta
                               + g[s \ {CHOOSE x \in s : TRUE}]]
<1>1. MapThenSumSet(LAMBDA d : d.delta, S) = (CHOOSE g : Q(g))[S]
  BY Zenon DEF MapThenSumSet, MapThenFoldSet
<1>2. \A s \in SUBSET S : s # {} => w[Pick(s)] = Pick(s).delta
  BY PickInside
<1>3. \A g : Q(g) <=> SumsUp(w, S, g)
  BY <1>2 DEF SumsUp, Pick
<1>4. PICK f : SumsUp(w, S, f)
  BY FoldExists
<1> HIDE DEF Q
<1>5. Q(CHOOSE g : Q(g))
  BY <1>3, <1>4, Zenon
<1> QED
  BY <1>1, <1>3, <1>5, WeightSums

-----------------------------------------------------------------------------
(***************************************************************************)
(* The events of a list of reservations that touch the window: where each  *)
(* row comes and goes, once it is clipped to the window.                   *)
(***************************************************************************)
IsList(rs) ==
  /\ rs = [r \in DOMAIN rs |-> rs[r]]
  /\ IsFiniteSet(DOMAIN rs) /\ DOMAIN rs \subseteq Int
  /\ \A r \in DOMAIN rs : /\ rs[r].start \in Int /\ rs[r].end \in Int
                          /\ rs[r].ram \in Nat
RamOf(rs) == [r \in DOMAIN rs |-> rs[r].ram]

Comes(rs, from, r) == Larger(rs[r].start, from)
Goes(rs, to, r) == Smaller(rs[r].end, to)
Inside(rs, from, to) ==
  {r \in DOMAIN rs : Comes(rs, from, r) < Goes(rs, to, r)}
Coming(rs, from, r) ==
  [time |-> Comes(rs, from, r), pos |-> 2 * r, delta |-> rs[r].ram]
Going(rs, to, r) ==
  [time |-> Goes(rs, to, r), pos |-> 2 * r + 1, delta |-> -rs[r].ram]

LEMMA EventsOfRows ==
  ASSUME NEW rs, NEW from, NEW to
  PROVE  /\ \A r \in Inside(rs, from, to) :
              /\ Coming(rs, from, r) \in Events(rs, from, to)
              /\ Going(rs, to, r) \in Events(rs, from, to)
         /\ \A d \in Events(rs, from, to) : \E r \in Inside(rs, from, to) :
              d \in {Coming(rs, from, r), Going(rs, to, r)}
<1>1. Events(rs, from, to) =
        UNION {{Coming(rs, from, r), Going(rs, to, r)} :
                 r \in Inside(rs, from, to)}
  BY DEF Events, Coming, Going, Inside, Comes, Goes
<1> QED
  BY <1>1

LEMMA EventFields ==
  ASSUME NEW rs, IsList(rs), NEW from \in Int, NEW to \in Int,
         NEW r \in DOMAIN rs
  PROVE  /\ Comes(rs, from, r) \in Int /\ Goes(rs, to, r) \in Int
         /\ Comes(rs, from, r) >= from /\ Goes(rs, to, r) <= to
         /\ Comes(rs, from, r) \in {rs[r].start, from}
         /\ Goes(rs, to, r) \in {rs[r].end, to}
         /\ Comes(rs, from, r) >= rs[r].start /\ Goes(rs, to, r) <= rs[r].end
         /\ Coming(rs, from, r).time = Comes(rs, from, r)
         /\ Coming(rs, from, r).pos = 2 * r
         /\ Coming(rs, from, r).delta = rs[r].ram
         /\ Going(rs, to, r).time = Goes(rs, to, r)
         /\ Going(rs, to, r).pos = 2 * r + 1
         /\ Going(rs, to, r).delta = -rs[r].ram
         /\ r \in Int /\ rs[r].ram \in Nat
  BY DEF IsList, Comes, Goes, Coming, Going, Larger, Smaller

(* No two rows have an event in common, and no row comes when it goes.     *)
LEMMA EventsDiffer ==
  ASSUME NEW rs, IsList(rs), NEW from \in Int, NEW to \in Int,
         NEW r \in DOMAIN rs, NEW q \in DOMAIN rs
  PROVE  /\ Coming(rs, from, r) # Going(rs, to, q)
         /\ r # q => /\ Coming(rs, from, r) # Coming(rs, from, q)
                     /\ Going(rs, to, r) # Going(rs, to, q)
<1>1. /\ Coming(rs, from, r).pos = 2 * r /\ Going(rs, to, q).pos = 2 * q + 1
      /\ Coming(rs, from, q).pos = 2 * q /\ Going(rs, to, r).pos = 2 * r + 1
      /\ r \in Int /\ q \in Int
  BY DEF IsList, Coming, Going
<1>2. 2 * r # 2 * q + 1 /\ (r # q => 2 * r # 2 * q /\ 2 * r + 1 # 2 * q + 1)
  BY <1>1
<1> QED
  BY <1>1, <1>2

LEMMA ImageIsFinite ==
  ASSUME NEW S, IsFiniteSet(S), NEW f
  PROVE  IsFiniteSet({f[x] : x \in S})
<1> DEFINE g == [x \in S |-> f[x]]
<1>1. g \in Surjection(S, {f[x] : x \in S})
  BY DEF Surjection
<1> QED
  BY <1>1, FS_Surjection

LEMMA EventsAreFinite ==
  ASSUME NEW rs, IsList(rs), NEW from, NEW to
  PROVE  IsFiniteSet(Events(rs, from, to))
<1> DEFINE f == [r \in Inside(rs, from, to) |-> Coming(rs, from, r)]
           g == [r \in Inside(rs, from, to) |-> Going(rs, to, r)]
           F == {f[r] : r \in Inside(rs, from, to)}
           G == {g[r] : r \in Inside(rs, from, to)}
<1>1. IsFiniteSet(Inside(rs, from, to))
  BY FS_Subset DEF IsList, Inside
<1>2. IsFiniteSet(F) /\ IsFiniteSet(G)
  BY <1>1, ImageIsFinite
<1>3. Events(rs, from, to) \subseteq F \cup G
  BY EventsOfRows
<1>4. IsFiniteSet(F \cup G)
  <2> HIDE DEF F, G
  <2> QED
    BY <1>2, FS_Union
<1> QED
  BY <1>3, <1>4, FS_Subset

(***************************************************************************)
(* A set P of events in which nobody goes who has not come sums to the RAM *)
(* of the rows that have come and not gone.                                *)
(***************************************************************************)
Deltas(rs, from, to) == [d \in Events(rs, from, to) |-> d.delta]
Present(rs, from, to, P) ==
  {r \in Inside(rs, from, to) :
     Coming(rs, from, r) \in P /\ Going(rs, to, r) \notin P}

LEMMA SumOfEvents ==
  ASSUME NEW rs, IsList(rs), NEW from \in Int, NEW to \in Int,
         NEW P \in SUBSET Events(rs, from, to),
         \A r \in Inside(rs, from, to) :
           Going(rs, to, r) \in P => Coming(rs, from, r) \in P
  PROVE  WeightOf(Deltas(rs, from, to), P)
           = WeightOf(RamOf(rs), Present(rs, from, to, P))
<1> DEFINE I == Inside(rs, from, to)
           cm(r) == Coming(rs, from, r)
           gn(r) == Going(rs, to, r)
           D == Deltas(rs, from, to)
           W == RamOf(rs)
           EvP(R) == {d \in P : \E r \in R : d \in {cm(r), gn(r)}}
           Now(R) == Present(rs, from, to, P) \cap R
<1>1. /\ I \subseteq DOMAIN rs /\ IsFiniteSet(I) /\ IsFiniteSet(P)
      /\ \A r \in I : W[r] = rs[r].ram /\ W[r] \in Int
  <2>1. I \subseteq DOMAIN rs /\ IsFiniteSet(DOMAIN rs)
    BY DEF IsList, Inside
  <2>2. IsFiniteSet(I) /\ IsFiniteSet(P)
    BY <2>1, EventsAreFinite, FS_Subset
  <2>3. \A r \in I : W[r] = rs[r].ram /\ W[r] \in Int
    BY <2>1 DEF IsList, RamOf
  <2> QED
    BY <2>1, <2>2, <2>3
<1>2. \A d \in P : D[d] = d.delta
  BY DEF Deltas
<1>3. \A r \in I : /\ cm(r) \in P => D[cm(r)] = W[r]
                   /\ gn(r) \in P => D[gn(r)] = -W[r]
  <2>1. \A r \in I : cm(r).delta = rs[r].ram /\ gn(r).delta = -rs[r].ram
    BY DEF Coming, Going
  <2> HIDE DEF I, cm, gn, D, W
  <2> QED
    BY <1>1, <1>2, <2>1
<1>4. \A d \in P : D[d] \in Int
  <2> SUFFICES ASSUME NEW d \in P PROVE D[d] \in Int
    OBVIOUS
  <2>1. PICK r \in I : d \in {cm(r), gn(r)}
    BY EventsOfRows
  <2>2. -W[r] \in Int
    BY <1>1
  <2> QED
    BY <1>1, <1>3, <2>1, <2>2
<1>5. \A r, q \in I : cm(r) # gn(q) /\ (r # q => cm(r) # cm(q) /\ gn(r) # gn(q))
  BY <1>1, EventsDiffer
<1>6. \A r \in I : gn(r) \in P => cm(r) \in P
  OBVIOUS
<1>7. Present(rs, from, to, P) = {r \in I : cm(r) \in P /\ gn(r) \notin P}
  BY DEF Present
<1> HIDE DEF I, cm, gn, D, W
<1> DEFINE C == {R \in SUBSET I : WeightOf(D, EvP(R)) # WeightOf(W, Now(R))}
<1>8. C = {}
  <2> SUFFICES ASSUME C # {} PROVE FALSE
    OBVIOUS
  <2> C \in SUBSET SUBSET I
    OBVIOUS
  <2> HIDE DEF C
  <2>1. PICK R \in C : \A u \in C : u \subseteq R => u = R
    BY <1>1, SmallestSet
  <2>2. R \in SUBSET I /\ WeightOf(D, EvP(R)) # WeightOf(W, Now(R))
    BY <2>1 DEF C
  <2>3. R # {}
    <3>1. EvP({}) = {} /\ Now({}) = {}
      OBVIOUS
    <3> QED
      BY <2>2, <3>1, WeightOfNone
  <2>4. PICK r \in R : TRUE
    BY <2>3
  <2> DEFINE Q == R \ {r}
  <2>5. Q \in SUBSET I /\ Q # R /\ Q \subseteq R /\ r \in I
    BY <2>2, <2>4
  <2>6. WeightOf(D, EvP(Q)) = WeightOf(W, Now(Q))
    BY <2>1, <2>5 DEF C
  <2>7. /\ IsFiniteSet(EvP(R)) /\ IsFiniteSet(EvP(Q))
        /\ IsFiniteSet(Now(R)) /\ IsFiniteSet(Now(Q))
    <3>1. /\ EvP(R) \in SUBSET P /\ EvP(Q) \in SUBSET P
          /\ Now(R) \in SUBSET I /\ Now(Q) \in SUBSET I
      BY <2>2, <2>5
    <3> HIDE DEF EvP, Now
    <3> QED
      BY <1>1, <3>1, FS_Subset
  <2>8. /\ \A d \in EvP(R) : D[d] \in Int
        /\ \A x \in Now(R) : W[x] \in Int
        /\ \A d \in EvP(Q) : D[d] \in Int
    BY <1>1, <1>4, <2>2
  <2>9. cm(r) \notin EvP(Q) /\ gn(r) \notin EvP(Q)
    BY <1>5, <2>2, <2>5
  <2>10. CASE cm(r) \notin P
    <3>1. EvP(R) = EvP(Q)
      BY <1>6, <2>4, <2>5, <2>10
    <3>2. Now(R) = Now(Q)
      BY <1>7, <2>4, <2>10
    <3> QED
      BY <2>2, <2>6, <3>1, <3>2
  <2>11. CASE cm(r) \in P /\ gn(r) \notin P
    <3>1. cm(r) \in EvP(R) /\ EvP(R) \ {cm(r)} = EvP(Q)
      BY <2>4, <2>9, <2>11
    <3>2. r \in Now(R) /\ Now(R) \ {r} = Now(Q)
      BY <1>7, <2>4, <2>5, <2>11
    <3> HIDE DEF EvP, Now, Q
    <3>3. WeightOf(D, EvP(R)) = D[cm(r)] + WeightOf(D, EvP(Q))
      BY <2>7, <2>8, <3>1, WeightApart
    <3>4. WeightOf(W, Now(R)) = W[r] + WeightOf(W, Now(Q))
      BY <2>7, <2>8, <3>2, WeightApart
    <3> QED
      BY <1>3, <2>2, <2>5, <2>6, <2>11, <3>3, <3>4
  <2>12. CASE gn(r) \in P
    <3>0. cm(r) \in P /\ cm(r) # gn(r)
      BY <1>5, <1>6, <2>5, <2>12
    <3> DEFINE E == EvP(R) \ {gn(r)}
    <3>1. gn(r) \in EvP(R)
      BY <2>4, <2>12
    <3>2. cm(r) \in E /\ E \ {cm(r)} = EvP(Q)
      BY <2>4, <2>9, <3>0
    <3>3. Now(R) = Now(Q)
      BY <1>7, <2>4, <2>12
    <3>4. E \in SUBSET EvP(R)
      OBVIOUS
    <3> HIDE DEF EvP, Now, Q
    <3>5. WeightOf(D, EvP(R)) = D[gn(r)] + WeightOf(D, E)
      BY <2>7, <2>8, <3>1, WeightApart
    <3>6. IsFiniteSet(E) /\ \A d \in E : D[d] \in Int
      BY <2>7, <2>8, <3>4, FS_Subset
    <3> HIDE DEF E
    <3>7. WeightOf(D, E) = D[cm(r)] + WeightOf(D, EvP(Q))
      BY <3>2, <3>6, WeightApart
    <3>8. WeightOf(D, EvP(Q)) \in Int
      BY <2>7, <2>8, WeightType
    <3>9. D[cm(r)] = W[r] /\ D[gn(r)] = -W[r] /\ W[r] \in Int
      BY <1>1, <1>3, <2>5, <2>12, <3>0
    <3>10. WeightOf(D, EvP(R)) = WeightOf(D, EvP(Q))
      BY <3>5, <3>7, <3>8, <3>9
    <3> QED
      BY <2>2, <2>6, <3>3, <3>10
  <2> QED
    BY <2>10, <2>11, <2>12
<1>9. WeightOf(D, EvP(I)) = WeightOf(W, Now(I))
  <2>1. I \in SUBSET I
    OBVIOUS
  <2> QED
    BY <1>8, <2>1
<1>10. EvP(I) = P
  BY EventsOfRows DEF I, cm, gn
<1>11. Now(I) = Present(rs, from, to, P)
  BY <1>7
<1> QED
  BY <1>9, <1>10, <1>11 DEF D, W

-----------------------------------------------------------------------------
(***************************************************************************)
(* The peak is the largest amount of RAM present after some event.         *)
(***************************************************************************)
LEMMA MaxOfFinite ==
  ASSUME NEW S, IsFiniteSet(S), S # {}, \A x \in S : x \in Int
  PROVE  Max(S) \in S /\ \A y \in S : Max(S) >= y
<1> DEFINE C == {s \in SUBSET S :
                   s # {} /\ ~\E m \in s : \A y \in s : m >= y}
<1>1. C = {}
  <2> SUFFICES ASSUME C # {} PROVE FALSE
    OBVIOUS
  <2> C \in SUBSET SUBSET S
    OBVIOUS
  <2> HIDE DEF C
  <2>1. PICK s \in C : \A u \in C : u \subseteq s => u = s
    BY SmallestSet
  <2>2. /\ \A y \in s : y \in Int
        /\ s \in SUBSET S /\ s # {}
        /\ ~\E m \in s : \A y \in s : m >= y
    BY <2>1 DEF C
  <2>3. PICK x \in s : TRUE
    BY <2>2
  <2> DEFINE d == s \ {x}
  <2>4. d \in SUBSET S /\ d \subseteq s /\ d # s
    BY <2>2, <2>3
  <2>5. d # {} => \E m \in d : \A y \in d : m >= y
    BY <2>1, <2>4 DEF C
  <2>6. CASE d = {}
    <3>1. \A y \in s : x >= y
      BY <2>2, <2>3, <2>6
    <3> QED
      BY <2>2, <2>3, <3>1
  <2>7. CASE d # {}
    <3>1. PICK m \in d : \A y \in d : m >= y
      BY <2>5, <2>7
    <3>2. m \in Int /\ x \in Int /\ m \in s /\ \A y \in s : y \in Int
      BY <2>2, <2>3, <3>1
    <3>3. CASE m >= x
      <4>1. \A y \in s : m >= y
        BY <3>1, <3>3
      <4> QED
        BY <2>2, <3>2, <4>1
    <3>4. CASE ~(m >= x)
      <4>1. \A y \in s : x >= y
        BY <3>1, <3>2, <3>4
      <4> QED
        BY <2>2, <2>3, <4>1
    <3> QED
      BY <3>3, <3>4
  <2> QED
    BY <2>6, <2>7
<1>2. S \notin C
  BY <1>1
<1>3. \E m \in S : \A y \in S : m >= y
  BY <1>2
<1> QED
  BY <1>3 DEF Max

(* The events that are summed by the time of e.                            *)
Until(rs, from, to, e) == {d \in Events(rs, from, to) : NoLater(d, e)}
PresentAfter(rs, from, to, e) ==
  Present(rs, from, to, Until(rs, from, to, e))

LEMMA PresentRows ==
  ASSUME NEW rs, NEW from, NEW to, NEW e
  PROVE  PresentAfter(rs, from, to, e) =
           {r \in Inside(rs, from, to) :
              /\ NoLater(Coming(rs, from, r), e)
              /\ ~NoLater(Going(rs, to, r), e)}
  BY EventsOfRows DEF PresentAfter, Present, Until

LEMMA EventTimes ==
  ASSUME NEW rs, IsList(rs), NEW from \in Int, NEW to \in Int,
         NEW e \in Events(rs, from, to)
  PROVE  /\ e.time \in Int /\ e.pos \in Int
         /\ \E r \in Inside(rs, from, to) :
              \/ e = Coming(rs, from, r) /\ e.pos = 2 * r
                   /\ e.time = Comes(rs, from, r)
              \/ e = Going(rs, to, r) /\ e.pos = 2 * r + 1
                   /\ e.time = Goes(rs, to, r)
<1>1. PICK r \in Inside(rs, from, to) :
        e \in {Coming(rs, from, r), Going(rs, to, r)}
  BY EventsOfRows
<1>2. /\ r \in Int
      /\ Comes(rs, from, r) \in Int /\ Goes(rs, to, r) \in Int
  BY EventFields DEF Inside, IsList
<1> QED
  BY <1>1, <1>2 DEF Coming, Going

LEMMA RunningSum ==
  ASSUME NEW rs, IsList(rs), NEW from \in Int, NEW to \in Int,
         NEW e \in Events(rs, from, to)
  PROVE  MapThenSumSet(LAMBDA d : d.delta, Until(rs, from, to, e))
           = WeightOf(RamOf(rs), PresentAfter(rs, from, to, e))
<1> DEFINE P == Until(rs, from, to, e)
<1>1. P \in SUBSET Events(rs, from, to) /\ IsFiniteSet(P)
  BY EventsAreFinite, FS_Subset DEF Until
<1>2. \A d \in P : Deltas(rs, from, to)[d] = d.delta
  BY DEF Until, Deltas
<1>3. ASSUME NEW r \in Inside(rs, from, to), Going(rs, to, r) \in P
      PROVE  Coming(rs, from, r) \in P
  <2>1. /\ Coming(rs, from, r).time \in Int /\ Going(rs, to, r).time \in Int
        /\ Coming(rs, from, r).time < Going(rs, to, r).time
    BY EventFields DEF Inside
  <2>2. e.time \in Int
    BY EventTimes
  <2>3. NoLater(Going(rs, to, r), e)
    BY <1>3 DEF Until
  <2>4. NoLater(Coming(rs, from, r), e)
    BY <2>1, <2>2, <2>3 DEF NoLater
  <2> QED
    BY <2>4, EventsOfRows DEF Until
<1>4. WeightOf(Deltas(rs, from, to), P)
        = WeightOf(RamOf(rs), PresentAfter(rs, from, to, e))
  <2> HIDE DEF P
  <2>1. WeightOf(Deltas(rs, from, to), P)
          = WeightOf(RamOf(rs), Present(rs, from, to, P))
    BY <1>1, <1>3, SumOfEvents
  <2> QED
    BY <2>1 DEF PresentAfter, P
<1>5. MapThenSumSet(LAMBDA d : d.delta, P) = WeightOf(Deltas(rs, from, to), P)
  <2> HIDE DEF P
  <2> QED
    BY <1>1, <1>2, DeltaSum, Zenon
<1> QED
  BY <1>4, <1>5

LEMMA RamInts ==
  ASSUME NEW rs, IsList(rs), NEW S \in SUBSET DOMAIN rs
  PROVE  /\ IsFiniteSet(S) /\ \A r \in S : /\ RamOf(rs)[r] = rs[r].ram
                                           /\ RamOf(rs)[r] \in Int
                                           /\ RamOf(rs)[r] >= 0
         /\ WeightOf(RamOf(rs), S) \in Int
<1>1. IsFiniteSet(S)
  BY FS_Subset DEF IsList
<1>2. \A r \in S : /\ RamOf(rs)[r] = rs[r].ram
                   /\ RamOf(rs)[r] \in Int /\ RamOf(rs)[r] >= 0
  BY DEF IsList, RamOf
<1> QED
  BY <1>1, <1>2, WeightType

LEMMA PeakOfEvents ==
  ASSUME NEW rs, IsList(rs), NEW from \in Int, NEW to \in Int
  PROVE  /\ PeakConcurrentRam(rs, from, to) \in Int
         /\ PeakConcurrentRam(rs, from, to) >= 0
         /\ \A e \in Events(rs, from, to) :
              PeakConcurrentRam(rs, from, to) >=
                WeightOf(RamOf(rs), PresentAfter(rs, from, to, e))
         /\ \/ PeakConcurrentRam(rs, from, to) = 0
            \/ \E e \in Events(rs, from, to) :
                 PeakConcurrentRam(rs, from, to) =
                   WeightOf(RamOf(rs), PresentAfter(rs, from, to, e))
<1> DEFINE ev == Events(rs, from, to)
           sum(e) == MapThenSumSet(LAMBDA d : d.delta, Until(rs, from, to, e))
           f == [e \in ev |-> WeightOf(RamOf(rs), PresentAfter(rs, from, to, e))]
           S == {f[e] : e \in ev}
<1>1. PeakConcurrentRam(rs, from, to) = Max({0} \cup {sum(e) : e \in ev})
  BY Zenon DEF PeakConcurrentRam, Until
<1>2. \A e \in ev : sum(e) = f[e]
  BY RunningSum
<1>3. \A e \in ev : f[e] \in Int
  <2>1. \A e \in ev : PresentAfter(rs, from, to, e) \in SUBSET DOMAIN rs
    BY DEF PresentAfter, Present, Inside
  <2> QED
    BY <2>1, RamInts
<1>4. IsFiniteSet(ev)
  BY EventsAreFinite
<1> HIDE DEF sum, ev, f
<1>5. {sum(e) : e \in ev} = S
  BY <1>2
<1>6. {0} \cup S \in SUBSET Int
  BY <1>3
<1>7. IsFiniteSet({0} \cup S)
  <2>1. IsFiniteSet({0}) /\ IsFiniteSet(S)
    <3>1. IsFiniteSet({0})
      BY FS_Singleton
    <3> QED
      BY <1>4, <3>1, ImageIsFinite
  <2> HIDE DEF S
  <2> QED
    BY <2>1, FS_Union
<1> DEFINE m == Max({0} \cup S)
<1>8. m \in {0} \cup S /\ \A y \in {0} \cup S : m >= y
  <2> HIDE DEF S
  <2> QED
    BY <1>6, <1>7, MaxOfFinite
<1>9. PeakConcurrentRam(rs, from, to) = m
  BY <1>1, <1>5
<1> HIDE DEF m
<1>10. /\ m \in Int /\ m >= 0 /\ \A e \in ev : m >= f[e]
       /\ m = 0 \/ \E e \in ev : m = f[e]
  BY <1>6, <1>8
<1> QED
  BY <1>9, <1>10 DEF f, ev

-----------------------------------------------------------------------------
(***************************************************************************)
(* What is really held at an instant, and its largest value in a window.   *)
(***************************************************************************)
ActiveAt(rs, t) == {r \in DOMAIN rs : rs[r].start <= t /\ t < rs[r].end}

LEMMA UsageOfActive ==
  ASSUME NEW rs, IsList(rs), NEW t
  PROVE  /\ UsageAt(rs, t) = WeightOf(RamOf(rs), ActiveAt(rs, t))
         /\ UsageAt(rs, t) \in Int /\ UsageAt(rs, t) >= 0
<1> DEFINE S == ActiveAt(rs, t)
           w == RamOf(rs)
<1>1. S \in SUBSET DOMAIN rs
  BY DEF ActiveAt
<1>2. UsageAt(rs, t) = MapThenSumSet(LAMBDA r : rs[r].ram, S)
  BY Zenon DEF UsageAt, ActiveAt
<1> HIDE DEF S
<1>3. /\ IsFiniteSet(S) /\ WeightOf(w, S) \in Int
      /\ \A r \in S : w[r] = rs[r].ram /\ w[r] \in Int /\ w[r] >= 0
  BY <1>1, RamInts
<1> HIDE DEF w
<1>4. MapThenSumSet(LAMBDA r : rs[r].ram, S) = WeightOf(w, S)
  BY <1>3, RamSum, Zenon
<1>5. WeightOf(w, {}) = 0 /\ {} \in SUBSET S
  BY WeightOfNone
<1>6. WeightOf(w, {}) <= WeightOf(w, S)
  BY <1>3, <1>5, WeightGrows
<1>7. WeightOf(w, S) >= 0
  BY <1>3, <1>5, <1>6
<1> QED
  BY <1>2, <1>3, <1>4, <1>7 DEF S, w

LEMMA TruePeakIs ==
  ASSUME NEW rs, IsList(rs), NEW from \in Int, NEW to \in Int
  PROVE  /\ TruePeak(rs, from, to) \in Int /\ TruePeak(rs, from, to) >= 0
         /\ \A t \in from..(to - 1) : TruePeak(rs, from, to) >= UsageAt(rs, t)
         /\ \/ TruePeak(rs, from, to) = 0
            \/ \E t \in from..(to - 1) : TruePeak(rs, from, to) = UsageAt(rs, t)
<1> DEFINE T == from..(to - 1)
           f == [t \in T |-> UsageAt(rs, t)]
           S == {f[t] : t \in T}
           m == Max({0} \cup S)
<1>1. TruePeak(rs, from, to) = m
  <2>1. {UsageAt(rs, t) : t \in T} = S
    OBVIOUS
  <2> QED
    BY <2>1 DEF TruePeak
<1>2. IsFiniteSet(T)
  BY FS_Interval
<1>3. \A t \in T : f[t] = UsageAt(rs, t) /\ f[t] \in Int
  BY UsageOfActive
<1> HIDE DEF T, f
<1>4. IsFiniteSet({0} \cup S)
  <2>1. IsFiniteSet({0})
    BY FS_Singleton
  <2>2. IsFiniteSet(S)
    BY <1>2, ImageIsFinite
  <2> HIDE DEF S
  <2> QED
    BY <2>1, <2>2, FS_Union
<1>5. \A x \in {0} \cup S : x \in Int
  BY <1>3
<1>6. m \in {0} \cup S /\ \A y \in {0} \cup S : m >= y
  <2> HIDE DEF S
  <2> QED
    BY <1>4, <1>5, MaxOfFinite
<1> HIDE DEF m
<1>7. /\ m \in Int /\ m >= 0 /\ \A t \in T : m >= f[t]
      /\ m = 0 \/ \E t \in T : m = f[t]
  BY <1>5, <1>6
<1> QED
  BY <1>1, <1>3, <1>7 DEF T

(* Rows that are left out of the list do not count if they are not active. *)
LEMMA UsageOfPart ==
  ASSUME NEW rs, IsList(rs), NEW T \in SUBSET DOMAIN rs, NEW t,
         ActiveAt(rs, t) \subseteq T
  PROVE  UsageAt([r \in T |-> rs[r]], t) = UsageAt(rs, t)
<1> DEFINE p == [r \in T |-> rs[r]]
<1>1. IsList(p)
  BY FS_Subset DEF IsList
<1>2. ActiveAt(p, t) = ActiveAt(rs, t)
  BY DEF ActiveAt
<1>3. \A r \in ActiveAt(rs, t) : RamOf(p)[r] = RamOf(rs)[r]
  BY <1>2 DEF RamOf, ActiveAt
<1> HIDE DEF p
<1>4. ActiveAt(rs, t) \in SUBSET DOMAIN rs
  BY DEF ActiveAt
<1>5. IsFiniteSet(ActiveAt(rs, t))
  BY <1>4, RamInts
<1>6. WeightOf(RamOf(p), ActiveAt(rs, t)) = WeightOf(RamOf(rs), ActiveAt(rs, t))
  BY <1>3, <1>5, WeightSame
<1>7. /\ UsageAt(p, t) = WeightOf(RamOf(p), ActiveAt(p, t))
      /\ UsageAt(rs, t) = WeightOf(RamOf(rs), ActiveAt(rs, t))
  BY <1>1, UsageOfActive
<1> QED
  BY <1>2, <1>6, <1>7 DEF p

LEMMA PartIsList ==
  ASSUME NEW rs, IsList(rs), NEW T \in SUBSET DOMAIN rs
  PROVE  IsList([r \in T |-> rs[r]])
  BY FS_Subset DEF IsList

(* Rows that are all active at t hold no more than is held at t.           *)
LEMMA PresentIsHeld ==
  ASSUME NEW rs, IsList(rs), NEW t, NEW S \in SUBSET ActiveAt(rs, t)
  PROVE  WeightOf(RamOf(rs), S) <= UsageAt(rs, t)
<1>1. ActiveAt(rs, t) \in SUBSET DOMAIN rs
  BY DEF ActiveAt
<1>2. /\ IsFiniteSet(ActiveAt(rs, t))
      /\ \A r \in ActiveAt(rs, t) : /\ RamOf(rs)[r] \in Int
                                    /\ RamOf(rs)[r] >= 0
  BY <1>1, RamInts
<1>3. WeightOf(RamOf(rs), S) <= WeightOf(RamOf(rs), ActiveAt(rs, t))
  BY <1>2, WeightGrows
<1> QED
  BY <1>3, UsageOfActive

-----------------------------------------------------------------------------
(***************************************************************************)
(* The peak is never too low: after the last event until t, what is        *)
(* present is what is held at t.                                           *)
(***************************************************************************)
LEMMA LastEvent ==
  ASSUME NEW S, IsFiniteSet(S), S # {},
         \A d \in S : d.time \in Int /\ d.pos \in Int
  PROVE  \E e \in S : \A d \in S : NoLater(d, e)
<1> DEFINE C == {s \in SUBSET S :
                   s # {} /\ ~\E e \in s : \A d \in s : NoLater(d, e)}
<1>1. C = {}
  <2> SUFFICES ASSUME C # {} PROVE FALSE
    OBVIOUS
  <2> C \in SUBSET SUBSET S
    OBVIOUS
  <2> HIDE DEF C
  <2>1. PICK s \in C : \A u \in C : u \subseteq s => u = s
    BY SmallestSet
  <2>2. /\ \A d \in s : d.time \in Int /\ d.pos \in Int
        /\ s \in SUBSET S /\ s # {}
        /\ ~\E e \in s : \A d \in s : NoLater(d, e)
    BY <2>1 DEF C
  <2>3. PICK x \in s : TRUE
    BY <2>2
  <2> DEFINE u == s \ {x}
  <2>4. u \in SUBSET S /\ u \subseteq s /\ u # s
    BY <2>2, <2>3
  <2>5. u # {} => \E e \in u : \A d \in u : NoLater(d, e)
    BY <2>1, <2>4 DEF C
  <2>6. NoLater(x, x)
    BY <2>2 DEF NoLater
  <2>7. CASE u = {}
    BY <2>2, <2>3, <2>6, <2>7
  <2>8. CASE u # {}
    <3>1. PICK e \in u : \A d \in u : NoLater(d, e)
      BY <2>5, <2>8
    <3>2. CASE NoLater(x, e)
      BY <2>2, <3>1, <3>2
    <3>3. CASE ~NoLater(x, e)
      <4>1. \A d \in u : NoLater(d, x)
        BY <2>2, <2>3, <3>1, <3>3 DEF NoLater
      <4> QED
        BY <2>2, <2>6, <4>1
    <3> QED
      BY <3>2, <3>3
  <2> QED
    BY <2>7, <2>8
<1>2. S \notin C
  BY <1>1
<1> QED
  BY <1>2

LEMMA PeakAtLeastUsage ==
  ASSUME NEW rs, IsList(rs), NEW from \in Int, NEW to \in Int,
         NEW t \in from..(to - 1)
  PROVE  PeakConcurrentRam(rs, from, to) >= UsageAt(rs, t)
<1> DEFINE Q == {d \in Events(rs, from, to) : d.time <= t}
           A == ActiveAt(rs, t)
<1>1. \A r \in DOMAIN rs :
        /\ Comes(rs, from, r) \in Int /\ Goes(rs, to, r) \in Int
        /\ Comes(rs, from, r) <= t <=> rs[r].start <= t
        /\ Goes(rs, to, r) > t <=> t < rs[r].end
  BY DEF IsList, Comes, Goes, Larger, Smaller
<1>2. A \subseteq Inside(rs, from, to)
  BY <1>1 DEF ActiveAt, Inside
<1>3. CASE A = {}
  <2>1. UsageAt(rs, t) = 0
    BY <1>3, UsageOfActive, WeightOfNone
  <2> QED
    BY <2>1, PeakOfEvents
<1>4. CASE A # {}
  <2>1. Q # {}
    <3>1. PICK r \in A : TRUE
      BY <1>4
    <3>2. Coming(rs, from, r) \in Events(rs, from, to)
      BY <1>2, <3>1, EventsOfRows
    <3>3. Coming(rs, from, r).time <= t
      BY <1>1, <3>1 DEF Coming, ActiveAt
    <3> QED
      BY <3>2, <3>3
  <2>2. IsFiniteSet(Q)
    BY EventsAreFinite, FS_Subset
  <2>3. \A d \in Q : d.time \in Int /\ d.pos \in Int
    BY EventTimes
  <2>4. PICK e \in Q : \A d \in Q : NoLater(d, e)
    <3> HIDE DEF Q
    <3> QED
      BY <2>1, <2>2, <2>3, LastEvent
  <2>5. \A d \in Events(rs, from, to) : NoLater(d, e) <=> d.time <= t
    <3>1. \A d \in Events(rs, from, to) : d.time \in Int
      BY EventTimes
    <3> QED
      BY <2>4, <3>1 DEF NoLater
  <2>6. PresentAfter(rs, from, to, e) = A
    <3>1. \A r \in Inside(rs, from, to) :
            /\ NoLater(Coming(rs, from, r), e) <=> Comes(rs, from, r) <= t
            /\ NoLater(Going(rs, to, r), e) <=> Goes(rs, to, r) <= t
      BY <2>5, EventsOfRows DEF Coming, Going
    <3>2. \A r \in Inside(rs, from, to) :
            /\ NoLater(Coming(rs, from, r), e) <=> rs[r].start <= t
            /\ ~NoLater(Going(rs, to, r), e) <=> t < rs[r].end
      BY <1>1, <3>1 DEF Inside
    <3>3. \A r \in Inside(rs, from, to) : r \in DOMAIN rs
      BY DEF Inside
    <3> QED
      BY <1>2, <3>2, <3>3, PresentRows DEF ActiveAt
  <2>7. PeakConcurrentRam(rs, from, to) >= WeightOf(RamOf(rs), A)
    BY <2>4, <2>6, PeakOfEvents
  <2> QED
    BY <2>7, UsageOfActive
<1> QED
  BY <1>3, <1>4

-----------------------------------------------------------------------------
(***************************************************************************)
(* When the peak is exact.  What is present after an event e is active at  *)
(* the time of e, or it is active just before it, or somebody present goes *)
(* at the very time somebody present comes.                                *)
(***************************************************************************)
LEMMA PresentWhen ==
  ASSUME NEW rs, IsList(rs), NEW from \in Int, NEW to \in Int,
         NEW e \in Events(rs, from, to)
  PROVE  LET P == PresentAfter(rs, from, to, e)
         IN  /\ P \subseteq Inside(rs, from, to)
             /\ \A r \in P : /\ Comes(rs, from, r) <= e.time
                             /\ e.time <= Goes(rs, to, r)
                             /\ Comes(rs, from, r) = e.time => 2 * r <= e.pos
                             /\ Goes(rs, to, r) = e.time => e.pos < 2 * r + 1
<1> DEFINE P == PresentAfter(rs, from, to, e)
<1>1. \A r \in P : /\ r \in Inside(rs, from, to)
                   /\ NoLater(Coming(rs, from, r), e)
                   /\ ~NoLater(Going(rs, to, r), e)
  BY PresentRows
<1>2. e.time \in Int /\ e.pos \in Int
  BY EventTimes
<1> HIDE DEF P
<1>3. ASSUME NEW r \in P
      PROVE  /\ Comes(rs, from, r) <= e.time
             /\ e.time <= Goes(rs, to, r)
             /\ Comes(rs, from, r) = e.time => 2 * r <= e.pos
             /\ Goes(rs, to, r) = e.time => e.pos < 2 * r + 1
  <2>1. /\ Comes(rs, from, r) \in Int /\ Goes(rs, to, r) \in Int /\ r \in Int
        /\ Coming(rs, from, r).time = Comes(rs, from, r)
        /\ Coming(rs, from, r).pos = 2 * r
        /\ Going(rs, to, r).time = Goes(rs, to, r)
        /\ Going(rs, to, r).pos = 2 * r + 1
    BY <1>1, EventFields DEF Inside
  <2> QED
    BY <1>1, <1>2, <2>1 DEF NoLater
<1> QED
  BY <1>1, <1>3 DEF P

LEMMA PresentActive ==
  ASSUME NEW rs, IsList(rs), NEW from \in Int, NEW to \in Int,
         NEW P \in SUBSET Inside(rs, from, to), NEW t \in Int,
         \A r \in P : Comes(rs, from, r) <= t /\ t < Goes(rs, to, r)
  PROVE  /\ P \subseteq ActiveAt(rs, t)
         /\ P # {} => t \in from..(to - 1)
<1>1. ASSUME NEW r \in P
      PROVE  r \in ActiveAt(rs, t) /\ t \in from..(to - 1)
  <2>1. r \in DOMAIN rs
    BY DEF Inside
  <2>2. /\ Comes(rs, from, r) \in Int /\ Goes(rs, to, r) \in Int
        /\ Comes(rs, from, r) >= from /\ Goes(rs, to, r) <= to
        /\ Comes(rs, from, r) >= rs[r].start /\ Goes(rs, to, r) <= rs[r].end
        /\ rs[r].start \in Int /\ rs[r].end \in Int
    BY <2>1, EventFields DEF IsList
  <2> QED
    BY <1>1, <2>1, <2>2 DEF ActiveAt
<1> QED
  BY <1>1

LEMMA PresentOrTie ==
  ASSUME NEW rs, IsList(rs), NEW from \in Int, NEW to \in Int,
         NEW e \in Events(rs, from, to)
  PROVE  LET P == PresentAfter(rs, from, to, e)
         IN  \/ P = {}
             \/ \E t \in from..(to - 1) : P \subseteq ActiveAt(rs, t)
             \/ \E q, r \in P : Goes(rs, to, q) = e.time
                                /\ Comes(rs, from, r) = e.time
<1> DEFINE P == PresentAfter(rs, from, to, e)
<1>1. /\ P \subseteq Inside(rs, from, to)
      /\ \A r \in P : /\ Comes(rs, from, r) <= e.time
                      /\ e.time <= Goes(rs, to, r)
  BY PresentWhen
<1>2. e.time \in Int
  BY EventTimes
<1>3. \A r \in P : Comes(rs, from, r) \in Int /\ Goes(rs, to, r) \in Int
  BY <1>1, EventFields DEF Inside
<1> HIDE DEF P
<1>4. CASE \A q \in P : Goes(rs, to, q) # e.time
  <2>1. \A r \in P : Comes(rs, from, r) <= e.time /\ e.time < Goes(rs, to, r)
    BY <1>1, <1>2, <1>3, <1>4
  <2>2. /\ P \subseteq ActiveAt(rs, e.time)
        /\ P # {} => e.time \in from..(to - 1)
    BY <1>1, <1>2, <2>1, PresentActive
  <2> QED
    BY <2>2 DEF P
<1>5. CASE \A r \in P : Comes(rs, from, r) # e.time
  <2>1. e.time - 1 \in Int
    BY <1>2
  <2>2. \A r \in P : /\ Comes(rs, from, r) <= e.time - 1
                     /\ e.time - 1 < Goes(rs, to, r)
    BY <1>1, <1>2, <1>3, <1>5
  <2>3. /\ P \subseteq ActiveAt(rs, e.time - 1)
        /\ P # {} => e.time - 1 \in from..(to - 1)
    BY <1>1, <2>1, <2>2, PresentActive
  <2> QED
    BY <2>3 DEF P
<1> QED
  BY <1>4, <1>5 DEF P

(* If whoever goes is listed before whoever comes at that moment, then     *)
(* nobody is present who has left: the sum is of rows held together.       *)
LEMMA PeakExact ==
  ASSUME NEW rs, IsList(rs), NEW from \in Int, NEW to \in Int,
         \A q, r \in Inside(rs, from, to) :
           Goes(rs, to, q) = Comes(rs, from, r) => q < r
  PROVE  PeakConcurrentRam(rs, from, to) = TruePeak(rs, from, to)
<1> DEFINE p == PeakConcurrentRam(rs, from, to)
           m == TruePeak(rs, from, to)
<1>1. /\ p \in Int /\ p >= 0
      /\ \/ p = 0
         \/ \E e \in Events(rs, from, to) :
              p = WeightOf(RamOf(rs), PresentAfter(rs, from, to, e))
  BY PeakOfEvents
<1>2. /\ m \in Int /\ m >= 0
      /\ \A t \in from..(to - 1) : m >= UsageAt(rs, t)
      /\ m = 0 \/ \E t \in from..(to - 1) : m = UsageAt(rs, t)
  BY TruePeakIs
<1>3. p >= m
  BY <1>1, <1>2, PeakAtLeastUsage
<1>4. ASSUME NEW e \in Events(rs, from, to)
      PROVE  WeightOf(RamOf(rs), PresentAfter(rs, from, to, e)) <= m
  <2> DEFINE P == PresentAfter(rs, from, to, e)
  <2>1. \A r \in P : /\ r \in Inside(rs, from, to) /\ r \in Int
                     /\ Comes(rs, from, r) = e.time => 2 * r <= e.pos
                     /\ Goes(rs, to, r) = e.time => e.pos < 2 * r + 1
    BY PresentWhen DEF Inside, IsList
  <2>2. e.pos \in Int
    BY EventTimes
  <2> HIDE DEF P
  <2>3. ~\E q, r \in P : Goes(rs, to, q) = e.time /\ Comes(rs, from, r) = e.time
    <3> SUFFICES ASSUME NEW q \in P, NEW r \in P, Goes(rs, to, q) = e.time,
                        Comes(rs, from, r) = e.time
                 PROVE  FALSE
      OBVIOUS
    <3>1. q < r
      BY <2>1
    <3>2. e.pos < 2 * q + 1 /\ 2 * r <= e.pos /\ q \in Int /\ r \in Int
      BY <2>1
    <3> QED
      BY <2>2, <3>1, <3>2
  <2>4. CASE P = {}
    <3>1. WeightOf(RamOf(rs), P) = 0
      BY <2>4, WeightOfNone
    <3> QED
      BY <1>2, <3>1 DEF P
  <2>5. CASE \E t \in from..(to - 1) : P \subseteq ActiveAt(rs, t)
    <3>1. PICK t \in from..(to - 1) : P \in SUBSET ActiveAt(rs, t)
      BY <2>5
    <3>2. WeightOf(RamOf(rs), P) <= UsageAt(rs, t)
      BY <3>1, PresentIsHeld
    <3>3. P \in SUBSET DOMAIN rs
      BY <2>1 DEF Inside
    <3>4. WeightOf(RamOf(rs), P) \in Int /\ UsageAt(rs, t) \in Int
      BY <3>3, RamInts, UsageOfActive
    <3>5. UsageAt(rs, t) <= m
      BY <1>2, <3>1, <3>4
    <3> QED
      BY <1>2, <3>2, <3>4, <3>5 DEF P
  <2> QED
    BY <2>3, <2>4, <2>5, PresentOrTie DEF P
<1>5. m >= p
  BY <1>1, <1>2, <1>4
<1> QED
  BY <1>1, <1>2, <1>3, <1>5

(* A part of the window does not need more than the whole window.          *)
LEMMA PeakOfSubwindow ==
  ASSUME NEW rs, IsList(rs), NEW from \in Int, NEW to \in Int,
         NEW a \in Int, NEW b \in Int, from <= a, b <= to
  PROVE  PeakConcurrentRam(rs, a, b) <= PeakConcurrentRam(rs, from, to)
<1> DEFINE p == PeakConcurrentRam(rs, a, b)
           m == PeakConcurrentRam(rs, from, to)
<1>1. /\ p \in Int
      /\ \/ p = 0
         \/ \E e \in Events(rs, a, b) :
              p = WeightOf(RamOf(rs), PresentAfter(rs, a, b, e))
  BY PeakOfEvents
<1>2. /\ m \in Int /\ m >= 0
      /\ \A e \in Events(rs, from, to) :
           m >= WeightOf(RamOf(rs), PresentAfter(rs, from, to, e))
  BY PeakOfEvents
<1>3. \A r \in DOMAIN rs :
        /\ Comes(rs, a, r) \in Int /\ Goes(rs, b, r) \in Int
        /\ Comes(rs, from, r) \in Int /\ Goes(rs, to, r) \in Int
        /\ Comes(rs, from, r) <= Comes(rs, a, r)
        /\ Goes(rs, b, r) <= Goes(rs, to, r)
        /\ Comes(rs, a, r) > a => Comes(rs, from, r) = Comes(rs, a, r)
        /\ Goes(rs, b, r) < b => Goes(rs, to, r) = Goes(rs, b, r)
        /\ Comes(rs, a, r) >= a /\ Goes(rs, b, r) <= b
  BY DEF IsList, Comes, Goes, Larger, Smaller
<1>4. Inside(rs, a, b) \subseteq Inside(rs, from, to)
  BY <1>3 DEF Inside
<1>5. ASSUME NEW e \in Events(rs, a, b)
      PROVE  WeightOf(RamOf(rs), PresentAfter(rs, a, b, e)) <= m
  <2> DEFINE P == PresentAfter(rs, a, b, e)
  <2>1. /\ P \subseteq Inside(rs, a, b)
        /\ \A r \in P : /\ Comes(rs, a, r) <= e.time
                        /\ e.time <= Goes(rs, b, r)
                        /\ Comes(rs, a, r) = e.time => 2 * r <= e.pos
                        /\ Goes(rs, b, r) = e.time => e.pos < 2 * r + 1
    BY PresentWhen
  <2>2. P \in SUBSET DOMAIN rs
    BY <2>1 DEF Inside
  <2>3. WeightOf(RamOf(rs), P) \in Int
    BY <2>2, RamInts
  <2>4. CASE P = {}
    <3>1. WeightOf(RamOf(rs), P) = 0
      BY <2>4, WeightOfNone
    <3> QED
      BY <1>2, <3>1
  <2>5. CASE \E t \in a..(b - 1) : P \subseteq ActiveAt(rs, t)
    <3>1. PICK t \in a..(b - 1) : P \in SUBSET ActiveAt(rs, t)
      BY <2>5
    <3>2. WeightOf(RamOf(rs), P) <= UsageAt(rs, t)
      BY <3>1, PresentIsHeld
    <3>3. t \in from..(to - 1)
      BY <3>1
    <3>4. m >= UsageAt(rs, t)
      BY <3>3, PeakAtLeastUsage
    <3>5. UsageAt(rs, t) \in Int
      BY UsageOfActive
    <3> QED
      BY <1>2, <2>3, <3>2, <3>4, <3>5
  <2>6. CASE \E q, r \in P : Goes(rs, b, q) = e.time /\ Comes(rs, a, r) = e.time
    <3>1. PICK q \in P, r \in P :
            Goes(rs, b, q) = e.time /\ Comes(rs, a, r) = e.time
      BY <2>6
    <3>2. e.time \in Int /\ e.pos \in Int
      BY EventTimes
    <3>3. a < e.time /\ e.time < b
      <4>1. Comes(rs, a, q) < Goes(rs, b, q) /\ Comes(rs, a, r) < Goes(rs, b, r)
        BY <2>1 DEF Inside
      <4>2. q \in DOMAIN rs /\ r \in DOMAIN rs
        BY <2>2
      <4> HIDE DEF P
      <4> QED
        BY <1>3, <3>1, <3>2, <4>1, <4>2
    <3>4. e \in Events(rs, from, to)
      <4>1. PICK x \in Inside(rs, a, b) :
              \/ e = Coming(rs, a, x) /\ e.time = Comes(rs, a, x)
              \/ e = Going(rs, b, x) /\ e.time = Goes(rs, b, x)
        BY EventTimes
      <4>2. x \in DOMAIN rs /\ x \in Inside(rs, from, to)
        BY <1>4, <4>1 DEF Inside
      <4>3. CASE e = Coming(rs, a, x) /\ e.time = Comes(rs, a, x)
        <5>1. Comes(rs, from, x) = Comes(rs, a, x)
          BY <1>3, <3>3, <4>2, <4>3
        <5>2. e = Coming(rs, from, x)
          BY <4>3, <5>1 DEF Coming
        <5> QED
          BY <4>2, <5>2, EventsOfRows
      <4>4. CASE e = Going(rs, b, x) /\ e.time = Goes(rs, b, x)
        <5>1. Goes(rs, to, x) = Goes(rs, b, x)
          BY <1>3, <3>3, <4>2, <4>4
        <5>2. e = Going(rs, to, x)
          BY <4>4, <5>1 DEF Going
        <5> QED
          BY <4>2, <5>2, EventsOfRows
      <4> QED
        BY <4>1, <4>3, <4>4
    <3> DEFINE R == PresentAfter(rs, from, to, e)
    <3>5. P \subseteq R
      <4> SUFFICES ASSUME NEW x \in P PROVE x \in R
        OBVIOUS
      <4>1. /\ x \in DOMAIN rs /\ x \in Inside(rs, from, to) /\ x \in Int
            /\ Comes(rs, a, x) <= e.time /\ e.time <= Goes(rs, b, x)
            /\ Comes(rs, a, x) = e.time => 2 * x <= e.pos
            /\ Goes(rs, b, x) = e.time => e.pos < 2 * x + 1
        BY <1>4, <2>1, <2>2 DEF IsList
      <4>2. \/ Comes(rs, from, x) < e.time
            \/ Comes(rs, from, x) = e.time /\ 2 * x <= e.pos
        BY <1>3, <3>2, <3>3, <4>1
      <4>3. /\ e.time <= Goes(rs, to, x)
            /\ Goes(rs, to, x) = e.time => e.pos < 2 * x + 1
        BY <1>3, <3>2, <3>3, <4>1
      <4>4. NoLater(Coming(rs, from, x), e)
        BY <4>2 DEF NoLater, Coming
      <4>5. ~NoLater(Going(rs, to, x), e)
        <5>1. Goes(rs, to, x) \in Int
          BY <1>3, <4>1
        <5> QED
          BY <3>2, <4>1, <4>3, <5>1 DEF NoLater, Going
      <4> QED
        BY <4>1, <4>4, <4>5, PresentRows
    <3>6. R \in SUBSET DOMAIN rs
      BY PresentRows DEF Inside
    <3>7. /\ IsFiniteSet(R) /\ WeightOf(RamOf(rs), R) \in Int
          /\ \A x \in R : RamOf(rs)[x] \in Int /\ RamOf(rs)[x] >= 0
      BY <3>6, RamInts
    <3>8. m >= WeightOf(RamOf(rs), R)
      BY <1>2, <3>4
    <3> HIDE DEF P, R
    <3>9. WeightOf(RamOf(rs), P) <= WeightOf(RamOf(rs), R)
      BY <3>5, <3>7, WeightGrows
    <3> QED
      BY <1>2, <2>3, <3>7, <3>8, <3>9 DEF P
  <2> QED
    BY <2>4, <2>5, <2>6, PresentOrTie
<1> QED
  BY <1>1, <1>2, <1>5

(* Fewer rows hold no more, one more row holds what it asked for.          *)
LEMMA UsageShrinks ==
  ASSUME NEW rs, IsList(rs), NEW old, IsList(old), NEW t,
         ActiveAt(rs, t) \subseteq ActiveAt(old, t),
         \A r \in ActiveAt(rs, t) : rs[r].ram = old[r].ram
  PROVE  UsageAt(rs, t) <= UsageAt(old, t)
<1> DEFINE A == ActiveAt(rs, t)
<1>1. A \in SUBSET DOMAIN rs /\ A \in SUBSET DOMAIN old
  BY DEF ActiveAt
<1>2. UsageAt(rs, t) = WeightOf(RamOf(rs), A)
  BY UsageOfActive
<1>3. IsFiniteSet(A) /\ \A r \in A : RamOf(rs)[r] = rs[r].ram
  BY <1>1, RamInts
<1>4. \A r \in A : RamOf(old)[r] = old[r].ram
  BY <1>1, RamInts
<1>5. A \in SUBSET ActiveAt(old, t)
  OBVIOUS
<1>6. \A r \in A : rs[r].ram = old[r].ram
  OBVIOUS
<1> HIDE DEF A
<1>7. WeightOf(RamOf(rs), A) = WeightOf(RamOf(old), A)
  BY <1>3, <1>4, <1>6, WeightSame
<1>8. WeightOf(RamOf(old), A) <= UsageAt(old, t)
  BY <1>5, PresentIsHeld
<1> QED
  BY <1>2, <1>7, <1>8

LEMMA UsageAdds ==
  ASSUME NEW rs, IsList(rs), NEW old, IsList(old), NEW t, NEW q,
         ActiveAt(rs, t) = ActiveAt(old, t) \cup {q}, q \notin ActiveAt(old, t),
         \A r \in ActiveAt(old, t) : rs[r].ram = old[r].ram
  PROVE  UsageAt(rs, t) = UsageAt(old, t) + rs[q].ram
<1> DEFINE A == ActiveAt(rs, t)
           O == ActiveAt(old, t)
<1>1. A \in SUBSET DOMAIN rs /\ O \in SUBSET DOMAIN old /\ O \in SUBSET DOMAIN rs
  BY DEF ActiveAt
<1>2. UsageAt(rs, t) = WeightOf(RamOf(rs), A)
  BY UsageOfActive
<1>3. UsageAt(old, t) = WeightOf(RamOf(old), O) /\ UsageAt(old, t) \in Int
  BY UsageOfActive
<1>4. /\ IsFiniteSet(A)
      /\ \A r \in A : RamOf(rs)[r] = rs[r].ram /\ RamOf(rs)[r] \in Int
  BY <1>1, RamInts
<1>5. IsFiniteSet(O) /\ \A r \in O : RamOf(old)[r] = old[r].ram
  BY <1>1, RamInts
<1>6. /\ q \in A /\ A \ {q} = O
      /\ \A r \in O : r \in A /\ rs[r].ram = old[r].ram
  OBVIOUS
<1> HIDE DEF A, O
<1>7. WeightOf(RamOf(rs), A) = RamOf(rs)[q] + WeightOf(RamOf(rs), O)
  BY <1>4, <1>6, WeightApart
<1>8. WeightOf(RamOf(rs), O) = WeightOf(RamOf(old), O)
  BY <1>4, <1>5, <1>6, WeightSame
<1> QED
  BY <1>2, <1>3, <1>4, <1>6, <1>7, <1>8
=============================================================================
