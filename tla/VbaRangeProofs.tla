--------------------------- MODULE VbaRangeProofs ---------------------------
(***************************************************************************)
(* Proofs about VbaRange, for a sheet of any size, any Ranges and contents *)
(* a macro begins with, and macros of any length.                          *)
(***************************************************************************)
EXTENDS VbaRange, TLAPS, WellFoundedInduction, FiniteSetTheorems, SequenceTheorems

-----------------------------------------------------------------------------
(* Induction on numbers, with a set for the property *)

LEMMA LeastOfNat ==
    ASSUME NEW T, T \subseteq Nat, T # {}
    PROVE  \E x \in T : \A y \in T : x <= y
<1> DEFINE R == {ss \in Nat \X Nat : ss[1] < ss[2]}
<1>1. IsWellFoundedOn(R, Nat)
  BY NatLessThanWellFounded DEF OpToRel
<1>2. \E x \in T : \A y \in T : ~ (<<y, x>> \in R)
  <2> HIDE DEF R
  <2>1. QED
    BY <1>1, WFMin
<1>3. PICK x \in T : \A y \in T : ~ (<<y, x>> \in R)
  BY <1>2
<1>4. ASSUME NEW y \in T PROVE x <= y
  <2>1. x \in Nat /\ y \in Nat /\ <<y, x>> \in Nat \X Nat
    OBVIOUS
  <2>2. <<y, x>> \in R <=> y < x
    BY <2>1
  <2>3. QED
    BY <1>3, <2>1, <2>2
<1>5. QED
  BY <1>4

LEMMA UpTo ==
    ASSUME NEW n \in Nat, NEW S, 0 \in S, \A i \in 0 .. n - 1 : i \in S => i + 1 \in S
    PROVE  0 .. n \subseteq S
<1> DEFINE T == (0 .. n) \ S
<1>1. SUFFICES ASSUME T # {} PROVE FALSE
  OBVIOUS
<1>2. PICK x \in T : \A y \in T : x <= y
  <2>1. T \subseteq Nat
    OBVIOUS
  <2>2. QED
    BY <1>1, <2>1, LeastOfNat
<1>3. x \in 1 .. n /\ x \notin S
  OBVIOUS
<1>4. x - 1 \in 0 .. n - 1 /\ (x - 1) + 1 = x /\ ~(x <= x - 1)
  BY <1>3
<1>5. x - 1 \in S
  BY <1>2, <1>4
<1>6. QED
  BY <1>3, <1>4, <1>5

-----------------------------------------------------------------------------
(* The largest and the least of some numbers *)

LEMMA MinIs ==
    ASSUME NEW T, NEW x \in T, T \subseteq Int, \A y \in T : x <= y PROVE Min(T) = x
<1>1. \A y \in T : x =< y
  OBVIOUS
<1>2. Min(T) \in T /\ \A y \in T : Min(T) =< y
  BY <1>1 DEF Min
<1>3. Min(T) \in Int /\ x \in Int /\ Min(T) =< x /\ x =< Min(T)
  BY <1>1, <1>2
<1>4. QED
  BY <1>3

LEMMA MaxIs ==
    ASSUME NEW T, NEW x \in T, T \subseteq Int, \A y \in T : y <= x PROVE Max(T) = x
<1>1. \A y \in T : x >= y
  OBVIOUS
<1>2. Max(T) \in T /\ \A y \in T : Max(T) >= y
  BY <1>1 DEF Max
<1>3. Max(T) \in Int /\ x \in Int /\ Max(T) >= x /\ x >= Max(T)
  BY <1>1, <1>2
<1>4. QED
  BY <1>3

LEMMA MinOfSome ==
    ASSUME NEW T, T \subseteq Nat, T # {}
    PROVE  Min(T) \in T /\ \A y \in T : Min(T) <= y
<1>1. PICK x \in T : \A y \in T : x <= y
  BY LeastOfNat
<1>2. T \subseteq Int
  OBVIOUS
<1>3. QED
  BY <1>1, <1>2, MinIs

LEMMA MaxOfSome ==
    ASSUME NEW n \in Nat, NEW T, T \subseteq 0 .. n, T # {}
    PROVE  Max(T) \in T /\ \A y \in T : y <= Max(T)
<1>0. T \subseteq Int /\ n \in Int
  OBVIOUS
<1> DEFINE U == {n - y : y \in T}
<1>1. U \subseteq Nat /\ U # {}
  <2>1. \A y \in T : y \in 0 .. n /\ n - y \in Nat
    OBVIOUS
  <2>2. QED
    BY <2>1
<1>2. PICK u \in U : \A z \in U : u <= z
  BY <1>1, LeastOfNat
<1>3. PICK x \in T : u = n - x
  OBVIOUS
<1>4. ASSUME NEW y \in T PROVE y <= x
  <2>1. u <= n - y
    BY <1>2
  <2>2. x \in Int /\ y \in Int /\ n \in Int
    BY <1>0
  <2>3. QED
    BY <1>3, <2>1, <2>2
<1>5. QED
  BY <1>0, <1>4, MaxIs

-----------------------------------------------------------------------------
(* Folds: that there is such a function, and what it keeps to *)

Folds(iter, n, b, step) ==
    \A s \in SUBSET (1 .. n) :
      iter[s] = IF s = {} THEN b ELSE step[<<iter[s \ {Max(s)}], Max(s)>>]

LEMMA FoldExists ==
    ASSUME NEW X, NEW n \in Nat, NEW b \in X, NEW step \in [X \X (1 .. n) -> X]
    PROVE  \E iter \in [SUBSET (1 .. n) -> X] : Folds(iter, n, b, step)
<1> DEFINE S == {k \in 0 .. n : \E iter \in [SUBSET (1 .. k) -> X] : Folds(iter, k, b, step)}
<1>1. 0 \in S
  <2> DEFINE iter == [s \in SUBSET (1 .. 0) |-> b]
  <2>1. 1 .. 0 = {}
    OBVIOUS
  <2>2. iter \in [SUBSET (1 .. 0) -> X] /\ Folds(iter, 0, b, step)
    BY <2>1 DEF Folds
  <2>3. QED
    BY <2>2
<1>2. ASSUME NEW k \in 0 .. n - 1, k \in S PROVE k + 1 \in S
  <2>1. PICK f \in [SUBSET (1 .. k) -> X] : Folds(f, k, b, step)
    BY <1>2
  <2> DEFINE g == [s \in SUBSET (1 .. k + 1) |->
                     IF k + 1 \in s THEN step[<<f[s \ {k + 1}], k + 1>>] ELSE f[s]]
  <2>2. ASSUME NEW s \in SUBSET (1 .. k + 1)
        PROVE  /\ g[s] \in X
               /\ g[s] = IF s = {} THEN b ELSE step[<<g[s \ {Max(s)}], Max(s)>>]
    <3>1. CASE k + 1 \in s
      <4>1. s \ {k + 1} \in SUBSET (1 .. k)
        OBVIOUS
      <4>2. Max(s) = k + 1
        <5>1. s \subseteq Int /\ \A y \in s : y <= k + 1
          OBVIOUS
        <5>2. QED
          BY <3>1, <5>1, MaxIs
      <4>3. g[s \ {k + 1}] = f[s \ {k + 1}]
        BY <4>1
      <4>4. f[s \ {k + 1}] \in X
        BY <4>1
      <4>5. g[s] = step[<<f[s \ {k + 1}], k + 1>>]
        BY <3>1
      <4>6. <<f[s \ {k + 1}], k + 1>> \in X \X (1 .. n)
        BY <4>4
      <4> HIDE DEF g
      <4>7. QED
        BY <3>1, <4>2, <4>3, <4>5, <4>6
    <3>2. CASE k + 1 \notin s
      <4>1. s \in SUBSET (1 .. k)
        BY <3>2
      <4>2. g[s] = f[s] /\ g[s] \in X
        BY <3>2, <4>1
      <4>3. CASE s = {}
        BY <2>1, <4>1, <4>2, <4>3 DEF Folds
      <4>4. CASE s # {}
        <5>1. s \ {Max(s)} \in SUBSET (1 .. k)
          BY <4>1
        <5>2. g[s \ {Max(s)}] = f[s \ {Max(s)}]
          BY <5>1, <3>2
        <5> HIDE DEF g
        <5>3. QED
          BY <2>1, <4>1, <4>2, <4>4, <5>2 DEF Folds
      <4>5. QED
        BY <4>3, <4>4
    <3>3. QED
      BY <3>1, <3>2
  <2>3. g \in [SUBSET (1 .. k + 1) -> X]
    <3> DEFINE h(s) == IF k + 1 \in s THEN step[<<f[s \ {k + 1}], k + 1>>] ELSE f[s]
    <3>1. \A s \in SUBSET (1 .. k + 1) : h(s) \in X
      BY <2>2
    <3> HIDE DEF h
    <3>2. [s \in SUBSET (1 .. k + 1) |-> h(s)] \in [SUBSET (1 .. k + 1) -> X]
      BY <3>1
    <3>3. QED
      BY <3>2 DEF h
  <2>4. Folds(g, k + 1, b, step)
    <3> HIDE DEF g
    <3>1. QED
      BY <2>2 DEF Folds
  <2>5. k + 1 \in 0 .. n
    OBVIOUS
  <2> HIDE DEF g
  <2>6. QED
    BY <2>3, <2>4, <2>5
<1>3. 0 .. n \subseteq S
  <2> HIDE DEF S
  <2>1. QED
    BY <1>1, <1>2, UpTo
<1>4. n \in S
  <2>1. n \in 0 .. n
    OBVIOUS
  <2> HIDE DEF S
  <2>2. QED
    BY <1>3, <2>1
<1>5. QED
  BY <1>4

LEMMA FoldKeeps ==
    ASSUME NEW X, NEW n \in Nat, NEW iter, iter[{}] \in X,
           \A s \in SUBSET (1 .. n) : s # {} /\ iter[s \ {Max(s)}] \in X => iter[s] \in X
    PROVE  iter[1 .. n] \in X
<1> DEFINE S == {k \in 0 .. n : iter[1 .. k] \in X}
<1>1. 0 \in S
  <2>1. 1 .. 0 = {}
    OBVIOUS
  <2>2. QED
    BY <2>1
<1>2. ASSUME NEW k \in 0 .. n - 1, k \in S PROVE k + 1 \in S
  <2>1. 1 .. k + 1 \in SUBSET (1 .. n) /\ 1 .. k + 1 # {}
    OBVIOUS
  <2>2. Max(1 .. k + 1) = k + 1
    <3>1. k + 1 \in 1 .. k + 1 /\ 1 .. k + 1 \subseteq Int /\ \A y \in 1 .. k + 1 : y <= k + 1
      OBVIOUS
    <3>2. QED
      BY <3>1, MaxIs
  <2>3. (1 .. k + 1) \ {k + 1} = 1 .. k
    OBVIOUS
  <2>4. iter[1 .. k] \in X
    BY <1>2
  <2>5. iter[1 .. k + 1] \in X
    BY <2>1, <2>2, <2>3, <2>4
  <2>6. QED
    BY <2>5
<1>3. 0 .. n \subseteq S
  <2> HIDE DEF S
  <2>1. QED
    BY <1>1, <1>2, UpTo
<1>4. QED
  BY <1>3

LEMMA MaxOfDomain ==
    ASSUME NEW n \in Nat, NEW s \in SUBSET (1 .. n), s # {}
    PROVE  Max(s) \in 1 .. n /\ s \ {Max(s)} \in SUBSET (1 .. n)
<1>1. s \subseteq 0 .. n
  OBVIOUS
<1>2. Max(s) \in s
  BY <1>1, MaxOfSome
<1>3. QED
  BY <1>2

-----------------------------------------------------------------------------
(* Areas and Ranges *)

LEMMA RangeHas ==
    ASSUME NEW g, IsRange(g)
    PROVE  /\ g = [areas |-> g.areas, rows |-> g.rows, cols |-> g.cols]
           /\ g.areas \in Seq(AreaRecord) /\ g.rows \in BOOLEAN /\ g.cols \in BOOLEAN
           /\ Len(g.areas) \in Nat \ {0} /\ DOMAIN g.areas = 1 .. Len(g.areas)
           /\ 1 \in DOMAIN g.areas /\ IsArea(First(g)) /\ First(g) \in AreaRecord
           /\ \A i \in DOMAIN g.areas : g.areas[i] \in AreaRecord /\ IsArea(g.areas[i])
BY EmptySeq DEF IsRange, First

LEMMA AreaHas ==
    ASSUME NEW a, IsArea(a)
    PROVE  /\ a \in AreaRecord
           /\ a = [c1 |-> a.c1, r1 |-> a.r1, c2 |-> a.c2, r2 |-> a.r2]
           /\ a.c1 \in Int /\ a.r1 \in Int /\ a.c2 \in Int /\ a.r2 \in Int
           /\ a.c1 <= a.c2 /\ a.r1 <= a.r2
           /\ Width(a) \in Nat \ {0} /\ Height(a) \in Nat \ {0}
BY DEF IsArea, AreaRecord, Width, Height

LEMMA AreaIsMade ==
    ASSUME NEW c1 \in Int, NEW r1 \in Int, NEW c2 \in Int, NEW r2 \in Int
    PROVE  /\ Area(c1, r1, c2, r2) \in AreaRecord
           /\ c1 <= c2 /\ r1 <= r2 => IsArea(Area(c1, r1, c2, r2))
BY DEF IsArea, AreaRecord, Area

LEMMA OneAreaRange ==
    ASSUME NEW a, IsArea(a), NEW rows \in BOOLEAN, NEW cols \in BOOLEAN
    PROVE  IsRange([areas |-> <<a>>, rows |-> rows, cols |-> cols])
BY AreaHas DEF IsRange

LEMMA CellsOnSheet ==
    ASSUME NEW a, IsArea(a), AreaOnSheet(a)
    PROVE  /\ CellsIn(a) \subseteq SheetCells /\ <<a.c1, a.r1>> \in CellsIn(a)
           /\ ColsOf(a) \subseteq SheetCols /\ a.c1 \in ColsOf(a)
           /\ RowsOf(a) \subseteq SheetRows /\ a.r1 \in RowsOf(a)
           /\ \A p \in SheetCells : In(a, p) <=> p \in CellsIn(a)
BY AreaHas, SheetAssumption
   DEF AreaOnSheet, CellsIn, SheetCells, SheetCols, SheetRows, ColsOf, RowsOf, In

LEMMA RangeOnSheet ==
    ASSUME NEW g, IsRange(g), OnSheet(g)
    PROVE  /\ AreaOnSheet(First(g))
           /\ CellsOf(g) \subseteq SheetCells
           /\ \A i \in DOMAIN g.areas : CellsIn(g.areas[i]) \subseteq CellsOf(g)
<1>1. \A i \in DOMAIN g.areas : IsArea(g.areas[i]) /\ AreaOnSheet(g.areas[i])
  BY RangeHas DEF OnSheet
<1>2. QED
  BY <1>1, RangeHas, CellsOnSheet DEF CellsOf, First

-----------------------------------------------------------------------------
(* What a step has to keep *)

CellMap == [SheetCells -> Cell]

LEMMA WroteKept ==
    ASSUME IInv, UNCHANGED <<cell, lines, wrote>> PROVE WroteOK' /\ Written'
BY DEF IInv, TypeOK, WroteOK, Written, WrittenToCells, WrittenToLines, Reached

LEMMA WroteNothing == ASSUME wrote' = NoWrite PROVE WroteOK' /\ Written'
BY DEF NoWrite, WroteOK, Written, WrittenToCells, WrittenToLines

LEMMA CellsDisturbed ==
    ASSUME IInv, Disturbs(CellKinds), UNCHANGED lines PROVE WroteOK' /\ Written'
<1>1. CASE wrote.kind \in CellKinds
  BY <1>1, WroteNothing DEF Disturbs
<1>2. CASE wrote.kind \notin CellKinds
  <2>1. wrote' = wrote
    BY <1>2 DEF Disturbs
  <2>2. QED
    BY <1>2, <2>1
       DEF IInv, TypeOK, WroteOK, Written, WrittenToCells, WrittenToLines, Reached, CellKinds
<1>3. QED
  BY <1>1, <1>2

LEMMA CallsGoOn == ASSUME IInv, Ready PROVE calls' \in 0 .. Calls
BY MacroAssumption DEF IInv, TypeOK, Ready

\* The filter is as it was, and so are the hidden rows.
LEMMA FilterKept ==
    ASSUME IInv, lines'.hiddenRows = lines.hiddenRows, marks'.filter = marks.filter
    PROVE  FilterOK'
BY DEF IInv, FilterOK, FilterIsTidy, Body

LEMMA QuietKeeps ==
    ASSUME IInv, Ready, UNCHANGED <<cell, lines, marks, view, app, wrote>>, IsRange(it'),
           got' \in {"ok", "threw", "crashed"}
    PROVE  IInv'
<1>1. WroteOK' /\ Written'
  BY WroteKept
<1>2. TypeOK'
  BY <1>1, CallsGoOn DEF IInv, TypeOK, ViewOK, AppOK
<1>3. FilterOK'
  BY FilterKept
<1>4. QED
  BY <1>1, <1>2, <1>3 DEF IInv

LEMMA ThrowsKeeps == ASSUME IInv, Ready, Throws PROVE IInv'
BY QuietKeeps DEF Throws, Untouched, sheet, IInv, TypeOK

LEMMA CrashesKeeps == ASSUME IInv, Ready, Crashes PROVE IInv'
BY QuietKeeps DEF Crashes, Untouched, sheet, IInv, TypeOK

LEMMA AnswersKeeps == ASSUME IInv, Ready, Answers PROVE IInv'
BY QuietKeeps DEF Answers, Untouched, sheet, IInv, TypeOK

LEMMA BecomesKeeps ==
    ASSUME IInv, Ready, NEW g, g # Nothing => IsRange(g), Becomes(g) PROVE IInv'
<1>1. CASE g = Nothing
  BY <1>1, ThrowsKeeps DEF Becomes
<1>2. CASE g # Nothing
  BY <1>2, QuietKeeps DEF Becomes, Untouched, sheet
<1>3. QED
  BY <1>1, <1>2

LEMMA EditsKeeps ==
    ASSUME IInv, Ready, NEW f \in CellMap, Edits(f), WroteOK', Written' PROVE IInv'
<1>1. TypeOK'
  BY CallsGoOn DEF IInv, TypeOK, ViewOK, AppOK, Edits, CellMap
<1>2. FilterOK'
  BY FilterKept DEF Edits
<1>3. QED
  BY <1>1, <1>2 DEF IInv

LEMMA EditsLinesKeeps ==
    ASSUME IInv, Ready, NEW l \in LinesType, l.hiddenRows = lines.hiddenRows, EditsLines(l),
           WroteOK', Written'
    PROVE  IInv'
<1>1. TypeOK'
  BY CallsGoOn DEF IInv, TypeOK, ViewOK, AppOK, EditsLines
<1>2. FilterOK'
  BY FilterKept DEF EditsLines
<1>3. QED
  BY <1>1, <1>2 DEF IInv

LEMMA EditsMarksKeeps ==
    ASSUME IInv, Ready, NEW m \in MarksType, EditsMarks(m), UNCHANGED wrote,
           m.filter = marks.filter
    PROVE  IInv'
<1>1. WroteOK' /\ Written'
  BY WroteKept DEF EditsMarks
<1>2. TypeOK'
  BY <1>1, CallsGoOn DEF IInv, TypeOK, ViewOK, AppOK, EditsMarks
<1>3. FilterOK'
  BY FilterKept DEF EditsMarks
<1>4. QED
  BY <1>1, <1>2, <1>3 DEF IInv

-----------------------------------------------------------------------------
(* Another Range *)

LEMMA ItIsRange == ASSUME IInv PROVE IsRange(it)
BY DEF IInv, TypeOK

LEMMA OneArea ==
    ASSUME NEW a, IsArea(a)
    PROVE  /\ IsRange(Plain(<<a>>)) /\ IsRange(AsRows(<<a>>)) /\ IsRange(AsCols(<<a>>))
BY OneAreaRange DEF Plain, AsRows, AsCols

LEMMA ManyAreas ==
    ASSUME NEW s \in Seq(AreaRecord), s # <<>>, \A i \in DOMAIN s : IsArea(s[i])
    PROVE  /\ IsRange(Plain(s)) /\ IsRange(AsRows(s)) /\ IsRange(AsCols(s))
BY DEF IsRange, Plain, AsRows, AsCols

\* One area for each of a Range.
LEMMA AreaByArea ==
    ASSUME NEW g, IsRange(g), NEW s, s = [i \in DOMAIN g.areas |-> s[i]],
           \A i \in DOMAIN g.areas : IsArea(s[i])
    PROVE  s \in Seq(AreaRecord) /\ s # <<>> /\ \A i \in DOMAIN s : IsArea(s[i])
<1>1. DOMAIN g.areas = 1 .. Len(g.areas) /\ Len(g.areas) \in Nat \ {0}
  BY RangeHas
<1>2. \A i \in 1 .. Len(g.areas) : s[i] \in AreaRecord
  BY <1>1 DEF IsArea
<1>3. s \in [1 .. Len(g.areas) -> AreaRecord]
  BY <1>1, <1>2
<1>4. s \in Seq(AreaRecord) /\ DOMAIN s = 1 .. Len(g.areas)
  BY <1>1, <1>3
<1>5. 1 \in DOMAIN s
  BY <1>1, <1>4
<1>6. s # <<>>
  BY <1>5
<1>7. QED
  BY <1>1, <1>4, <1>6

LEMMA ShiftIsArea ==
    ASSUME NEW a, IsArea(a), NEW dc \in Int, NEW dr \in Int PROVE IsArea(Shift(a, dc, dr))
<1>1. /\ a.c1 + dc \in Int /\ a.r1 + dr \in Int /\ a.c2 + dc \in Int /\ a.r2 + dr \in Int
      /\ a.c1 + dc <= a.c2 + dc /\ a.r1 + dr <= a.r2 + dr
  BY AreaHas
<1>2. QED
  BY <1>1, AreaIsMade DEF Shift

LEMMA OffsetKeeps == ASSUME IInv, DoOffset PROVE IInv'
<1>1. PICK dr \in Steps, dc \in Steps : Ready /\ Becomes(Offset(it, dr, dc))
  BY DEF DoOffset
<1> DEFINE s == [i \in DOMAIN it.areas |-> Shift(it.areas[i], dc, dr)]
<1>2. ASSUME NEW i \in DOMAIN it.areas PROVE IsArea(s[i])
  <2>1. IsArea(it.areas[i])
    BY ItIsRange, RangeHas
  <2>2. dr \in Int /\ dc \in Int
    BY DEF Steps
  <2>3. QED
    BY <2>1, <2>2, ShiftIsArea
<1>3. IsRange(Plain(s))
  <2>1. s \in Seq(AreaRecord) /\ s # <<>> /\ \A i \in DOMAIN s : IsArea(s[i])
    BY <1>2, ItIsRange, AreaByArea
  <2> HIDE DEF s
  <2>2. QED
    BY <2>1, ManyAreas
<1>4. QED
  BY <1>1, <1>3, BecomesKeeps DEF Offset

LEMMA ByPositionIsRange ==
    ASSUME NEW c1 \in Int, NEW r1 \in Int, NEW c2 \in Int, NEW r2 \in Int
    PROVE  ByPosition(c1, r1, c2, r2) # Nothing => IsRange(ByPosition(c1, r1, c2, r2))
BY AreaIsMade, OneArea DEF ByPosition

LEMMA CellsKeeps == ASSUME IInv, DoCells PROVE IInv'
<1> DEFINE a == First(it)
<1>1. IsArea(a) /\ a.c1 \in Int /\ a.r1 \in Int /\ Width(a) \in Nat \ {0}
  BY ItIsRange, RangeHas, AreaHas
<1>2. IsRange(Plain(<<a>>))
  BY <1>1, OneArea
<1>3. ASSUME NEW n \in 1 .. 4
      PROVE  CellsIndex(it, n) # Nothing => IsRange(CellsIndex(it, n))
  <2> DEFINE p == CellAt(a, n)
  <2>1. p[1] \in Int /\ p[2] \in Int
    <3>1. (n - 1) % Width(a) \in Int /\ (n - 1) \div Width(a) \in Int
      BY <1>1
    <3>2. ~(n - 1 < 0)
      OBVIOUS
    <3>3. QED
      BY <1>1, <3>1, <3>2 DEF CellAt
  <2>2. CellsIndex(it, n) = ByPosition(p[1], p[2], p[1], p[2])
    BY DEF CellsIndex
  <2> HIDE DEF p
  <2>3. QED
    BY <2>1, <2>2, ByPositionIsRange
<1>4. ASSUME NEW r \in 0 .. 2, NEW c \in 0 .. 2
      PROVE  Cells(it, r, c) # Nothing => IsRange(Cells(it, r, c))
  <2>1. a.c1 + c - 1 \in Int /\ a.r1 + r - 1 \in Int
    BY <1>1
  <2>2. QED
    BY <2>1, ByPositionIsRange DEF Cells
<1>5. Ready
  BY DEF DoCells, Works
<1>6. QED
  BY <1>2, <1>3, <1>4, <1>5, BecomesKeeps DEF DoCells

LEMMA RowsIsRange ==
    ASSUME NEW g, IsRange(g), NEW n \in 1 .. 2, NEW m \in 1 .. 2, n <= m
    PROVE  /\ Rows(g, n, m) # Nothing => IsRange(Rows(g, n, m))
           /\ Columns(g, n, m) # Nothing => IsRange(Columns(g, n, m))
<1> DEFINE a == First(g)
<1>1. /\ a.c1 \in Int /\ a.r1 \in Int /\ a.c2 \in Int /\ a.r2 \in Int
      /\ a.c1 <= a.c2 /\ a.r1 <= a.r2
  BY RangeHas, AreaHas
<1>2. IsArea(Area(a.c1, a.r1 + n - 1, a.c2, a.r1 + n - 1 + (m - n)))
  BY <1>1, AreaIsMade
<1>3. IsArea(Area(a.c1 + n - 1, a.r1, a.c1 + n - 1 + (m - n), a.r2))
  BY <1>1, AreaIsMade
<1>4. QED
  BY <1>2, <1>3, OneArea DEF Rows, Columns

LEMMA AllLinesIsRange ==
    ASSUME NEW g, IsRange(g) PROVE IsRange(AllRows(g)) /\ IsRange(AllColumns(g))
BY RangeHas, OneArea, ManyAreas DEF AllRows, AllColumns, IsRange

LEMMA ItemKeeps == ASSUME IInv, DoItem PROVE IInv'
<1>1. Ready /\ IsRange(it)
  BY ItIsRange DEF DoItem, Works
<1>2. CASE Throws
  BY <1>1, <1>2, ThrowsKeeps
<1>3. CASE \E n \in 1 .. 2 : Becomes(RowOrColumn(it, n))
  <2>1. PICK n \in 1 .. 2 : Becomes(RowOrColumn(it, n))
    BY <1>3
  <2>2. RowOrColumn(it, n) # Nothing => IsRange(RowOrColumn(it, n))
    BY <1>1, RowsIsRange DEF RowOrColumn
  <2>3. QED
    BY <1>1, <2>1, <2>2, BecomesKeeps
<1>4. QED
  BY <1>2, <1>3 DEF DoItem

LEMMA RowsKeeps == ASSUME IInv, DoRows PROVE IInv'
<1>1. Ready /\ IsRange(it)
  BY ItIsRange DEF DoRows, Works
<1>2. QED
  BY <1>1, AllLinesIsRange, RowsIsRange, BecomesKeeps DEF DoRows

LEMMA ColumnsKeeps == ASSUME IInv, DoColumns PROVE IInv'
<1>1. Ready /\ IsRange(it)
  BY ItIsRange DEF DoColumns, Works
<1>2. QED
  BY <1>1, AllLinesIsRange, RowsIsRange, BecomesKeeps DEF DoColumns

LEMMA LinesReplaced ==
    ASSUME NEW a, IsArea(a), NEW x \in Int, NEW y \in Int, x <= y
    PROVE  /\ IsArea([a EXCEPT !.r1 = x, !.r2 = y])
           /\ IsArea([a EXCEPT !.c1 = x, !.c2 = y])
<1> DEFINE b == [a EXCEPT !.r1 = x, !.r2 = y]
           d == [a EXCEPT !.c1 = x, !.c2 = y]
<1>1. a \in AreaRecord
  BY DEF IsArea
<1>2. b \in AreaRecord /\ d \in AreaRecord
  BY <1>1 DEF AreaRecord
<1>3. b.r1 = x /\ b.r2 = y /\ b.c1 = a.c1 /\ b.c2 = a.c2
  BY <1>1 DEF AreaRecord
<1>4. d.c1 = x /\ d.c2 = y /\ d.r1 = a.r1 /\ d.r2 = a.r2
  BY <1>1 DEF AreaRecord
<1> HIDE DEF b, d
<1>5. IsArea(b) /\ IsArea(d)
  BY <1>2, <1>3, <1>4 DEF IsArea
<1>6. QED
  BY <1>5 DEF b, d

LEMMA EntireKeeps == ASSUME IInv, DoEntire PROVE IInv'
<1>1. Ready /\ IsRange(it)
  BY ItIsRange DEF DoEntire, Works
<1> DEFINE s == [i \in DOMAIN it.areas |-> [it.areas[i] EXCEPT !.r1 = 0, !.r2 = MaxRow]]
           t == [i \in DOMAIN it.areas |-> [it.areas[i] EXCEPT !.c1 = 0, !.c2 = MaxCol]]
<1>2. ASSUME NEW i \in DOMAIN it.areas PROVE IsArea(s[i]) /\ IsArea(t[i])
  <2> DEFINE a == it.areas[i]
  <2>1. IsArea(a)
    BY <1>1, RangeHas
  <2>2. IsArea([a EXCEPT !.r1 = 0, !.r2 = MaxRow]) /\ IsArea([a EXCEPT !.c1 = 0, !.c2 = MaxCol])
    <3> HIDE DEF a
    <3>1. 0 \in Int /\ MaxRow \in Int /\ MaxCol \in Int /\ 0 <= MaxRow /\ 0 <= MaxCol
      BY SheetAssumption
    <3>2. QED
      BY <2>1, <3>1, LinesReplaced
  <2>3. QED
    BY <2>2
<1>3. IsRange(AsCols(s)) /\ IsRange(AsRows(t))
  <2>1. s \in Seq(AreaRecord) /\ s # <<>> /\ \A i \in DOMAIN s : IsArea(s[i])
    BY <1>1, <1>2, AreaByArea
  <2>2. t \in Seq(AreaRecord) /\ t # <<>> /\ \A i \in DOMAIN t : IsArea(t[i])
    BY <1>1, <1>2, AreaByArea
  <2> HIDE DEF s, t
  <2>3. QED
    BY <2>1, <2>2, ManyAreas
<1>4. QED
  BY <1>1, <1>3, BecomesKeeps DEF DoEntire, EntireRow, EntireColumn

LEMMA ResizeKeeps == ASSUME IInv, DoResize PROVE IInv'
<1>1. Ready /\ IsRange(it)
  BY ItIsRange DEF DoResize, Works
<1>2. ASSUME NEW h \in 0 .. 2, NEW w \in 0 .. 2
      PROVE  Resize(it, h, w) # Nothing => IsRange(Resize(it, h, w))
  <2> DEFINE a == First(it)
  <2>1. IsArea(a) /\ a.c1 \in Int /\ a.r1 \in Int
    BY <1>1, RangeHas, AreaHas
  <2>2. a.c1 + w - 1 \in Int /\ a.r1 + h - 1 \in Int
    BY <2>1
  <2>3. QED
    BY <2>1, <2>2, OneArea, ByPositionIsRange DEF Resize
<1>3. QED
  BY <1>1, <1>2, BecomesKeeps, ThrowsKeeps DEF DoResize

LEMMA LeastFirst ==
    ASSUME NEW k \in Int, NEW x \in Int, NEW y \in Int
    PROVE  /\ k + Least(x, y) \in Int /\ k + Greatest(x, y) \in Int
           /\ k + Least(x, y) <= k + Greatest(x, y)
BY DEF Least, Greatest

LEMMA ReferredIsRange ==
    ASSUME NEW g, IsRange(g), NEW p \in SheetCells, NEW q \in SheetCells
    PROVE  LET a == Area(p[1], p[2], p[1], p[2])
               b == Area(q[1], q[2], q[1], q[2])
           IN  /\ IsRange(RangeForName(g, <<a>>))
               /\ IsRange(RangeForName(g, <<a, b>>))
               /\ IsRange(RangeOfTwo(g, a, b))
<1> DEFINE f == First(g)
           a == Area(p[1], p[2], p[1], p[2])
           b == Area(q[1], q[2], q[1], q[2])
<1>1. /\ IsArea(f) /\ f.c1 \in Int /\ f.r1 \in Int
      /\ p[1] \in Int /\ p[2] \in Int /\ q[1] \in Int /\ q[2] \in Int
  BY RangeHas, AreaHas DEF SheetCells, SheetCols, SheetRows
<1>2. IsArea(a) /\ IsArea(b)
  BY <1>1, AreaIsMade
<1>3. IsRange(RangeForName(g, <<a>>))
  <2>1. IsArea(Shift(a, 1 * f.c1, 1 * f.r1))
    BY <1>1, <1>2, ShiftIsArea
  <2>2. Referred(f, <<a>>) = <<Shift(a, 1 * f.c1, 1 * f.r1)>>
    BY DEF Referred
  <2>3. QED
    BY <2>1, <2>2, OneArea DEF RangeForName
<1>4. IsRange(RangeForName(g, <<a, b>>))
  <2>1. IsArea(Shift(a, 2 * f.c1, 2 * f.r1)) /\ IsArea(Shift(b, 1 * f.c1, 1 * f.r1))
    BY <1>1, <1>2, ShiftIsArea
  <2>2. Referred(f, <<a, b>>) = <<Shift(a, 2 * f.c1, 2 * f.r1), Shift(b, 1 * f.c1, 1 * f.r1)>>
    BY DEF Referred
  <2>3. \A x, y : IsArea(x) /\ IsArea(y) => IsRange(Plain(<<x, y>>))
    <3>1. TAKE x, y
    <3>2. HAVE IsArea(x) /\ IsArea(y)
    <3>3. x \in AreaRecord /\ y \in AreaRecord
      BY <3>2 DEF IsArea
    <3>4. <<x, y>> \in Seq(AreaRecord) /\ <<x, y>> # <<>> /\ DOMAIN <<x, y>> = 1 .. 2
      BY <3>3
    <3>5. <<x, y>>[1] = x /\ <<x, y>>[2] = y /\ \A i \in 1 .. 2 : i = 1 \/ i = 2
      OBVIOUS
    <3>6. \A i \in DOMAIN <<x, y>> : IsArea(<<x, y>>[i])
      BY <3>2, <3>4, <3>5
    <3>7. QED
      BY <3>4, <3>6, ManyAreas
  <2>4. QED
    BY <2>1, <2>2, <2>3 DEF RangeForName
<1>5. IsRange(RangeOfTwo(g, a, b))
  <2> DEFINE c == Area(f.c1 + Least(a.c1, b.c1), f.r1 + Least(a.r1, b.r1),
                       f.c1 + Greatest(a.c2, b.c2), f.r1 + Greatest(a.r2, b.r2))
  <2>1. /\ a.c1 = p[1] /\ a.c2 = p[1] /\ a.r1 = p[2] /\ a.r2 = p[2]
        /\ b.c1 = q[1] /\ b.c2 = q[1] /\ b.r1 = q[2] /\ b.r2 = q[2]
    BY DEF Area
  <2>2. \A x, y \in Int : /\ Least(x, y) \in Int /\ Greatest(x, y) \in Int
                          /\ Least(x, y) <= Greatest(x, y)
    BY DEF Least, Greatest
  <2>3. IsArea(c)
    <3> HIDE DEF a, b, f
    <3>1. /\ f.c1 + Least(a.c1, b.c1) \in Int /\ f.r1 + Least(a.r1, b.r1) \in Int
          /\ f.c1 + Greatest(a.c2, b.c2) \in Int /\ f.r1 + Greatest(a.r2, b.r2) \in Int
          /\ f.c1 + Least(a.c1, b.c1) <= f.c1 + Greatest(a.c2, b.c2)
          /\ f.r1 + Least(a.r1, b.r1) <= f.r1 + Greatest(a.r2, b.r2)
      BY <1>1, <2>1, LeastFirst
    <3>2. QED
      BY <3>1, AreaIsMade
  <2>4. QED
    BY <1>1, <2>3, OneArea DEF RangeOfTwo
<1>6. QED
  BY <1>3, <1>4, <1>5

LEMMA RangeKeeps == ASSUME IInv, DoRange PROVE IInv'
<1>1. Ready /\ IsRange(it)
  BY ItIsRange DEF DoRange, Works
<1>2. QED
  BY <1>1, ReferredIsRange, BecomesKeeps, ThrowsKeeps DEF DoRange

LEMMA ItemIsRange ==
    ASSUME NEW g, IsRange(g), NEW i \in DOMAIN g.areas
    PROVE  /\ IsRange(Item(g, i))
           /\ Item(g, i) = [areas |-> <<g.areas[i]>>, rows |-> g.rows, cols |-> g.cols]
<1>1. Item(g, i) = [areas |-> <<g.areas[i]>>, rows |-> g.rows, cols |-> g.cols]
  BY RangeHas DEF Item
<1>2. QED
  BY <1>1, RangeHas, OneAreaRange

LEMMA AreaKeeps == ASSUME IInv, DoArea PROVE IInv'
<1>1. IsRange(it)
  BY ItIsRange
<1>2. QED
  BY <1>1, ItemIsRange, BecomesKeeps DEF DoArea

LEMMA IntersectKeeps == ASSUME IInv, DoIntersect PROVE IInv'
<1>1. Ready /\ IsRange(it)
  BY ItIsRange DEF DoIntersect, Works
<1>2. CASE Throws
  BY <1>1, <1>2, ThrowsKeeps
<1>3. ASSUME NEW p \in SheetCells
      PROVE  LET g == Intersect(First(it), Area(p[1], p[2], MaxCol, MaxRow))
             IN  g # Nothing => IsRange(g)
  <2> DEFINE a == First(it)
             b == Area(p[1], p[2], MaxCol, MaxRow)
             c == Area(Greatest(a.c1, b.c1), Greatest(a.r1, b.r1),
                       Least(a.c2, b.c2), Least(a.r2, b.r2))
  <2>1. /\ a.c1 \in Int /\ a.r1 \in Int /\ a.c2 \in Int /\ a.r2 \in Int
        /\ p[1] \in Int /\ p[2] \in Int /\ MaxCol \in Int /\ MaxRow \in Int
    BY <1>1, RangeHas, AreaHas, SheetAssumption DEF SheetCells, SheetCols, SheetRows
  <2>2. b.c1 = p[1] /\ b.r1 = p[2] /\ b.c2 = MaxCol /\ b.r2 = MaxRow
    BY DEF Area
  <2>3. \A x, y \in Int : Least(x, y) \in Int /\ Greatest(x, y) \in Int
    BY DEF Least, Greatest
  <2>4. c.c1 <= c.c2 /\ c.r1 <= c.r2 => IsArea(c)
    <3> HIDE DEF a, b
    <3>1. c \in AreaRecord
      BY <2>1, <2>2, <2>3, AreaIsMade
    <3>2. QED
      BY <3>1 DEF IsArea
  <2>5. QED
    BY <2>4, OneArea DEF Intersect
<1>4. CASE \E p \in SheetCells :
             LET g == Intersect(First(it), Area(p[1], p[2], MaxCol, MaxRow))
             IN  /\ ~Several(it)
                 /\ IF g = Nothing THEN Crashes ELSE Becomes(g)
  BY <1>1, <1>3, <1>4, CrashesKeeps, BecomesKeeps
<1>5. QED
  BY <1>2, <1>4 DEF DoIntersect

LEMMA RegionIsArea ==
    ASSUME NEW a, IsArea(a), AreaOnSheet(a), NEW b \in RegionOf(a) PROVE IsArea(b)
<1>1. b \in [c1 : 0..a.c1, r1 : 0..a.r1, c2 : a.c2..MaxCol, r2 : a.r2..MaxRow]
  BY DEF RegionOf
<1>2. /\ a.c1 \in Int /\ a.r1 \in Int /\ a.c2 \in Int /\ a.r2 \in Int
      /\ a.c1 <= a.c2 /\ a.r1 <= a.r2
  BY AreaHas
<1>3. /\ b.c1 \in 0 .. a.c1 /\ b.r1 \in 0 .. a.r1 /\ b.c2 \in a.c2 .. MaxCol
      /\ b.r2 \in a.r2 .. MaxRow
      /\ b = [c1 |-> b.c1, r1 |-> b.r1, c2 |-> b.c2, r2 |-> b.r2]
  BY <1>1
<1>4. QED
  BY <1>2, <1>3, SheetAssumption, AreaIsMade DEF Area

LEMMA CurrentRegionKeeps == ASSUME IInv, DoCurrentRegion PROVE IInv'
<1>1. Ready /\ IsRange(it) /\ OnSheet(it)
  BY ItIsRange DEF DoCurrentRegion, Works
<1>2. IsArea(First(it)) /\ AreaOnSheet(First(it))
  BY <1>1, RangeHas, RangeOnSheet
<1>3. \A b \in RegionOf(First(it)) : IsRange(Plain(<<b>>))
  BY <1>2, RegionIsArea, OneArea
<1>4. QED
  BY <1>1, <1>3, BecomesKeeps DEF DoCurrentRegion

LEMMA CellIsArea ==
    ASSUME NEW p \in SheetCells PROVE IsArea(Area(p[1], p[2], p[1], p[2]))
BY AreaIsMade DEF SheetCells, SheetCols, SheetRows

LEMMA NextKeeps == ASSUME IInv, DoNext PROVE IInv'
BY CellIsArea, OneArea, BecomesKeeps DEF DoNext, Works

-----------------------------------------------------------------------------
(* Cells *)

LEMMA CellHas ==
    ASSUME NEW c \in Cell
    PROVE  /\ c.v \in Contents /\ c.f \in Formats /\ c.note \in BOOLEAN /\ c.wrap \in BOOLEAN
           /\ \A x \in Contents : /\ [c EXCEPT !.v = x] \in Cell
                                  /\ [c EXCEPT !.v = x].v = x /\ [c EXCEPT !.v = x].f = c.f
           /\ \A x \in Formats : /\ [c EXCEPT !.f = x] \in Cell /\ [c EXCEPT !.f = x].f = x
           /\ \A x \in BOOLEAN : /\ [c EXCEPT !.note = x] \in Cell
                                 /\ [c EXCEPT !.wrap = x] \in Cell /\ [c EXCEPT !.wrap = x].wrap = x
BY DEF Cell

LEMMA SomeContents ==
    /\ {"empty", "text", "other", "#N/A", "zero", "one", "five"} \subseteq Contents
    /\ {"=TRUE()", "=text", "=number", "=error"} \subseteq Contents
    /\ {"general", "logical", "date"} \subseteq Formats
    /\ Blank \in Cell
BY DEF Contents, Numbers, Formulas, Formats, Cell, Blank

LEMMA NumberShown ==
    ASSUME NEW c \in Cell, NEW x \in {"zero", "one"}
    PROVE  LET d == [c EXCEPT !.v = x, !.f = "logical"]
           IN  d \in Cell /\ d.v = x /\ d.f = "logical"
BY SomeContents DEF Cell

LEMMA ValuedCell ==
    ASSUME NEW c \in Cell, NEW v \in {"TRUE", "FALSE"} \cup Contents
    PROVE  Valued(c, v) \in Cell
<1>1. CASE v = "TRUE"
  BY <1>1, NumberShown DEF Valued
<1>2. CASE v = "FALSE"
  BY <1>2, NumberShown DEF Valued
<1>3. CASE v # "TRUE" /\ v # "FALSE"
  BY <1>3, CellHas DEF Valued
<1>4. QED
  BY <1>1, <1>2, <1>3

LEMMA ShownValued ==
    ASSUME NEW c \in Cell, NEW v \in {"TRUE", "FALSE", "five", "text"}
    PROVE  Shown(Valued(c, v)) = v \/ (v = "five" /\ Valued(c, v).f = "logical")
<1>1. CASE v = "TRUE"
  <2> DEFINE d == [c EXCEPT !.v = "one", !.f = "logical"]
  <2>1. d.v = "one" /\ d.f = "logical"
    BY NumberShown
  <2>2. Valued(c, v) = d
    BY <1>1 DEF Valued
  <2> HIDE DEF d
  <2>3. QED
    BY <1>1, <2>1, <2>2 DEF Shown, Numbers
<1>2. CASE v = "FALSE"
  <2> DEFINE d == [c EXCEPT !.v = "zero", !.f = "logical"]
  <2>1. d.v = "zero" /\ d.f = "logical"
    BY NumberShown
  <2>2. Valued(c, v) = d
    BY <1>2 DEF Valued
  <2> HIDE DEF d
  <2>3. QED
    BY <1>2, <2>1, <2>2 DEF Shown, Numbers
<1>3. CASE v \in {"five", "text"}
  <2> DEFINE d == [c EXCEPT !.v = v]
  <2>1. d.v = v
    BY <1>3, CellHas, SomeContents
  <2>2. Valued(c, v) = d
    BY <1>3 DEF Valued
  <2> HIDE DEF d
  <2>3. QED
    BY <1>3, <2>1, <2>2 DEF Shown, Numbers
<1>4. QED
  BY <1>1, <1>2, <1>3

LEMMA ClearedCell == ASSUME NEW c \in Cell, NEW flags PROVE Cleared(c, flags) \in Cell
<1> DEFINE kind == CASE c.v \in Formulas -> "FORMULA"
                     [] c.v \in Numbers -> IF c.f = "date" THEN "DATETIME" ELSE "VALUE"
                     [] OTHER -> "STRING"
           d == IF kind \in flags THEN [c EXCEPT !.v = "empty"] ELSE c
           e == IF "ANNOTATION" \in flags THEN [d EXCEPT !.note = FALSE] ELSE d
<1>1. d \in Cell
  <2> HIDE DEF kind
  <2>1. QED
    BY CellHas, SomeContents
<1>2. e \in Cell
  <2> HIDE DEF d
  <2>1. QED
    BY <1>1, CellHas
<1>3. Cleared(c, flags) = IF "HARDATTR" \in flags THEN [e EXCEPT !.f = "general", !.wrap = FALSE]
                                                  ELSE e
  BY DEF Cleared
<1>4. [e EXCEPT !.f = "general", !.wrap = FALSE] \in Cell
  <2> HIDE DEF e
  <2>1. QED
    BY <1>2, SomeContents DEF Cell
<1> HIDE DEF e
<1>5. QED
  BY <1>2, <1>3, <1>4

LEMMA PastedCell ==
    ASSUME NEW c \in Cell, NEW d \in Cell,
           NEW paste \in {"all", "comments", "formats", "formulas", "values", "widths"}
    PROVE  Pasted(c, d, paste) \in Cell
<1>1. d.v \in Contents /\ d.f \in Formats /\ d.note \in BOOLEAN /\ d.wrap \in BOOLEAN
      /\ "five" \in Contents
  BY CellHas, SomeContents
<1>2. [c EXCEPT !.f = d.f, !.wrap = d.wrap] \in Cell
  BY <1>1 DEF Cell
<1>3. CASE paste \in {"all", "comments", "formats", "widths"}
  BY <1>1, <1>2, <1>3, CellHas DEF Pasted
<1>4. CASE paste \in {"formulas", "values"}
  BY <1>1, <1>4, CellHas DEF Pasted
<1>5. QED
  BY <1>3, <1>4

LEMMA CellsAre ==
    ASSUME IInv PROVE cell \in CellMap /\ \A p \in SheetCells : cell[p] \in Cell
BY DEF IInv, TypeOK, CellMap

-----------------------------------------------------------------------------
(* What is set is remembered *)

LEMMA RememberedWell ==
    ASSUME IInv, Works, NEW kind \in WriteKinds, NEW value, Remembers(kind, value) PROVE WroteOK'
BY ItIsRange DEF Works, Remembers, WroteOK, WriteKinds, CellKinds

LEMMA SetValueKeeps ==
    ASSUME IInv, NEW v \in {"TRUE", "FALSE", "five", "text"}, SetValue(v) PROVE IInv'
<1> DEFINE f == [p \in SheetCells |-> IF p \in CellsOf(it) THEN Valued(cell[p], v) ELSE cell[p]]
<1>1. Works /\ Ready /\ Edits(f) /\ Remembers("value", v)
  BY DEF SetValue, OnCells, Works
<1>2. v \in {"TRUE", "FALSE"} \cup Contents
  BY SomeContents
<1>3. \A p \in SheetCells : (IF p \in CellsOf(it) THEN Valued(cell[p], v) ELSE cell[p]) \in Cell
  BY <1>2, CellsAre, ValuedCell
<1>4. f \in CellMap
  BY <1>3 DEF CellMap
<1>5. CellsOf(it) \subseteq SheetCells
  BY <1>1, ItIsRange, RangeOnSheet DEF Works
<1>6. \A p \in CellsOf(it) : Shown(cell'[p]) = v \/ (v = "five" /\ cell'[p].f = "logical")
  <2>1. TAKE p \in CellsOf(it)
  <2>2. cell'[p] = Valued(cell[p], v) /\ cell[p] \in Cell
    BY <1>1, <1>5, CellsAre DEF Edits
  <2>3. QED
    BY <2>2, ShownValued
<1>7. WroteOK'
  BY <1>1, RememberedWell DEF WriteKinds, CellKinds
<1>8. Written'
  <2>1. wrote' = [kind |-> "value", range |-> it, value |-> v]
    BY <1>1 DEF Remembers
  <2>2. QED
    BY <1>6, <2>1 DEF Written, WrittenToCells, WrittenToLines
<1> HIDE DEF f
<1>9. QED
  BY <1>1, <1>4, <1>7, <1>8, EditsKeeps

LEMMA SetFormulaKeeps ==
    ASSUME IInv, NEW v \in {"=TRUE()", "=number"}, SetFormula(v) PROVE IInv'
<1> DEFINE f == [p \in SheetCells |-> IF p \in CellsOf(it) THEN [cell[p] EXCEPT !.v = v]
                                                           ELSE cell[p]]
<1>1. Works /\ Ready /\ Edits(f) /\ Remembers("formula", v)
  BY DEF SetFormula, OnCells, Works
<1>2. v \in Contents
  BY SomeContents
<1>3. \A p \in SheetCells : /\ [cell[p] EXCEPT !.v = v] \in Cell /\ cell[p] \in Cell
                            /\ [cell[p] EXCEPT !.v = v].v = v
  BY <1>2, CellsAre, CellHas
<1>4. f \in CellMap
  BY <1>3 DEF CellMap
<1>5. CellsOf(it) \subseteq SheetCells
  BY <1>1, ItIsRange, RangeOnSheet DEF Works
<1>6. \A p \in CellsOf(it) : cell'[p].v = v
  BY <1>1, <1>3, <1>5 DEF Edits
<1>7. WroteOK'
  BY <1>1, RememberedWell DEF WriteKinds, CellKinds
<1>8. Written'
  <2>1. wrote' = [kind |-> "formula", range |-> it, value |-> v]
    BY <1>1 DEF Remembers
  <2>2. QED
    BY <1>6, <2>1 DEF Written, WrittenToCells, WrittenToLines
<1> HIDE DEF f
<1>9. QED
  BY <1>1, <1>4, <1>7, <1>8, EditsKeeps

LEMMA SetFormulaArrayKeeps ==
    ASSUME IInv, NEW v \in {"=TRUE()", "=number"}, SetFormulaArray(v) PROVE IInv'
<1> DEFINE f == [p \in SheetCells |-> IF In(First(it), p) THEN [cell[p] EXCEPT !.v = v]
                                                          ELSE cell[p]]
<1>1. Works /\ Ready /\ Edits(f) /\ Disturbs(CellKinds)
  BY DEF SetFormulaArray, Works
<1>2. \A p \in SheetCells : [cell[p] EXCEPT !.v = v] \in Cell /\ cell[p] \in Cell
  BY SomeContents, CellsAre, CellHas
<1>3. f \in CellMap
  BY <1>2 DEF CellMap
<1>4. WroteOK' /\ Written'
  BY <1>1, CellsDisturbed DEF Edits
<1> HIDE DEF f
<1>5. QED
  BY <1>1, <1>3, <1>4, EditsKeeps

LEMMA SetFormulaR1C1Keeps == ASSUME IInv, SetFormulaR1C1 PROVE IInv'
<1> DEFINE v == IF Several(it) THEN "=error" ELSE "=number"
           f == [p \in SheetCells |-> IF p \in CellsOf(it) THEN [cell[p] EXCEPT !.v = v]
                                                           ELSE cell[p]]
<1>1. Works /\ Ready /\ Edits(f) /\ Remembers("r1c1", "=number")
  BY DEF SetFormulaR1C1, OnCells, Works
<1>2. v \in Contents /\ (~Several(it) => v = "=number")
  BY SomeContents
<1> HIDE DEF v
<1>3. \A p \in SheetCells : /\ [cell[p] EXCEPT !.v = v] \in Cell /\ cell[p] \in Cell
                            /\ [cell[p] EXCEPT !.v = v].v = v
  BY <1>2, CellsAre, CellHas
<1>4. f \in CellMap
  BY <1>3 DEF CellMap
<1>5. CellsOf(it) \subseteq SheetCells
  BY <1>1, ItIsRange, RangeOnSheet DEF Works
<1>6. \A p \in CellsOf(it) : cell'[p].v = v
  BY <1>1, <1>3, <1>5 DEF Edits
<1>7. WroteOK'
  BY <1>1, RememberedWell DEF WriteKinds, CellKinds
<1>8. Written'
  <2>1. wrote' = [kind |-> "r1c1", range |-> it, value |-> "=number"]
    BY <1>1 DEF Remembers
  <2>2. QED
    BY <1>2, <1>6, <2>1 DEF Written, WrittenToCells, WrittenToLines
<1> HIDE DEF f
<1>9. QED
  BY <1>1, <1>4, <1>7, <1>8, EditsKeeps

LEMMA ClearsKeeps == ASSUME IInv, NEW flags, Clears(flags) PROVE IInv'
<1> DEFINE f == [p \in SheetCells |-> IF p \in CellsOf(it) THEN Cleared(cell[p], flags)
                                                           ELSE cell[p]]
<1>1. Works /\ Ready /\ Edits(f) /\ Disturbs(CellKinds)
  BY DEF Clears, OnCells, Works
<1>2. \A p \in SheetCells : Cleared(cell[p], flags) \in Cell /\ cell[p] \in Cell
  BY CellsAre, ClearedCell
<1>3. f \in CellMap
  BY <1>2 DEF CellMap
<1>4. WroteOK' /\ Written'
  BY <1>1, CellsDisturbed DEF Edits
<1> HIDE DEF f
<1>5. QED
  BY <1>1, <1>3, <1>4, EditsKeeps

\* Only a note more or less.
LEMMA NotesOnly ==
    ASSUME IInv, UNCHANGED <<lines, wrote>>,
           \A p \in SheetCells : /\ cell'[p].v = cell[p].v /\ cell'[p].f = cell[p].f
                                 /\ cell'[p].wrap = cell[p].wrap
    PROVE  WroteOK' /\ Written'
<1>1. CASE wrote.kind = "none"
  BY <1>1 DEF IInv, TypeOK, WroteOK, Written, WrittenToCells, WrittenToLines
<1>2. CASE wrote.kind # "none"
  <2>1. CellsOf(wrote.range) \subseteq SheetCells
    BY <1>2, RangeOnSheet DEF IInv, TypeOK, WroteOK
  <2>2. \A p \in CellsOf(wrote.range) :
          /\ cell'[p].v = cell[p].v /\ cell'[p].f = cell[p].f /\ cell'[p].wrap = cell[p].wrap
          /\ Shown(cell[p])' = Shown(cell[p])
    BY <2>1 DEF Shown
  <2>3. WrittenToCells(wrote.range, wrote.value)'
    BY <2>2 DEF IInv, Written, WrittenToCells, Several
  <2>4. WrittenToLines(wrote.range, wrote.value)'
    BY DEF IInv, Written, WrittenToLines, Reached
  <2>5. QED
    BY <2>3, <2>4 DEF Written, IInv, TypeOK, WroteOK
<1>3. QED
  BY <1>1, <1>2

LEMMA NoteCell ==
    ASSUME NEW c \in Cell, NEW x \in BOOLEAN
    PROVE  /\ [c EXCEPT !.note = x].v = c.v /\ [c EXCEPT !.note = x].f = c.f
           /\ [c EXCEPT !.note = x].wrap = c.wrap /\ [c EXCEPT !.note = x] \in Cell
BY DEF Cell

LEMMA ClearedNote ==
    ASSUME NEW c PROVE Cleared(c, {"ANNOTATION"}) = [c EXCEPT !.note = FALSE]
BY DEF Cleared

LEMMA ClearCommentsKeeps == ASSUME IInv, ClearComments PROVE IInv'
<1> DEFINE f == [p \in SheetCells |-> IF p \in CellsOf(it) THEN Cleared(cell[p], {"ANNOTATION"})
                                                           ELSE cell[p]]
<1>1. Works /\ Ready /\ Edits(f) /\ UNCHANGED wrote
  BY DEF ClearComments, OnCells, Works
<1>2. \A p \in SheetCells :
         /\ cell[p] \in Cell /\ Cleared(cell[p], {"ANNOTATION"}) \in Cell
         /\ Cleared(cell[p], {"ANNOTATION"}).v = cell[p].v
         /\ Cleared(cell[p], {"ANNOTATION"}).f = cell[p].f
         /\ Cleared(cell[p], {"ANNOTATION"}).wrap = cell[p].wrap
  BY CellsAre, ClearedNote, NoteCell
<1>3. f \in CellMap
  BY <1>2 DEF CellMap
<1>4. WroteOK' /\ Written'
  BY <1>1, <1>2, NotesOnly DEF Edits
<1> HIDE DEF f
<1>5. QED
  BY <1>1, <1>3, <1>4, EditsKeeps

LEMMA AddCommentKeeps == ASSUME IInv, AddComment PROVE IInv'
<1> DEFINE x == <<First(it).c1, First(it).r1>>
           f == [cell EXCEPT ![x].note = TRUE]
<1>1. Works /\ Ready
  BY DEF AddComment, Works
<1>2. CASE Several(it) /\ Throws
  BY <1>1, <1>2, ThrowsKeeps
<1>3. CASE ~Several(it) /\ Edits(f) /\ UNCHANGED wrote
  <2>1. x \in SheetCells
    BY <1>1, ItIsRange, RangeOnSheet, RangeHas, CellsOnSheet DEF Works
  <2> HIDE DEF x
  <2>2. \A p \in SheetCells : f[p] = IF p = x THEN [cell[p] EXCEPT !.note = TRUE] ELSE cell[p]
    BY <2>1, CellsAre DEF CellMap
  <2>3. \A p \in SheetCells : /\ f[p].v = cell[p].v /\ f[p].f = cell[p].f
                              /\ f[p].wrap = cell[p].wrap /\ f[p] \in Cell
    <3> HIDE DEF f
    <3>1. TAKE p \in SheetCells
    <3>2. CASE p = x
      BY <2>2, <3>2, CellsAre, NoteCell
    <3>3. CASE p # x
      BY <2>2, <3>3, CellsAre
    <3>4. QED
      BY <3>2, <3>3
  <2>4. f \in CellMap
    <3>1. f = [p \in SheetCells |-> f[p]]
      BY CellsAre DEF CellMap
    <3> HIDE DEF f
    <3>2. QED
      BY <2>3, <3>1 DEF CellMap
  <2> HIDE DEF f
  <2>5. WroteOK' /\ Written'
    BY <1>3, <2>3, NotesOnly DEF Edits
  <2>6. QED
    BY <1>1, <1>3, <2>4, <2>5, EditsKeeps
<1>4. QED
  BY <1>2, <1>3 DEF AddComment

LEMMA SetNumberFormatKeeps ==
    ASSUME IInv, NEW x \in Formats, SetNumberFormat(x) PROVE IInv'
<1> DEFINE f == [p \in SheetCells |-> IF p \in CellsOf(it) THEN [cell[p] EXCEPT !.f = x]
                                                           ELSE cell[p]]
<1>1. Works /\ Ready /\ Edits(f) /\ Remembers("format", x)
  BY DEF SetNumberFormat, OnCells, Works
<1>2. \A p \in SheetCells : /\ [cell[p] EXCEPT !.f = x] \in Cell /\ cell[p] \in Cell
                            /\ [cell[p] EXCEPT !.f = x].f = x
  BY CellsAre, CellHas
<1>3. f \in CellMap
  BY <1>2 DEF CellMap
<1>4. CellsOf(it) \subseteq SheetCells
  BY <1>1, ItIsRange, RangeOnSheet DEF Works
<1>5. \A p \in CellsOf(it) : cell'[p].f = x
  BY <1>1, <1>2, <1>4 DEF Edits
<1>6. WroteOK'
  BY <1>1, RememberedWell DEF WriteKinds, CellKinds
<1>7. Written'
  <2>1. wrote' = [kind |-> "format", range |-> it, value |-> x]
    BY <1>1 DEF Remembers
  <2>2. QED
    BY <1>5, <2>1 DEF Written, WrittenToCells, WrittenToLines
<1> HIDE DEF f
<1>8. QED
  BY <1>1, <1>3, <1>6, <1>7, EditsKeeps

LEMMA SetWrapTextKeeps ==
    ASSUME IInv, NEW on \in BOOLEAN, SetWrapText(on) PROVE IInv'
<1> DEFINE f == [p \in SheetCells |-> IF p \in CellsOf(it) THEN [cell[p] EXCEPT !.wrap = on]
                                                           ELSE cell[p]]
<1>1. Works /\ Ready /\ Edits(f) /\ Remembers("wrap", on)
  BY DEF SetWrapText, OnCells, Works
<1>2. \A p \in SheetCells : /\ [cell[p] EXCEPT !.wrap = on] \in Cell /\ cell[p] \in Cell
                            /\ [cell[p] EXCEPT !.wrap = on].wrap = on
  BY CellsAre, CellHas
<1>3. f \in CellMap
  BY <1>2 DEF CellMap
<1>4. CellsOf(it) \subseteq SheetCells
  BY <1>1, ItIsRange, RangeOnSheet DEF Works
<1>5. \A p \in CellsOf(it) : cell'[p].wrap = on
  BY <1>1, <1>2, <1>4 DEF Edits
<1>6. WroteOK'
  BY <1>1, RememberedWell DEF WriteKinds, CellKinds
<1>7. Written'
  <2>1. wrote' = [kind |-> "wrap", range |-> it, value |-> on]
    BY <1>1 DEF Remembers
  <2>2. QED
    BY <1>5, <2>1 DEF Written, WrittenToCells, WrittenToLines
<1> HIDE DEF f
<1>8. QED
  BY <1>1, <1>3, <1>6, <1>7, EditsKeeps

LEMMA GoalSeekKeeps == ASSUME IInv, GoalSeek PROVE IInv'
<1>1. Ready /\ Disturbs(CellKinds)
  BY DEF GoalSeek, Works
<1>2. PICK x \in SheetCells, v \in {"zero", "five"} : Edits([cell EXCEPT ![x] = Valued(@, v)])
  BY DEF GoalSeek
<1> DEFINE f == [cell EXCEPT ![x] = Valued(cell[x], v)]
<1>3. Edits(f)
  BY <1>2
<1>4. Valued(cell[x], v) \in Cell
  <2>1. v \in {"TRUE", "FALSE"} \cup Contents
    BY SomeContents
  <2>2. QED
    BY <2>1, CellsAre, ValuedCell
<1>5. f \in CellMap
  BY <1>4, CellsAre DEF CellMap
<1>6. WroteOK' /\ Written'
  BY <1>1, <1>3, CellsDisturbed DEF Edits
<1> HIDE DEF f
<1>7. QED
  BY <1>1, <1>3, <1>5, <1>6, EditsKeeps

\* A call that changes cells, and the clipboard or the options with it.
LEMMA CellsAndAppKeep ==
    ASSUME IInv, Ready, cell' \in CellMap, AppOK', IsRange(it'), ViewOK', WroteOK', Written',
           UNCHANGED <<lines, marks>>, got' = "ok"
    PROVE  IInv'
<1>1. TypeOK'
  BY CallsGoOn DEF IInv, TypeOK, CellMap
<1>2. FilterOK'
  BY FilterKept
<1>3. QED
  BY <1>1, <1>2 DEF IInv

LEMMA AppHas ==
    ASSUME IInv
    PROVE  /\ app = [clip |-> app.clip, word |-> app.word, byRow |-> app.byRow,
                     sort |-> app.sort]
           /\ IsClip(app.clip) /\ app.word \in BOOLEAN /\ app.byRow \in BOOLEAN
           /\ app.sort \in [up : BOOLEAN, byRow : BOOLEAN]
BY DEF IInv, TypeOK, AppOK

LEMMA OptionsReplaced ==
    ASSUME IInv, NEW w, NEW b
    PROVE  [app EXCEPT !.word = w, !.byRow = b]
             = [clip |-> app.clip, word |-> w, byRow |-> b, sort |-> app.sort]
<1> DEFINE d == [app EXCEPT !.word = w, !.byRow = b]
<1>1. app = [clip |-> app.clip, word |-> app.word, byRow |-> app.byRow, sort |-> app.sort]
  BY AppHas
<1>2. d.clip = app.clip /\ d.word = w /\ d.byRow = b /\ d.sort = app.sort
  BY <1>1
<1>3. d \in [clip : {app.clip}, word : {w}, byRow : {b}, sort : {app.sort}]
  BY <1>1
<1> HIDE DEF d
<1>4. d = [clip |-> app.clip, word |-> w, byRow |-> b, sort |-> app.sort]
  BY <1>2, <1>3
<1>5. QED
  BY <1>4 DEF d

LEMMA ReplaceKeeps ==
    ASSUME IInv, NEW look, NEW order, Replace(look, order) PROVE IInv'
<1>1. Ready
  BY DEF Replace, Works
<1>2. CASE Throws
  BY <1>1, <1>2, ThrowsKeeps
<1> DEFINE f == [p \in SheetCells |->
                   IF p \in CellsOf(it)
                   THEN IF cell[p].v = "text" THEN [cell[p] EXCEPT !.v = "other"] ELSE cell[p]
                   ELSE cell[p]]
           now == [app EXCEPT !.word  = IF look = "" THEN app.word ELSE look = "whole",
                              !.byRow = IF order = "" THEN app.byRow ELSE order = "rows"]
<1>3. CASE /\ cell' = f /\ app' = now /\ got' = "ok" /\ Disturbs(CellKinds)
           /\ UNCHANGED <<it, lines, marks, view>>
  <2>1. f \in CellMap
    <3>1. \A p \in SheetCells : [cell[p] EXCEPT !.v = "other"] \in Cell /\ cell[p] \in Cell
      BY SomeContents, CellsAre, CellHas
    <3>2. QED
      BY <3>1 DEF CellMap
  <2>2. AppOK'
    <3> DEFINE w == IF look = "" THEN app.word ELSE look = "whole"
               b == IF order = "" THEN app.byRow ELSE order = "rows"
    <3>1. w \in BOOLEAN /\ b \in BOOLEAN
      BY AppHas
    <3> HIDE DEF w, b
    <3>2. [app EXCEPT !.word = w, !.byRow = b]
            = [clip |-> app.clip, word |-> w, byRow |-> b, sort |-> app.sort]
      BY OptionsReplaced
    <3>3. app' = [clip |-> app.clip, word |-> w, byRow |-> b, sort |-> app.sort]
      BY <1>3, <3>2 DEF w, b
    <3>4. QED
      BY <3>1, <3>3, AppHas DEF AppOK
  <2>3. WroteOK' /\ Written'
    BY <1>3, CellsDisturbed
  <2>4. IsRange(it') /\ ViewOK'
    BY <1>3 DEF IInv, TypeOK, ViewOK
  <2> HIDE DEF f, now
  <2>5. QED
    BY <1>1, <1>3, <2>1, <2>2, <2>3, <2>4, CellsAndAppKeep
<1>4. QED
  BY <1>2, <1>3 DEF Replace, OnCells

-----------------------------------------------------------------------------
(* Calls that go area by area *)

SheetAreas == {a \in AreaRecord : IsArea(a) /\ AreaOnSheet(a)}

LEMMA AreasInTurn ==
    ASSUME IInv, Works PROVE it.areas \in [1 .. Len(it.areas) -> SheetAreas] /\ Len(it.areas) \in Nat
<1>1. IsRange(it) /\ OnSheet(it)
  BY ItIsRange DEF Works
<1>2. /\ it.areas \in Seq(AreaRecord) /\ Len(it.areas) \in Nat
      /\ DOMAIN it.areas = 1 .. Len(it.areas)
      /\ \A i \in DOMAIN it.areas : it.areas[i] \in AreaRecord /\ IsArea(it.areas[i])
  BY <1>1, RangeHas
<1>3. \A i \in DOMAIN it.areas : it.areas[i] \in SheetAreas
  BY <1>1, <1>2 DEF OnSheet, SheetAreas
<1>4. it.areas = [i \in 1 .. Len(it.areas) |-> it.areas[i]]
  BY <1>2
<1>5. QED
  BY <1>2, <1>3, <1>4

LEMMA ArrayCell ==
    ASSUME NEW c \in Cell, NEW rows, NEW x, NEW y
    PROVE  Valued(c, ArrayValue(rows, x, y)) \in Cell
<1>1. ArrayValue(rows, x, y) \in {"TRUE", "FALSE"} \cup Contents
  BY SomeContents DEF ArrayValue
<1>2. QED
  BY <1>1, ValuedCell

LEMMA FillFromOnSheet ==
    ASSUME NEW a \in SheetAreas, NEW dir \in {"down", "up", "left", "right"}, NEW p \in SheetCells
    PROVE  FillFrom(a, dir, p) \in SheetCells
BY DEF SheetAreas, AreaOnSheet, SheetCells, FillFrom

LEMMA ArrayFold ==
    ASSUME NEW base \in CellMap, NEW n \in Nat, NEW areas \in [1 .. n -> SheetAreas], NEW oneDim \in BOOLEAN
    PROVE  FoldLeft(LAMBDA cs, a :
               [p \in SheetCells |->
                  IF In(a, p)
                  THEN Valued(cs[p], ArrayValue(IF oneDim THEN MaxRow + 1 ELSE 1,
                                                p[2] - a.r1, p[1] - a.c1))
                  ELSE cs[p]], base, areas) \in CellMap
<1> DEFINE F(x, a) == [p \in SheetCells |->
                    IF In(a, p)
                    THEN Valued(x[p], ArrayValue(IF oneDim THEN MaxRow + 1 ELSE 1,
                                                  p[2] - a.r1, p[1] - a.c1))
                    ELSE x[p]]
           E(iter) == iter = [s \in SUBSET (1 .. n) |->
                               IF s = {} THEN base ELSE F(iter[s \ {Max(s)}], areas[Max(s)])]
           J == CHOOSE iter : E(iter)
           step == [p \in CellMap \X (1 .. n) |-> F(p[1], areas[p[2]])]
<1>1. DOMAIN areas = 1 .. n /\ \A i \in 1 .. n : areas[i] \in SheetAreas
  OBVIOUS
<1>2. \A x \in CellMap : \A a \in SheetAreas : F(x, a) \in CellMap
  <2>1. ASSUME NEW x \in CellMap, NEW a \in SheetAreas, NEW p \in SheetCells
        PROVE  (IF In(a, p)
                THEN Valued(x[p], ArrayValue(IF oneDim THEN MaxRow + 1 ELSE 1,
                                             p[2] - a.r1, p[1] - a.c1))
                ELSE x[p]) \in Cell
    BY ArrayCell DEF CellMap
  <2>2. QED
    BY <2>1 DEF CellMap
<1>3. FoldLeft(F, base, areas) = J[1 .. n]
  BY <1>1 DEF FoldLeft, MapThenFoldSet
<1> HIDE DEF F
<1>4. step \in [CellMap \X (1 .. n) -> CellMap]
  BY <1>1, <1>2
<1>5. PICK f \in [SUBSET (1 .. n) -> CellMap] : Folds(f, n, base, step)
  <2> HIDE DEF step
  <2>1. QED
    BY <1>4, FoldExists
<1>6. E(f)
  <2>1. ASSUME NEW s \in SUBSET (1 .. n)
        PROVE  f[s] = IF s = {} THEN base ELSE F(f[s \ {Max(s)}], areas[Max(s)])
    <3>1. CASE s = {}
      BY <1>5, <3>1 DEF Folds
    <3>2. CASE s # {}
      <4>1. Max(s) \in 1 .. n /\ s \ {Max(s)} \in SUBSET (1 .. n)
        BY <3>2, MaxOfDomain
      <4>2. <<f[s \ {Max(s)}], Max(s)>> \in CellMap \X (1 .. n)
        BY <4>1
      <4>3. QED
        BY <1>5, <3>2, <4>1, <4>2 DEF Folds
    <3>3. QED
      BY <3>1, <3>2
  <2>2. QED
    BY <2>1
<1>7. E(J)
  BY <1>6
<1>8. /\ J[{}] \in CellMap
      /\ \A s \in SUBSET (1 .. n) : s # {} /\ J[s \ {Max(s)}] \in CellMap => J[s] \in CellMap
  <2> HIDE DEF J
  <2>1. QED
    BY <1>1, <1>2, <1>7, MaxOfDomain
<1>9. J[1 .. n] \in CellMap
  <2> HIDE DEF J
  <2>1. QED
    BY <1>8, FoldKeeps
<1>10. QED
  BY <1>3, <1>9 DEF F

LEMMA SetArrayKeeps == ASSUME IInv, NEW oneDim \in BOOLEAN, SetArray(oneDim) PROVE IInv'
<1> DEFINE f == FoldLeft(LAMBDA cs, a :
               [p \in SheetCells |->
                  IF In(a, p)
                  THEN Valued(cs[p], ArrayValue(IF oneDim THEN MaxRow + 1 ELSE 1,
                                                p[2] - a.r1, p[1] - a.c1))
                  ELSE cs[p]], cell, it.areas)
<1>1. Works /\ Ready /\ Edits(f) /\ Disturbs(CellKinds)
  BY DEF SetArray, InTurn, Works
<1>2. f \in CellMap
  BY <1>1, AreasInTurn, CellsAre, ArrayFold
<1> HIDE DEF f
<1>3. WroteOK' /\ Written'
  BY <1>1, CellsDisturbed DEF Edits
<1>4. QED
  BY <1>1, <1>2, <1>3, EditsKeeps

LEMMA FillFold ==
    ASSUME NEW base \in CellMap, NEW n \in Nat, NEW areas \in [1 .. n -> SheetAreas],
           NEW dir \in {"down", "up", "left", "right"}
    PROVE  FoldLeft(LAMBDA cs, a :
               [p \in SheetCells |-> IF In(a, p) THEN cs[FillFrom(a, dir, p)] ELSE cs[p]], base, areas) \in CellMap
<1> DEFINE F(x, a) == [p \in SheetCells |-> IF In(a, p) THEN x[FillFrom(a, dir, p)] ELSE x[p]]
           E(iter) == iter = [s \in SUBSET (1 .. n) |->
                               IF s = {} THEN base ELSE F(iter[s \ {Max(s)}], areas[Max(s)])]
           J == CHOOSE iter : E(iter)
           step == [p \in CellMap \X (1 .. n) |-> F(p[1], areas[p[2]])]
<1>1. DOMAIN areas = 1 .. n /\ \A i \in 1 .. n : areas[i] \in SheetAreas
  OBVIOUS
<1>2. \A x \in CellMap : \A a \in SheetAreas : F(x, a) \in CellMap
  <2>1. ASSUME NEW x \in CellMap, NEW a \in SheetAreas, NEW p \in SheetCells
        PROVE  (IF In(a, p) THEN x[FillFrom(a, dir, p)] ELSE x[p]) \in Cell
    BY FillFromOnSheet DEF CellMap
  <2>2. QED
    BY <2>1 DEF CellMap
<1>3. FoldLeft(F, base, areas) = J[1 .. n]
  BY <1>1 DEF FoldLeft, MapThenFoldSet
<1> HIDE DEF F
<1>4. step \in [CellMap \X (1 .. n) -> CellMap]
  BY <1>1, <1>2
<1>5. PICK f \in [SUBSET (1 .. n) -> CellMap] : Folds(f, n, base, step)
  <2> HIDE DEF step
  <2>1. QED
    BY <1>4, FoldExists
<1>6. E(f)
  <2>1. ASSUME NEW s \in SUBSET (1 .. n)
        PROVE  f[s] = IF s = {} THEN base ELSE F(f[s \ {Max(s)}], areas[Max(s)])
    <3>1. CASE s = {}
      BY <1>5, <3>1 DEF Folds
    <3>2. CASE s # {}
      <4>1. Max(s) \in 1 .. n /\ s \ {Max(s)} \in SUBSET (1 .. n)
        BY <3>2, MaxOfDomain
      <4>2. <<f[s \ {Max(s)}], Max(s)>> \in CellMap \X (1 .. n)
        BY <4>1
      <4>3. QED
        BY <1>5, <3>2, <4>1, <4>2 DEF Folds
    <3>3. QED
      BY <3>1, <3>2
  <2>2. QED
    BY <2>1
<1>7. E(J)
  BY <1>6
<1>8. /\ J[{}] \in CellMap
      /\ \A s \in SUBSET (1 .. n) : s # {} /\ J[s \ {Max(s)}] \in CellMap => J[s] \in CellMap
  <2> HIDE DEF J
  <2>1. QED
    BY <1>1, <1>2, <1>7, MaxOfDomain
<1>9. J[1 .. n] \in CellMap
  <2> HIDE DEF J
  <2>1. QED
    BY <1>8, FoldKeeps
<1>10. QED
  BY <1>3, <1>9 DEF F

LEMMA FillSeriesKeeps ==
    ASSUME IInv, NEW dir \in {"down", "up", "left", "right"}, FillSeries(dir) PROVE IInv'
<1> DEFINE f == FoldLeft(LAMBDA cs, a :
               [p \in SheetCells |-> IF In(a, p) THEN cs[FillFrom(a, dir, p)] ELSE cs[p]],
               cell, it.areas)
<1>1. Works /\ Ready /\ Edits(f) /\ Disturbs(CellKinds)
  BY DEF FillSeries, InTurn, Works
<1>2. f \in CellMap
  BY <1>1, AreasInTurn, CellsAre, FillFold
<1> HIDE DEF f
<1>3. WroteOK' /\ Written'
  BY <1>1, CellsDisturbed DEF Edits
<1>4. QED
  BY <1>1, <1>2, <1>3, EditsKeeps

AreaSets == SUBSET AreaRecord

LEMMA MergeFold ==
    ASSUME NEW base \in AreaSets, NEW n \in Nat, NEW areas \in [1 .. n -> SheetAreas]
    PROVE  FoldLeft(MergedWith, base, areas) \in AreaSets
<1> DEFINE E(iter) == iter = [s \in SUBSET (1 .. n) |->
                               IF s = {} THEN base ELSE MergedWith(iter[s \ {Max(s)}], areas[Max(s)])]
           J == CHOOSE iter : E(iter)
           step == [p \in AreaSets \X (1 .. n) |-> MergedWith(p[1], areas[p[2]])]
<1>1. DOMAIN areas = 1 .. n /\ \A i \in 1 .. n : areas[i] \in SheetAreas
  OBVIOUS
<1>2. \A x \in AreaSets : \A a \in SheetAreas : MergedWith(x, a) \in AreaSets
  BY DEF MergedWith, SheetAreas, AreaSets
<1>3. FoldLeft(MergedWith, base, areas) = J[1 .. n]
  BY <1>1 DEF FoldLeft, MapThenFoldSet
<1>4. step \in [AreaSets \X (1 .. n) -> AreaSets]
  BY <1>1, <1>2
<1>5. PICK f \in [SUBSET (1 .. n) -> AreaSets] : Folds(f, n, base, step)
  <2> HIDE DEF step
  <2>1. QED
    BY <1>4, FoldExists
<1>6. E(f)
  <2>1. ASSUME NEW s \in SUBSET (1 .. n)
        PROVE  f[s] = IF s = {} THEN base ELSE MergedWith(f[s \ {Max(s)}], areas[Max(s)])
    <3>1. CASE s = {}
      BY <1>5, <3>1 DEF Folds
    <3>2. CASE s # {}
      <4>1. Max(s) \in 1 .. n /\ s \ {Max(s)} \in SUBSET (1 .. n)
        BY <3>2, MaxOfDomain
      <4>2. <<f[s \ {Max(s)}], Max(s)>> \in AreaSets \X (1 .. n)
        BY <4>1
      <4>3. QED
        BY <1>5, <3>2, <4>1, <4>2 DEF Folds
    <3>3. QED
      BY <3>1, <3>2
  <2>2. QED
    BY <2>1
<1>7. E(J)
  BY <1>6
<1>8. /\ J[{}] \in AreaSets
      /\ \A s \in SUBSET (1 .. n) : s # {} /\ J[s \ {Max(s)}] \in AreaSets => J[s] \in AreaSets
  <2> HIDE DEF J
  <2>1. QED
    BY <1>1, <1>2, <1>7, MaxOfDomain
<1>9. J[1 .. n] \in AreaSets
  <2> HIDE DEF J
  <2>1. QED
    BY <1>8, FoldKeeps
<1>10. QED
  BY <1>3, <1>9

LEMMA MergeKeeps == ASSUME IInv, Merge PROVE IInv'
<1> DEFINE m == FoldLeft(MergedWith, marks.merged, it.areas)
           all == [marks EXCEPT !.merged = m]
<1>1. Works /\ Ready /\ EditsMarks(all) /\ UNCHANGED wrote
  BY DEF Merge, InTurn, Works
<1>2. marks \in MarksType /\ marks.merged \in AreaSets
  BY DEF IInv, TypeOK, MarksType, AreaSets
<1>3. m \in AreaSets
  BY <1>1, <1>2, AreasInTurn, MergeFold
<1> HIDE DEF m
<1>4. all \in MarksType /\ all.filter = marks.filter
  BY <1>2, <1>3 DEF MarksType, AreaSets
<1> HIDE DEF all
<1>5. QED
  BY <1>1, <1>4, EditsMarksKeeps

LEMMA UnmergeFold ==
    ASSUME NEW base \in AreaSets, NEW n \in Nat, NEW areas \in [1 .. n -> SheetAreas]
    PROVE  FoldLeft(Unmerged, base, areas) \in AreaSets
<1> DEFINE E(iter) == iter = [s \in SUBSET (1 .. n) |->
                               IF s = {} THEN base ELSE Unmerged(iter[s \ {Max(s)}], areas[Max(s)])]
           J == CHOOSE iter : E(iter)
           step == [p \in AreaSets \X (1 .. n) |-> Unmerged(p[1], areas[p[2]])]
<1>1. DOMAIN areas = 1 .. n /\ \A i \in 1 .. n : areas[i] \in SheetAreas
  OBVIOUS
<1>2. \A x \in AreaSets : \A a \in SheetAreas : Unmerged(x, a) \in AreaSets
  BY DEF Unmerged, SheetAreas, AreaSets
<1>3. FoldLeft(Unmerged, base, areas) = J[1 .. n]
  BY <1>1 DEF FoldLeft, MapThenFoldSet
<1>4. step \in [AreaSets \X (1 .. n) -> AreaSets]
  BY <1>1, <1>2
<1>5. PICK f \in [SUBSET (1 .. n) -> AreaSets] : Folds(f, n, base, step)
  <2> HIDE DEF step
  <2>1. QED
    BY <1>4, FoldExists
<1>6. E(f)
  <2>1. ASSUME NEW s \in SUBSET (1 .. n)
        PROVE  f[s] = IF s = {} THEN base ELSE Unmerged(f[s \ {Max(s)}], areas[Max(s)])
    <3>1. CASE s = {}
      BY <1>5, <3>1 DEF Folds
    <3>2. CASE s # {}
      <4>1. Max(s) \in 1 .. n /\ s \ {Max(s)} \in SUBSET (1 .. n)
        BY <3>2, MaxOfDomain
      <4>2. <<f[s \ {Max(s)}], Max(s)>> \in AreaSets \X (1 .. n)
        BY <4>1
      <4>3. QED
        BY <1>5, <3>2, <4>1, <4>2 DEF Folds
    <3>3. QED
      BY <3>1, <3>2
  <2>2. QED
    BY <2>1
<1>7. E(J)
  BY <1>6
<1>8. /\ J[{}] \in AreaSets
      /\ \A s \in SUBSET (1 .. n) : s # {} /\ J[s \ {Max(s)}] \in AreaSets => J[s] \in AreaSets
  <2> HIDE DEF J
  <2>1. QED
    BY <1>1, <1>2, <1>7, MaxOfDomain
<1>9. J[1 .. n] \in AreaSets
  <2> HIDE DEF J
  <2>1. QED
    BY <1>8, FoldKeeps
<1>10. QED
  BY <1>3, <1>9

LEMMA UnMergeKeeps == ASSUME IInv, UnMerge PROVE IInv'
<1> DEFINE m == FoldLeft(Unmerged, marks.merged, it.areas)
           all == [marks EXCEPT !.merged = m]
<1>1. Works /\ Ready /\ EditsMarks(all) /\ UNCHANGED wrote
  BY DEF UnMerge, InTurn, Works
<1>2. marks \in MarksType /\ marks.merged \in AreaSets
  BY DEF IInv, TypeOK, MarksType, AreaSets
<1>3. m \in AreaSets
  BY <1>1, <1>2, AreasInTurn, UnmergeFold
<1> HIDE DEF m
<1>4. all \in MarksType /\ all.filter = marks.filter
  BY <1>2, <1>3 DEF MarksType, AreaSets
<1> HIDE DEF all
<1>5. QED
  BY <1>1, <1>4, EditsMarksKeeps

-----------------------------------------------------------------------------
(* What is continued, and what is special *)

LEMMA ModRange ==
    ASSUME NEW i \in Int, NEW k \in Nat \ {0} PROVE i % k \in Int /\ 0 <= i % k /\ i % k <= k - 1
OBVIOUS

LEMMA ContinuedOnSheet ==
    ASSUME NEW plan, plan.dir \in {"down", "right", "up", "left"},
           IsArea(plan.from), AreaOnSheet(plan.from), NEW p \in SheetCells
    PROVE  Continued(plan, p) \in SheetCells
<1> DEFINE f == plan.from
<1>1. /\ f.c1 \in 0 .. MaxCol /\ f.c2 \in 0 .. MaxCol /\ f.r1 \in 0 .. MaxRow
      /\ f.r2 \in 0 .. MaxRow /\ p[1] \in 0 .. MaxCol /\ p[2] \in 0 .. MaxRow
      /\ f.c1 <= f.c2 /\ f.r1 <= f.r2
  BY DEF AreaOnSheet, SheetCells, SheetCols, SheetRows, IsArea
<1>2. /\ Width(f) = f.c2 - f.c1 + 1 /\ Height(f) = f.r2 - f.r1 + 1
      /\ Width(f) \in Nat \ {0} /\ Height(f) \in Nat \ {0}
  BY <1>1 DEF Width, Height
<1>3. /\ SheetCells = (0 .. MaxCol) \X (0 .. MaxRow) /\ MaxCol \in Nat /\ MaxRow \in Nat
  BY SheetAssumption DEF SheetCells, SheetCols, SheetRows
<1>4. CASE plan.dir = "down"
  <2>1. f.r1 + ((p[2] - f.r1) % Height(f)) \in 0 .. MaxRow
    <3>1. p[2] - f.r1 \in Int
      BY <1>1
    <3>2. (p[2] - f.r1) % Height(f) \in Int /\ 0 <= (p[2] - f.r1) % Height(f)
          /\ (p[2] - f.r1) % Height(f) <= Height(f) - 1
      BY <1>2, <3>1, ModRange
    <3> DEFINE m == (p[2] - f.r1) % Height(f)
    <3> HIDE DEF m, f
    <3>3. QED
      BY <1>1, <1>2, <1>3, <3>2 DEF m
  <2>2. QED
    BY <1>1, <1>3, <1>4, <2>1 DEF Continued
<1>5. CASE plan.dir = "right"
  <2>1. f.c1 + ((p[1] - f.c1) % Width(f)) \in 0 .. MaxCol
    <3>1. p[1] - f.c1 \in Int
      BY <1>1
    <3>2. (p[1] - f.c1) % Width(f) \in Int /\ 0 <= (p[1] - f.c1) % Width(f)
          /\ (p[1] - f.c1) % Width(f) <= Width(f) - 1
      BY <1>2, <3>1, ModRange
    <3> DEFINE m == (p[1] - f.c1) % Width(f)
    <3> HIDE DEF m, f
    <3>3. QED
      BY <1>1, <1>2, <1>3, <3>2 DEF m
  <2>2. QED
    BY <1>1, <1>3, <1>5, <2>1 DEF Continued
<1>6. CASE plan.dir = "up"
  <2>1. f.r2 - ((f.r2 - p[2]) % Height(f)) \in 0 .. MaxRow
    <3>1. f.r2 - p[2] \in Int
      BY <1>1
    <3>2. (f.r2 - p[2]) % Height(f) \in Int /\ 0 <= (f.r2 - p[2]) % Height(f)
          /\ (f.r2 - p[2]) % Height(f) <= Height(f) - 1
      BY <1>2, <3>1, ModRange
    <3> DEFINE m == (f.r2 - p[2]) % Height(f)
    <3> HIDE DEF m, f
    <3>3. QED
      BY <1>1, <1>2, <1>3, <3>2 DEF m
  <2>2. QED
    BY <1>1, <1>3, <1>6, <2>1 DEF Continued
<1>7. CASE plan.dir = "left"
  <2>1. f.c2 - ((f.c2 - p[1]) % Width(f)) \in 0 .. MaxCol
    <3>1. f.c2 - p[1] \in Int
      BY <1>1
    <3>2. (f.c2 - p[1]) % Width(f) \in Int /\ 0 <= (f.c2 - p[1]) % Width(f)
          /\ (f.c2 - p[1]) % Width(f) <= Width(f) - 1
      BY <1>2, <3>1, ModRange
    <3> DEFINE m == (f.c2 - p[1]) % Width(f)
    <3> HIDE DEF m, f
    <3>3. QED
      BY <1>1, <1>2, <1>3, <3>2 DEF m
  <2>2. QED
    BY <1>1, <1>3, <1>7, <2>1 DEF Continued
<1>8. QED
  BY <1>4, <1>5, <1>6, <1>7

LEMMA SideReplaced ==
    ASSUME NEW d, IsArea(d), NEW x \in Nat \ {0}
    PROVE  /\ IsArea([d EXCEPT !.c2 = d.c1 + x - 1]) /\ IsArea([d EXCEPT !.r2 = d.r1 + x - 1])
           /\ IsArea([d EXCEPT !.r1 = d.r2 - x + 1]) /\ IsArea([d EXCEPT !.c1 = d.c2 - x + 1])
<1>1. d \in AreaRecord /\ d.c1 <= d.c2 /\ d.r1 <= d.r2
  BY DEF IsArea
<1>2. d.c1 \in Int /\ d.c2 \in Int /\ d.r1 \in Int /\ d.r2 \in Int
  BY <1>1 DEF AreaRecord
<1>3. ASSUME NEW y \in Int
      PROVE  /\ d.c1 <= y => IsArea([d EXCEPT !.c2 = y])
             /\ d.r1 <= y => IsArea([d EXCEPT !.r2 = y])
             /\ y <= d.c2 => IsArea([d EXCEPT !.c1 = y])
             /\ y <= d.r2 => IsArea([d EXCEPT !.r1 = y])
  BY <1>1 DEF IsArea, AreaRecord
<1>4. /\ d.c1 + x - 1 \in Int /\ d.r1 + x - 1 \in Int /\ d.r2 - x + 1 \in Int
      /\ d.c2 - x + 1 \in Int /\ d.c1 <= d.c1 + x - 1 /\ d.r1 <= d.r1 + x - 1
      /\ d.r2 - x + 1 <= d.r2 /\ d.c2 - x + 1 <= d.c2
  BY <1>2
<1>5. QED
  BY <1>3, <1>4

LEMMA PlanIsMade ==
    ASSUME NEW s, IsArea(s), NEW d, IsArea(d), FillPlan(s, d).dir # "none"
    PROVE  /\ FillPlan(s, d).dir \in {"down", "right", "up", "left"}
           /\ IsArea(FillPlan(s, d).from)
<1>1. Width(s) \in Nat \ {0} /\ Height(s) \in Nat \ {0}
  BY AreaHas
<1>2. /\ IsArea([d EXCEPT !.c2 = d.c1 + Width(s) - 1])
      /\ IsArea([d EXCEPT !.r2 = d.r1 + Height(s) - 1])
      /\ IsArea([d EXCEPT !.r1 = d.r2 - Height(s) + 1])
      /\ IsArea([d EXCEPT !.c1 = d.c2 - Width(s) + 1])
  BY <1>1, SideReplaced
<1> DEFINE A1 == [d EXCEPT !.c2 = d.c1 + Width(s) - 1]
           A2 == [d EXCEPT !.r2 = d.r1 + Height(s) - 1]
           A3 == [d EXCEPT !.r1 = d.r2 - Height(s) + 1]
           A4 == [d EXCEPT !.c1 = d.c2 - Width(s) + 1]
           start == s.c1 = d.c1 /\ s.r1 = d.r1
           plan == FillPlan(s, d)
<1>3. plan = CASE s = d -> [dir |-> "none", from |-> d]
               [] s # d /\ start /\ s.r2 = d.r2 -> [dir |-> "right", from |-> A1]
               [] s # d /\ start /\ s.r2 # d.r2 /\ s.c2 = d.c2 -> [dir |-> "down", from |-> A2]
               [] ~start /\ s.c1 = d.c1 -> [dir |-> "up", from |-> A3]
               [] ~start /\ s.c1 # d.c1 /\ s.r1 = d.r1 -> [dir |-> "left", from |-> A4]
               [] OTHER -> [dir |-> "none", from |-> d]
  BY DEF FillPlan
<1> HIDE DEF A1, A2, A3, A4
<1>4. \/ plan = [dir |-> "none", from |-> d] \/ plan = [dir |-> "right", from |-> A1]
      \/ plan = [dir |-> "down", from |-> A2] \/ plan = [dir |-> "up", from |-> A3]
      \/ plan = [dir |-> "left", from |-> A4]
  <2> HIDE DEF plan, start
  <2>1. QED
    BY <1>3
<1> HIDE DEF plan
<1>5. plan.dir # "none"
  BY DEF plan
<1>6. IsArea(A1) /\ IsArea(A2) /\ IsArea(A3) /\ IsArea(A4)
  BY <1>2 DEF A1, A2, A3, A4
<1>7. plan.dir \in {"down", "right", "up", "left"} /\ IsArea(plan.from)
  BY <1>4, <1>5, <1>6
<1>8. QED
  BY <1>7 DEF plan

LEMMA AutoFillKeeps == ASSUME IInv, AutoFill PROVE IInv'
<1>1. Ready /\ IsRange(it) /\ OnSheet(it)
  BY ItIsRange DEF AutoFill, Works
<1>2. CASE Throws
  BY <1>1, <1>2, ThrowsKeeps
<1>3. ASSUME NEW d, IsArea(d), Disturbs(CellKinds),
             LET plan == FillPlan(First(it), d)
             IN  Edits([p \in SheetCells |->
                            IF plan.dir # "none" /\ AreaOnSheet(plan.from)
                               /\ In(d, p) /\ ~In(plan.from, p)
                            THEN cell[Continued(plan, p)] ELSE cell[p]])
      PROVE  IInv'
  <2> DEFINE plan == FillPlan(First(it), d)
             f == [p \in SheetCells |->
                            IF plan.dir # "none" /\ AreaOnSheet(plan.from)
                               /\ In(d, p) /\ ~In(plan.from, p)
                            THEN cell[Continued(plan, p)] ELSE cell[p]]
  <2>1. ASSUME NEW p \in SheetCells, plan.dir # "none", AreaOnSheet(plan.from)
        PROVE  cell[Continued(plan, p)] \in Cell
    <3>1. IsArea(First(it))
      BY <1>1, RangeHas
    <3>2. plan.dir \in {"down", "right", "up", "left"} /\ IsArea(plan.from)
      BY <1>3, <2>1, <3>1, PlanIsMade
    <3> HIDE DEF plan
    <3>3. QED
      BY <2>1, <3>2, ContinuedOnSheet, CellsAre
  <2>2. Edits(f)
    BY <1>3
  <2> HIDE DEF plan
  <2>3. f \in CellMap
    BY <2>1, CellsAre DEF CellMap
  <2> HIDE DEF f
  <2>4. WroteOK' /\ Written'
    BY <1>3, <2>2, CellsDisturbed DEF Edits
  <2>5. QED
    BY <1>1, <2>2, <2>3, <2>4, EditsKeeps
<1>4. QED
  BY <1>2, <1>3 DEF AutoFill

-----------------------------------------------------------------------------
(* Merging and printing *)

LEMMA MarksAre ==
    ASSUME IInv
    PROVE  /\ marks \in MarksType
           /\ marks.merged \in SUBSET AreaRecord /\ marks.print \in Seq(AreaRecord)
           /\ marks.filter \in FilterType
BY DEF IInv, TypeOK, MarksType

LEMMA SetMergeCellsKeeps ==
    ASSUME IInv, NEW on \in BOOLEAN, SetMergeCells(on) PROVE IInv'
<1> DEFINE m == IF on THEN MergedWith(marks.merged, First(it))
                      ELSE Unmerged(marks.merged, First(it))
           all == [marks EXCEPT !.merged = m]
<1>1. Ready
  BY DEF SetMergeCells, Works
<1>2. CASE Throws
  BY <1>1, <1>2, ThrowsKeeps
<1>3. CASE EditsMarks(all) /\ UNCHANGED wrote
  <2>1. m \in SUBSET AreaRecord
    BY MarksAre, ItIsRange, RangeHas DEF MergedWith, Unmerged
  <2> HIDE DEF m
  <2>2. all \in MarksType /\ all.filter = marks.filter
    BY <2>1, MarksAre DEF MarksType
  <2> HIDE DEF all
  <2>3. QED
    BY <1>1, <1>3, <2>2, MarksAre, EditsMarksKeeps
<1>4. QED
  BY <1>2, <1>3 DEF SetMergeCells

LEMMA MergeAcrossKeeps == ASSUME IInv, MergeAcross PROVE IInv'
BY AnswersKeeps DEF MergeAcross, Works

LEMMA PrintOutKeeps == ASSUME IInv, PrintOut PROVE IInv'
<1> DEFINE all == [marks EXCEPT !.print = it.areas]
<1>1. Ready /\ EditsMarks(all) /\ UNCHANGED wrote
  BY DEF PrintOut, Works
<1>2. all \in MarksType /\ all.filter = marks.filter
  BY MarksAre, ItIsRange, RangeHas DEF MarksType
<1> HIDE DEF all
<1>3. QED
  BY <1>1, <1>2, MarksAre, EditsMarksKeeps

-----------------------------------------------------------------------------
(* The areas that a query finds *)

LEMMA BoundingIsArea ==
    ASSUME NEW S, S \subseteq SheetCells, S # {}
    PROVE  IsArea(Bounding(S)) /\ AreaOnSheet(Bounding(S))
<1> DEFINE X == {p[1] : p \in S}
           Y == {p[2] : p \in S}
<1>1. /\ X # {} /\ X \subseteq 0 .. MaxCol /\ Y # {} /\ Y \subseteq 0 .. MaxRow
  BY DEF SheetCells, SheetCols, SheetRows
<1>2. MaxCol \in Nat /\ MaxRow \in Nat /\ X \subseteq Nat /\ Y \subseteq Nat
  BY <1>1, SheetAssumption
<1>3. Bounding(S) = Area(Min(X), Min(Y), Max(X), Max(Y))
  BY DEF Bounding
<1> HIDE DEF X, Y
<1>4. /\ Min(X) \in X /\ Max(X) \in X /\ Min(Y) \in Y /\ Max(Y) \in Y
      /\ Min(X) <= Max(X) /\ Min(Y) <= Max(Y)
  BY <1>1, <1>2, MinOfSome, MaxOfSome
<1>5. /\ Min(X) \in Int /\ Max(X) \in Int /\ Min(Y) \in Int /\ Max(Y) \in Int
  <2>1. X \subseteq Int /\ Y \subseteq Int
    BY <1>2
  <2>2. QED
    BY <1>4, <2>1, Zenon
<1>6. IsArea(Area(Min(X), Min(Y), Max(X), Max(Y)))
  BY <1>4, <1>5, AreaIsMade
<1>7. AreaOnSheet(Area(Min(X), Min(Y), Max(X), Max(Y)))
  BY <1>1, <1>4 DEF AreaOnSheet, Area, SheetCols, SheetRows
<1>8. QED
  BY <1>3, <1>6, <1>7

LEMMA SetAsSeq ==
    ASSUME NEW S, IsFiniteSet(S), S # {}
    PROVE  /\ SetToSeq(S) \in Seq(S) /\ SetToSeq(S) # <<>>
<1>1. PICK f : f \in Bijection(1 .. Cardinality(S), S)
  BY FS_CardinalityType DEF ExistsBijection
<1>2. f \in [1 .. Cardinality(S) -> S] /\ IsInjective(f)
  BY <1>1 DEF Bijection, Injection
<1>3. SetToSeq(S) \in [1 .. Cardinality(S) -> S]
  BY <1>2 DEF SetToSeq
<1>4. Cardinality(S) \in Nat /\ Cardinality(S) # 0
  BY FS_CardinalityType, FS_EmptySet
<1>5. SetToSeq(S) \in Seq(S) /\ DOMAIN SetToSeq(S) = 1 .. Cardinality(S)
  BY <1>3, <1>4
<1>6. 1 \in 1 .. Cardinality(S)
  BY <1>4
<1>7. SetToSeq(S) # <<>>
  <2> DEFINE s == SetToSeq(S)
  <2>1. 1 \in DOMAIN s /\ s \in Seq(S)
    BY <1>5, <1>6
  <2> HIDE DEF s
  <2>2. s # <<>>
    BY <2>1
  <2>3. QED
    BY <2>2 DEF s
<1>8. QED
  BY <1>5, <1>7

LEMMA AreasForIsRange ==
    ASSUME NEW S, S \subseteq SheetCells, S # {} PROVE IsRange(Plain(AreasFor(S)))
<1>1. CASE CellsIn(Bounding(S)) = S
  BY <1>1, BoundingIsArea, OneArea DEF AreasFor
<1>2. CASE CellsIn(Bounding(S)) # S
  <2> DEFINE T == {Area(p[1], p[2], p[1], p[2]) : p \in S}
             f == [p \in S |-> Area(p[1], p[2], p[1], p[2])]
  <2>1. IsFiniteSet(SheetCells)
    <3>1. 0 \in Int /\ MaxCol \in Int /\ MaxRow \in Int
      BY SheetAssumption
    <3>2. IsFiniteSet(0 .. MaxCol) /\ IsFiniteSet(0 .. MaxRow)
      BY <3>1, FS_Interval
    <3>3. IsFiniteSet((0 .. MaxCol) \X (0 .. MaxRow))
      BY <3>2, FS_Product
    <3>4. QED
      BY <3>3 DEF SheetCells, SheetCols, SheetRows
  <2>2. IsFiniteSet(S)
    BY <2>1, FS_Subset
  <2>3. f \in Surjection(S, T)
    BY DEF Surjection
  <2>4. IsFiniteSet(T)
    <3> HIDE DEF T, f
    <3>1. QED
      BY <2>2, <2>3, FS_Surjection DEF ExistsSurjection
  <2>5. \A a \in T : IsArea(a)
    BY CellIsArea
  <2>6. T # {}
    OBVIOUS
  <2>7. AreasFor(S) = SetToSeq(T)
    BY <1>2 DEF AreasFor
  <2> HIDE DEF T
  <2>8. SetToSeq(T) \in Seq(T) /\ SetToSeq(T) # <<>>
    BY <2>4, <2>6, SetAsSeq
  <2> DEFINE s == SetToSeq(T)
  <2>9. s \in Seq(AreaRecord) /\ s # <<>> /\ \A i \in DOMAIN s : IsArea(s[i])
    <3> HIDE DEF s
    <3>0. s \in Seq(T) /\ s # <<>>
      BY <2>8 DEF s
    <3>1. \A i \in DOMAIN s : s[i] \in T
      BY <3>0
    <3>2. T \subseteq AreaRecord
      BY <2>5 DEF IsArea
    <3>3. QED
      BY <2>5, <3>0, <3>1, <3>2
  <2> HIDE DEF s
  <2>10. IsRange(Plain(s))
    BY <2>9, ManyAreas
  <2>11. QED
    BY <2>7, <2>10 DEF s
<1>3. QED
  BY <1>1, <1>2

LEMMA SpecialCellsKeeps == ASSUME IInv, DoSpecialCells PROVE IInv'
<1>1. Ready /\ IsRange(it) /\ OnSheet(it)
  BY ItIsRange DEF DoSpecialCells, Works
<1>2. CASE Throws
  BY <1>1, <1>2, ThrowsKeeps
<1> DEFINE used == {p \in SheetCells : cell[p] # Blank}
           all  == IF SingleCell(it) THEN CellsIn(Bounding(used \cup {<<0, 0>>}))
                                     ELSE CellsOf(it)
<1>3. all \subseteq SheetCells
  <2>1. used \cup {<<0, 0>>} \subseteq SheetCells /\ used \cup {<<0, 0>>} # {}
    <3>1. 0 \in 0 .. MaxCol /\ 0 \in 0 .. MaxRow
      BY SheetAssumption
    <3>2. <<0, 0>> \in SheetCells
      BY <3>1 DEF SheetCells, SheetCols, SheetRows
    <3>3. QED
      BY <3>2
  <2> HIDE DEF used
  <2>2. CellsIn(Bounding(used \cup {<<0, 0>>})) \subseteq SheetCells
    BY <2>1, BoundingIsArea, CellsOnSheet
  <2>3. QED
    BY <1>1, <2>2, RangeOnSheet
<1> HIDE DEF all
<1>4. ASSUME NEW type \in {"blanks", "comments", "constants", "formulas", "visible"},
             LET found == CellsLike(type, all)
             IN  IF found = {} THEN Crashes ELSE Becomes(Plain(AreasFor(found)))
      PROVE  IInv'
  <2> DEFINE found == CellsLike(type, all)
  <2>1. found \subseteq SheetCells
    BY <1>3 DEF CellsLike
  <2>2. IF found = {} THEN Crashes ELSE Becomes(Plain(AreasFor(found)))
    BY <1>4
  <2> HIDE DEF found
  <2>3. CASE found = {}
    BY <1>1, <2>2, <2>3, CrashesKeeps
  <2>4. CASE found # {}
    <3>1. IsRange(Plain(AreasFor(found)))
      BY <2>1, <2>4, AreasForIsRange
    <3>2. QED
      BY <1>1, <2>2, <2>4, <3>1, BecomesKeeps
  <2>5. QED
    BY <2>3, <2>4
<1>5. QED
  BY <1>2, <1>4 DEF DoSpecialCells, all

-----------------------------------------------------------------------------
(* Rows and columns *)

LEMMA LinesAre ==
    ASSUME IInv
    PROVE  /\ lines \in LinesType
           /\ lines.height \in [SheetRows -> {"usual", "tall"}]
           /\ lines.width \in [SheetCols -> {"usual", "broad", "fit"}]
           /\ lines.hiddenRows \in SUBSET SheetRows /\ lines.hiddenCols \in SUBSET SheetCols
           /\ lines.breakRows \in SUBSET SheetRows /\ lines.breakCols \in SUBSET SheetCols
           /\ lines.groups \in SUBSET ({"rows", "cols"} \X Int \X Int)
BY DEF IInv, TypeOK, LinesType

ReachedOf(g) == IF Several(g) THEN DOMAIN Tail(g.areas) ELSE DOMAIN g.areas

LEMMA ButLastReached ==
    ASSUME IInv
    PROVE  \A i \in ReachedOf(it) : it.areas[i] \in ToSet(ButLast)
<1> DEFINE s == it.areas
<1>1. s \in Seq(AreaRecord) /\ Len(s) \in Nat /\ DOMAIN s = 1 .. Len(s)
  BY ItIsRange, RangeHas
<1>2. CASE Several(it)
  <2>1. Len(s) > 1
    BY <1>2 DEF Several
  <2> HIDE DEF s
  <2>2. /\ Front(s) = [i \in 1 .. Len(s) - 1 |-> s[i]]
        /\ DOMAIN Tail(s) = 1 .. Len(s) - 1
    BY <1>1, <2>1 DEF Front
  <2>3. \A i \in 1 .. Len(s) - 1 : s[i] \in ToSet(Front(s))
    BY <2>2 DEF ToSet
  <2>4. QED
    BY <1>2, <2>2, <2>3 DEF ReachedOf, ButLast, s
<1>3. CASE ~Several(it)
  BY <1>3 DEF ReachedOf, ButLast, ToSet
<1>4. QED
  BY <1>2, <1>3

\* Rows and columns of the areas of the Range are of the sheet.
LEMMA LinesOnSheet ==
    ASSUME IInv, Works
    PROVE  /\ \A i \in DOMAIN it.areas : /\ RowsOf(it.areas[i]) \subseteq SheetRows
                                         /\ ColsOf(it.areas[i]) \subseteq SheetCols
           /\ ReachedOf(it) \subseteq DOMAIN it.areas
<1>1. IsRange(it) /\ OnSheet(it)
  BY ItIsRange DEF Works
<1>2. \A i \in DOMAIN it.areas : IsArea(it.areas[i]) /\ AreaOnSheet(it.areas[i])
  BY <1>1, RangeHas DEF OnSheet
<1>3. ReachedOf(it) \subseteq DOMAIN it.areas
  <2> DEFINE s == it.areas
  <2>1. s \in Seq(AreaRecord) /\ Len(s) \in Nat \ {0} /\ DOMAIN s = 1 .. Len(s)
    BY <1>1, RangeHas
  <2> HIDE DEF s
  <2>2. s # <<>> => DOMAIN Tail(s) = 1 .. Len(s) - 1
    BY <2>1
  <2>3. DOMAIN Tail(s) \subseteq DOMAIN s
    BY <2>1, <2>2
  <2>4. QED
    BY <2>3 DEF ReachedOf, s
<1>4. QED
  BY <1>2, <1>3, CellsOnSheet

LEMMA SetRowHeightKeeps ==
    ASSUME IInv, NEW h \in {"usual", "tall"}, SetRowHeight(h) PROVE IInv'
<1> DEFINE f == [r \in SheetRows |-> IF \E a \in ToSet(ButLast) : r \in RowsOf(a)
                                     THEN h ELSE lines.height[r]]
           l == [lines EXCEPT !.height = f]
<1>1. Works /\ Ready /\ EditsLines(l) /\ Remembers("height", h)
  BY DEF SetRowHeight, Works
<1>2. f \in [SheetRows -> {"usual", "tall"}]
  BY LinesAre
<1>3. \A i \in ReachedOf(it) : \A r \in RowsOf(it.areas[i]) : f[r] = h
  BY <1>1, ButLastReached, LinesOnSheet
<1> HIDE DEF f
<1>4. l \in LinesType /\ l.height = f /\ l.hiddenRows = lines.hiddenRows
  BY <1>2, LinesAre DEF LinesType
<1>5. WroteOK'
  BY <1>1, RememberedWell DEF WriteKinds
<1>6. Written'
  <2>1. wrote' = [kind |-> "height", range |-> it, value |-> h] /\ lines' = l
    BY <1>1 DEF Remembers, EditsLines
  <2> HIDE DEF l
  <2>2. Reached' = ReachedOf(it)
    BY <2>1 DEF Reached, ReachedOf
  <2>3. QED
    BY <1>3, <1>4, <2>1, <2>2 DEF Written, WrittenToCells, WrittenToLines
<1> HIDE DEF l
<1>7. QED
  BY <1>1, <1>4, <1>5, <1>6, EditsLinesKeeps

LEMMA SetColumnWidthKeeps ==
    ASSUME IInv, NEW w \in {"usual", "broad"}, SetColumnWidth(w) PROVE IInv'
<1> DEFINE f == [c \in SheetCols |-> IF \E a \in ToSet(ButLast) : c \in ColsOf(a)
                                     THEN w ELSE lines.width[c]]
           l == [lines EXCEPT !.width = f]
<1>1. Works /\ Ready /\ EditsLines(l) /\ Remembers("width", w)
  BY DEF SetColumnWidth, Works
<1>2. f \in [SheetCols -> {"usual", "broad", "fit"}]
  BY LinesAre
<1>3. \A i \in ReachedOf(it) : \A c \in ColsOf(it.areas[i]) : f[c] = w
  BY <1>1, ButLastReached, LinesOnSheet
<1> HIDE DEF f
<1>4. l \in LinesType /\ l.width = f /\ l.hiddenRows = lines.hiddenRows
  BY <1>2, LinesAre DEF LinesType
<1>5. WroteOK'
  BY <1>1, RememberedWell DEF WriteKinds
<1>6. Written'
  <2>1. wrote' = [kind |-> "width", range |-> it, value |-> w] /\ lines' = l
    BY <1>1 DEF Remembers, EditsLines
  <2> HIDE DEF l
  <2>2. Reached' = ReachedOf(it)
    BY <2>1 DEF Reached, ReachedOf
  <2>3. QED
    BY <1>3, <1>4, <2>1, <2>2 DEF Written, WrittenToCells, WrittenToLines
<1> HIDE DEF l
<1>7. QED
  BY <1>1, <1>4, <1>5, <1>6, EditsLinesKeeps

LEMMA AutofitKeeps == ASSUME IInv, Autofit PROVE IInv'
<1> DEFINE f == [c \in SheetCols |-> IF \E a \in ToSet(ButLast) : c \in ColsOf(a)
                                     THEN "fit" ELSE lines.width[c]]
           l == [lines EXCEPT !.width = f]
<1>1. Ready
  BY DEF Autofit, Works
<1>2. CASE Throws
  BY <1>1, <1>2, ThrowsKeeps
<1>3. CASE EditsLines(l) /\ Disturbs({"width"})
  <2>1. f \in [SheetCols -> {"usual", "broad", "fit"}]
    BY LinesAre
  <2> HIDE DEF f
  <2>2. l \in LinesType
    BY <2>1, LinesAre DEF LinesType
  <2>3. /\ l.height = lines.height /\ l.hiddenRows = lines.hiddenRows
        /\ l.hiddenCols = lines.hiddenCols /\ l.breakRows = lines.breakRows
        /\ l.breakCols = lines.breakCols
    BY LinesAre DEF LinesType
  <2> HIDE DEF l
  <2>4. CASE wrote.kind = "width"
    BY <1>1, <1>3, <2>2, <2>3, <2>4, WroteNothing, EditsLinesKeeps DEF Disturbs
  <2>5. CASE wrote.kind # "width"
    <3>1. wrote' = wrote /\ lines' = l /\ cell' = cell
      BY <1>3, <2>5 DEF Disturbs, EditsLines
    <3>2. WroteOK' /\ Written'
      BY <2>3, <2>5, <3>1
         DEF IInv, TypeOK, WroteOK, Written, WrittenToCells, WrittenToLines, Reached
    <3>3. QED
      BY <1>1, <1>3, <2>2, <2>3, <3>2, EditsLinesKeeps
  <2>6. QED
    BY <2>4, <2>5
<1>4. QED
  BY <1>2, <1>3 DEF Autofit

LEMMA SetHiddenKeeps == ASSUME IInv, NEW on \in BOOLEAN, SetHidden(on) PROVE IInv'
<1> DEFINE rows == IF it.rows THEN UNION {RowsOf(a) : a \in ToSet(it.areas)} ELSE {}
           cols == IF it.rows THEN {} ELSE UNION {ColsOf(a) : a \in ToSet(it.areas)}
           R == With(lines.hiddenRows, rows, on)
           C == With(lines.hiddenCols, cols, on)
           H == IF on THEN marks.filter.held ELSE marks.filter.held \ rows
           l == [lines EXCEPT !.hiddenRows = R, !.hiddenCols = C]
           f == [marks.filter EXCEPT !.held = H]
           m == [marks EXCEPT !.filter = f]
<1>1. /\ Works /\ Ready /\ lines' = l /\ marks' = m /\ Remembers("hidden", on)
      /\ got' = "ok" /\ UNCHANGED <<it, cell, view, app>>
  <2>1. m = [marks EXCEPT !.filter.held = H]
    OBVIOUS
  <2>2. QED
    BY <2>1 DEF SetHidden, Works
<1>2. \A i \in DOMAIN it.areas : it.areas[i] \in ToSet(it.areas)
  BY DEF ToSet
<1>3. /\ it.rows => \A i \in DOMAIN it.areas : \A r \in RowsOf(it.areas[i]) : on = (r \in R)
      /\ ~it.rows => \A i \in DOMAIN it.areas : \A c \in ColsOf(it.areas[i]) : on = (c \in C)
  BY <1>2 DEF With
<1>4. R \in SUBSET SheetRows /\ C \in SUBSET SheetCols
  <2>1. \A a \in ToSet(it.areas) : \E i \in DOMAIN it.areas : a = it.areas[i]
    BY DEF ToSet
  <2>2. \A a \in ToSet(it.areas) : RowsOf(a) \subseteq SheetRows /\ ColsOf(a) \subseteq SheetCols
    BY <1>1, <2>1, LinesOnSheet
  <2>3. QED
    BY <2>2, LinesAre DEF With
<1>5. H \subseteq R /\ H \subseteq marks.filter.held
  BY DEF IInv, FilterOK, FilterIsTidy, With
<1>6. H \in SUBSET SheetRows
  BY <1>5, MarksAre DEF FilterType
<1> HIDE DEF R, C, H
<1>7. l \in LinesType /\ l.hiddenRows = R /\ l.hiddenCols = C
  BY <1>4, LinesAre DEF LinesType
<1> HIDE DEF l
<1>8. /\ f \in FilterType /\ f.area = marks.filter.area /\ f.on = marks.filter.on
      /\ f.head = marks.filter.head /\ f.fields = marks.filter.fields
      /\ f.lost = marks.filter.lost /\ f.held = H
  BY <1>6, MarksAre DEF FilterType
<1> HIDE DEF f
<1>9. m \in MarksType /\ m.filter = f
  BY <1>8, MarksAre DEF MarksType
<1> HIDE DEF m
<1>10. WroteOK'
  BY <1>1, RememberedWell DEF WriteKinds
<1>11. TypeOK'
  BY <1>1, <1>7, <1>9, <1>10, CallsGoOn DEF IInv, TypeOK, ViewOK, AppOK
<1>12. Written'
  <2>1. wrote' = [kind |-> "hidden", range |-> it, value |-> on] /\ lines' = l
    BY <1>1 DEF Remembers
  <2>2. QED
    BY <1>3, <1>7, <2>1 DEF Written, WrittenToCells, WrittenToLines
<1>13. FilterOK'
  <2>1. Body(f) = Body(marks.filter)
    BY <1>8 DEF Body
  <2>2. /\ f.held \subseteq l.hiddenRows
        /\ ~f.on \/ f.fields = {} => f.held \subseteq f.lost
        /\ RowsOf(f.area) \subseteq SheetRows
        /\ ~f.on => f.fields = {}
        /\ f.held \ Body(f) \subseteq f.lost
    BY <1>5, <1>7, <1>8, <2>1 DEF IInv, FilterOK, FilterIsTidy
  <2>3. QED
    BY <1>1, <1>9, <2>2 DEF FilterOK, FilterIsTidy, Body
<1>14. QED
  BY <1>11, <1>12, <1>13 DEF IInv

LEMMA SetPageBreakKeeps == ASSUME IInv, NEW on \in BOOLEAN, SetPageBreak(on) PROVE IInv'
<1> DEFINE a == First(it)
           R == With(lines.breakRows, {a.r1}, on)
           C == With(lines.breakCols, {a.c1}, on)
           l == IF a.c1 = 0 /\ a.r1 = 0 THEN lines
                ELSE IF a.r1 = 0 THEN [lines EXCEPT !.breakCols = C]
                                 ELSE [lines EXCEPT !.breakRows = R]
<1>1. Works /\ Ready
  BY DEF SetPageBreak, Works
<1>2. CASE Throws
  BY <1>1, <1>2, ThrowsKeeps
<1>3. CASE ~Several(it) /\ EditsLines(l) /\ Remembers("break", on)
  <2>1. on = (a.r1 \in R) /\ on = (a.c1 \in C)
    BY DEF With
  <2>2. R \in SUBSET SheetRows /\ C \in SUBSET SheetCols
    <3>1. a.c1 \in SheetCols /\ a.r1 \in SheetRows
      BY <1>1, ItIsRange, RangeOnSheet DEF Works, AreaOnSheet
    <3>2. QED
      BY <3>1, LinesAre DEF With
  <2> HIDE DEF R, C, a
  <2>3. l \in LinesType
    BY <2>2, LinesAre DEF LinesType
  <2>4. /\ a.r1 # 0 => l.breakRows = R
        /\ a.r1 = 0 /\ a.c1 # 0 => l.breakCols = C
        /\ l.hiddenRows = lines.hiddenRows
    BY LinesAre DEF LinesType
  <2> HIDE DEF l
  <2>5. WroteOK'
    BY <1>1, <1>3, RememberedWell DEF WriteKinds
  <2>6. Written'
    <3>1. wrote' = [kind |-> "break", range |-> it, value |-> on] /\ lines' = l
      BY <1>3 DEF Remembers, EditsLines
    <3>2. QED
      BY <1>3, <2>1, <2>4, <3>1 DEF Written, WrittenToCells, WrittenToLines, a
  <2>7. QED
    BY <1>1, <1>3, <2>3, <2>4, <2>5, <2>6, EditsLinesKeeps
<1>4. QED
  BY <1>2, <1>3 DEF SetPageBreak

\* Groups of rows and columns: nothing is read from them.
LEMMA GroupsKeep ==
    ASSUME IInv, Ready, UNCHANGED wrote, NEW G \in SUBSET ({"rows", "cols"} \X Int \X Int),
           EditsLines([lines EXCEPT !.groups = G])
    PROVE  IInv'
<1> DEFINE l == [lines EXCEPT !.groups = G]
<1>1. l \in LinesType
  BY LinesAre DEF LinesType
<1>2. /\ l.height = lines.height /\ l.hiddenRows = lines.hiddenRows /\ l.width = lines.width
      /\ l.hiddenCols = lines.hiddenCols /\ l.breakRows = lines.breakRows
      /\ l.breakCols = lines.breakCols
  BY LinesAre DEF LinesType
<1>3. EditsLines(l)
  OBVIOUS
<1> HIDE DEF l
<1>4. wrote' = wrote /\ lines' = l /\ cell' = cell
  BY <1>3 DEF EditsLines
<1>5. WroteOK' /\ Written'
  BY <1>2, <1>4 DEF IInv, TypeOK, WroteOK, Written, WrittenToCells, WrittenToLines, Reached
<1>6. QED
  BY <1>1, <1>2, <1>3, <1>5, EditsLinesKeeps

LEMMA GroupKeeps == ASSUME IInv, NEW on \in BOOLEAN, Group(on) PROVE IInv'
<1> DEFINE a == First(it)
           g == IF it.cols THEN <<"cols", a.c1, a.c2>> ELSE <<"rows", a.r1, a.r2>>
           G == With(lines.groups, {g}, on)
<1>1. Ready
  BY DEF Group, Works
<1>2. CASE Throws
  BY <1>1, <1>2, ThrowsKeeps
<1>3. CASE EditsLines([lines EXCEPT !.groups = G]) /\ UNCHANGED wrote
  <2>1. g \in {"rows", "cols"} \X Int \X Int
    <3>1. a.c1 \in Int /\ a.r1 \in Int /\ a.c2 \in Int /\ a.r2 \in Int
      BY ItIsRange, RangeHas, AreaHas
    <3> HIDE DEF a
    <3>2. QED
      BY <3>1
  <2> HIDE DEF g
  <2>2. G \in SUBSET ({"rows", "cols"} \X Int \X Int)
    BY <2>1, LinesAre DEF With
  <2> HIDE DEF G
  <2>3. QED
    BY <1>1, <1>3, <2>2, GroupsKeep
<1>4. QED
  BY <1>2, <1>3 DEF Group

LEMMA ClearOutlineKeeps == ASSUME IInv, ClearOutline PROVE IInv'
<1>1. {} \in SUBSET ({"rows", "cols"} \X Int \X Int)
  OBVIOUS
<1>2. QED
  BY <1>1, GroupsKeep DEF ClearOutline, Works

LEMMA OutlineAndSubtotalKeep == ASSUME IInv, AutoOutline \/ Subtotal PROVE IInv'
BY ThrowsKeeps, CrashesKeeps DEF AutoOutline, Subtotal, Works

-----------------------------------------------------------------------------
(* Selecting *)

ViewType == [sel : Seq(AreaRecord) \ {<<>>}, cursor : Int \X Int]

LEMMA SelectIsView ==
    ASSUME NEW s \in Seq(AreaRecord), s # <<>>
    PROVE  SelectOf(s) \in ViewType /\ SelectOf(s).sel = s
<1>1. s[1] \in AreaRecord
  BY EmptySeq
<1>2. s[1].c1 \in Int /\ s[1].r1 \in Int
  BY <1>1 DEF AreaRecord
<1>3. QED
  BY <1>2 DEF SelectOf, ViewType

LEMMA CellSelected ==
    ASSUME NEW x \in Int, NEW y \in Int
    PROVE  /\ SelectOf(<<Area(x, y, x, y)>>) \in ViewType
           /\ SelectOf(<<Area(x, y, x, y)>>).cursor = <<x, y>>
<1> DEFINE a == Area(x, y, x, y)
<1>1. a \in AreaRecord /\ a.c1 = x /\ a.r1 = y
  BY AreaIsMade DEF Area
<1> HIDE DEF a
<1>2. <<a>> \in Seq(AreaRecord) /\ <<a>> # <<>> /\ <<a>>[1] = a
  BY <1>1
<1>3. SelectOf(<<a>>) \in ViewType
  BY <1>2, SelectIsView
<1>4. SelectOf(<<a>>).cursor = <<x, y>>
  BY <1>1, <1>2 DEF SelectOf
<1>5. QED
  BY <1>3, <1>4 DEF a

LEMMA LooksKeeps ==
    ASSUME IInv, Ready, view' \in ViewType, IsRange(it'), got' \in {"ok", "threw"},
           UNCHANGED <<sheet, app, wrote>>
    PROVE  IInv'
<1>1. UNCHANGED <<cell, lines, marks, app, wrote>>
  BY DEF sheet
<1>2. WroteOK' /\ Written'
  BY <1>1, WroteKept
<1>3. TypeOK'
  BY <1>1, <1>2, CallsGoOn DEF IInv, TypeOK, ViewOK, AppOK, ViewType
<1>4. FilterOK'
  BY <1>1, FilterKept
<1>5. QED
  BY <1>2, <1>3, <1>4 DEF IInv

LEMMA ViewIs == ASSUME IInv PROVE view \in ViewType /\ view.sel \in Seq(AreaRecord)
                                  /\ view.sel # <<>> /\ view.cursor \in Int \X Int
BY DEF IInv, TypeOK, ViewOK, ViewType

LEMMA SelectKeeps == ASSUME IInv, Select PROVE IInv'
<1>1. SelectOf(it.areas) \in ViewType
  BY ItIsRange, SelectIsView DEF IsRange
<1>2. QED
  BY <1>1, ItIsRange, LooksKeeps DEF Select, Works, Shows

LEMMA ActivateKeeps == ASSUME IInv, Activate PROVE IInv'
<1> DEFINE p == <<First(it).c1, First(it).r1>>
           v == IF \E a \in ToSet(view.sel) : In(a, p)
                THEN [view EXCEPT !.cursor = p] ELSE SelectOf(it.areas)
<1>1. Ready /\ Shows(v)
  BY DEF Activate, Works
<1>2. SelectOf(it.areas) \in ViewType
  BY ItIsRange, SelectIsView DEF IsRange
<1>3. p \in Int \X Int
  BY ItIsRange, RangeHas, AreaHas
<1>4. [view EXCEPT !.cursor = p] \in ViewType
  <2> HIDE DEF p
  <2>1. QED
    BY <1>3, ViewIs DEF ViewType
<1>5. v \in ViewType
  BY <1>2, <1>4
<1> HIDE DEF v
<1>6. QED
  BY <1>1, <1>5, ItIsRange, LooksKeeps DEF Shows

LEMMA EndKeeps == ASSUME IInv, End PROVE IInv'
<1>1. Ready /\ IsRange(it)
  BY ItIsRange DEF End, Works
<1> DEFINE x == First(it).c1
           y == First(it).r1
           c == view.cursor
<1>2. x \in Int /\ y \in Int /\ c[1] \in Int /\ c[2] \in Int
  BY <1>1, RangeHas, AreaHas, ViewIs
<1>3. CASE /\ view' = SelectOf(<<Area(x, y, x, y)>>)
           /\ got' = "threw"
           /\ UNCHANGED <<it, sheet, app, wrote>>
  BY <1>1, <1>2, <1>3, CellSelected, LooksKeeps
<1>4. ASSUME NEW q \in SheetCells,
             view' = SelectOf(<<Area(c[1], c[2], c[1], c[2])>>),
             it' = Plain(<<Area(q[1], q[2], q[1], q[2])>>), got' = "ok",
             UNCHANGED <<sheet, app, wrote>>
      PROVE  IInv'
  BY <1>1, <1>2, <1>4, CellSelected, CellIsArea, OneArea, LooksKeeps
<1>5. QED
  BY <1>3, <1>4 DEF End

-----------------------------------------------------------------------------
(* The clipboard *)

LEMMA FirstOnSheet ==
    ASSUME IInv, Works
    PROVE  First(it) \in SheetAreas /\ it.areas \in Seq(AreaRecord) /\ it.areas # <<>>
BY ItIsRange, RangeHas, RangeOnSheet DEF Works, SheetAreas, IsRange

LEMMA SheetAreaHas ==
    ASSUME NEW a \in SheetAreas
    PROVE  /\ IsArea(a) /\ AreaOnSheet(a) /\ MaxCol \in Nat /\ MaxRow \in Nat
           /\ a.c1 \in 0 .. MaxCol /\ a.c2 \in 0 .. MaxCol /\ a.c1 <= a.c2
           /\ a.r1 \in 0 .. MaxRow /\ a.r2 \in 0 .. MaxRow /\ a.r1 <= a.r2
           /\ Width(a) = a.c2 - a.c1 + 1 /\ Height(a) = a.r2 - a.r1 + 1
           /\ SheetCells = (0 .. MaxCol) \X (0 .. MaxRow)
BY SheetAssumption
   DEF SheetAreas, IsArea, AreaOnSheet, Width, Height, SheetCells, SheetCols, SheetRows

LEMMA ClipIsClip ==
    ASSUME NEW cs \in CellMap, NEW a \in SheetAreas PROVE IsClip(Clip(cs, a))
<1> DEFINE w == Width(a)
           h == Height(a)
<1>1. w \in 1 .. MaxCol + 1 /\ h \in 1 .. MaxRow + 1
  BY SheetAreaHas
<1>2. \A q \in (0 .. w - 1) \X (0 .. h - 1) : <<a.c1 + q[1], a.r1 + q[2]>> \in SheetCells
  BY SheetAreaHas
<1>3. \A q \in (0 .. w - 1) \X (0 .. h - 1) : cs[<<a.c1 + q[1], a.r1 + q[2]>>] \in Cell
  BY <1>2 DEF CellMap
<1>4. Clip(cs, a) \in [(0 .. w - 1) \X (0 .. h - 1) -> Cell]
  <2> HIDE DEF w, h
  <2>1. Clip(cs, a) = [q \in (0 .. w - 1) \X (0 .. h - 1) |-> cs[<<a.c1 + q[1], a.r1 + q[2]>>]]
    BY DEF Clip, w, h
  <2>2. QED
    BY <1>3, <2>1
<1> HIDE DEF w, h
<1>5. QED
  BY <1>1, <1>4 DEF IsClip

LEMMA TargetHas ==
    ASSUME NEW a \in SheetAreas, NEW p \in SheetCells, AreaOnSheet(Target(a, p))
    PROVE  /\ Target(a, p) \in SheetAreas
           /\ \A q \in SheetCells :
                /\ In(Target(a, p), q) => <<q[1] - p[1] + a.c1, q[2] - p[2] + a.r1>> \in CellsIn(a)
                /\ In(a, q) => <<q[1] - a.c1 + p[1], q[2] - a.r1 + p[2]>> \in CellsIn(Target(a, p))
<1> DEFINE t == Target(a, p)
<1>1. /\ t.c1 = p[1] /\ t.r1 = p[2]
      /\ t.c2 = p[1] + (a.c2 - a.c1 + 1) - 1 /\ t.r2 = p[2] + (a.r2 - a.r1 + 1) - 1
  BY SheetAreaHas DEF Target, Area
<1>2. p[1] \in 0 .. MaxCol /\ p[2] \in 0 .. MaxRow
  BY SheetAreaHas
<1>3. IsArea(t)
  <2>1. /\ Width(a) \in Nat \ {0} /\ Height(a) \in Nat \ {0}
    BY SheetAreaHas
  <2>2. /\ p[1] \in Int /\ p[2] \in Int /\ p[1] + Width(a) - 1 \in Int
        /\ p[2] + Height(a) - 1 \in Int /\ p[1] <= p[1] + Width(a) - 1
        /\ p[2] <= p[2] + Height(a) - 1
    BY <1>2, <2>1
  <2>3. QED
    BY <2>2, AreaIsMade DEF Target
<1>4. t \in SheetAreas
  BY <1>3 DEF SheetAreas, IsArea
<1> HIDE DEF t
<1>5. ASSUME NEW q \in SheetCells
      PROVE  /\ In(t, q) => <<q[1] - p[1] + a.c1, q[2] - p[2] + a.r1>> \in CellsIn(a)
             /\ In(a, q) => <<q[1] - a.c1 + p[1], q[2] - a.r1 + p[2]>> \in CellsIn(t)
  BY <1>1, <1>2, SheetAreaHas DEF In, CellsIn
<1>6. QED
  BY <1>4, <1>5 DEF t

LEMMA CopiedMap ==
    ASSUME NEW cs \in CellMap, NEW a \in SheetAreas, NEW p \in SheetCells
    PROVE  /\ CopiedTo(cs, a, p) \in CellMap /\ MovedTo(cs, a, p) \in CellMap
           /\ Emptied(cs, a) \in CellMap
<1>1. CopiedTo(cs, a, p) \in CellMap
  <2>1. CASE ~AreaOnSheet(Target(a, p))
    BY <2>1 DEF CopiedTo
  <2>2. CASE AreaOnSheet(Target(a, p))
    <3>1. CellsIn(a) \subseteq SheetCells
      BY SheetAreaHas, CellsOnSheet
    <3>2. ASSUME NEW q \in SheetCells
          PROVE  (IF In(Target(a, p), q) THEN cs[<<q[1] - p[1] + a.c1, q[2] - p[2] + a.r1>>]
                                         ELSE cs[q]) \in Cell
      <4>1. In(Target(a, p), q) => <<q[1] - p[1] + a.c1, q[2] - p[2] + a.r1>> \in SheetCells
        BY <2>2, <3>1, TargetHas
      <4>2. QED
        BY <4>1 DEF CellMap
    <3>3. QED
      BY <2>2, <3>2 DEF CopiedTo, CellMap
  <2>3. QED
    BY <2>1, <2>2
<1>2. MovedTo(cs, a, p) \in CellMap
  <2> DEFINE moved == CopiedTo(cs, a, p)
  <2>1. moved \in CellMap
    BY <1>1
  <2>2. MovedTo(cs, a, p) = IF ~AreaOnSheet(Target(a, p)) THEN cs
                            ELSE [q \in SheetCells |->
                                    IF In(a, q) /\ ~In(Target(a, p), q) THEN Blank ELSE moved[q]]
    BY DEF MovedTo
  <2> HIDE DEF moved
  <2>3. QED
    BY <2>1, <2>2, SomeContents DEF CellMap
<1>3. Emptied(cs, a) \in CellMap
  BY SomeContents DEF Emptied, CellMap
<1>4. QED
  BY <1>1, <1>2, <1>3

LEMMA ClipReplaced ==
    ASSUME IInv, NEW x, IsClip(x), app' = [app EXCEPT !.clip = x] PROVE AppOK'
<1>1. app' = [clip |-> x, word |-> app.word, byRow |-> app.byRow, sort |-> app.sort]
  BY AppHas
<1>2. app'.clip = x /\ app'.word = app.word /\ app'.byRow = app.byRow /\ app'.sort = app.sort
  BY <1>1
<1>3. QED
  BY <1>1, <1>2, AppHas DEF AppOK

LEMMA CopyKeeps == ASSUME IInv, Copy PROVE IInv'
<1>1. Ready /\ IsRange(it) /\ First(it) \in SheetAreas
  BY ItIsRange, FirstOnSheet DEF Copy, Works
<1>2. CASE Throws
  BY <1>1, <1>2, ThrowsKeeps
<1>3. ASSUME NEW p \in SheetCells, Edits(CopiedTo(cell, First(it), p)), Disturbs(CellKinds)
      PROVE  IInv'
  <2>1. CopiedTo(cell, First(it), p) \in CellMap
    BY <1>1, CellsAre, CopiedMap
  <2>2. WroteOK' /\ Written'
    BY <1>3, CellsDisturbed DEF Edits
  <2>3. QED
    BY <1>1, <1>3, <2>1, <2>2, EditsKeeps
<1>4. CASE /\ view' = SelectOf(it.areas)
           /\ app' = [app EXCEPT !.clip = Clip(cell, First(it))]
           /\ got' = "ok"
           /\ UNCHANGED <<it, sheet, wrote>>
  <2>1. view' \in ViewType
    BY <1>1, <1>4, SelectIsView DEF IsRange
  <2>2. AppOK'
    BY <1>1, <1>4, CellsAre, ClipIsClip, ClipReplaced
  <2>3. UNCHANGED <<cell, lines, marks, it, wrote>>
    BY <1>4 DEF sheet
  <2>4. WroteOK' /\ Written'
    BY <2>3, WroteKept
  <2>5. ViewOK' /\ IsRange(it') /\ cell' \in CellMap
    BY <1>1, <2>1, <2>3, CellsAre DEF ViewOK, ViewType
  <2>6. QED
    BY <1>1, <1>4, <2>2, <2>3, <2>4, <2>5, CellsAndAppKeep
<1>5. QED
  BY <1>2, <1>3, <1>4 DEF Copy

LEMMA CutAtKeeps ==
    ASSUME IInv, Ready, NEW cs \in CellMap, NEW g, IsRange(g), First(g) \in SheetAreas, CutAt(cs, g)
    PROVE  IInv'
<1>1. view' \in ViewType
  BY SelectIsView DEF IsRange, CutAt
<1>2. AppOK'
  BY ClipIsClip, ClipReplaced DEF CutAt
<1>3. WroteOK' /\ Written'
  BY CellsDisturbed DEF CutAt
<1>4. cell' \in CellMap
  <2>1. Emptied(cs, First(g)) \in CellMap
    BY SomeContents DEF Emptied, CellMap
  <2>2. QED
    BY <2>1 DEF CutAt
<1>5. ViewOK' /\ IsRange(it')
  BY <1>1 DEF ViewOK, ViewType, CutAt
<1>6. QED
  BY <1>2, <1>3, <1>4, <1>5, CellsAndAppKeep DEF CutAt

LEMMA MovedIsRange ==
    ASSUME NEW g, IsRange(g), First(g) \in SheetAreas, NEW p \in SheetCells, NEW m \in Moved(g, p)
    PROVE  IsRange(m) /\ First(m) \in SheetAreas
<1>1. CASE m = g
  BY <1>1
<1>2. CASE m # g
  <2> DEFINE t == Target(First(g), p)
  <2>1. AreaOnSheet(t) /\ m = [g EXCEPT !.areas = <<t>>]
    BY <1>2 DEF Moved
  <2>2. t \in SheetAreas
    BY <2>1, TargetHas
  <2> HIDE DEF t
  <2>3. m = [areas |-> <<t>>, rows |-> g.rows, cols |-> g.cols]
    BY <2>1, RangeHas
  <2>4. QED
    BY <2>2, <2>3, RangeHas, OneAreaRange DEF SheetAreas, First
<1>3. QED
  BY <1>1, <1>2

LEMMA CutKeeps == ASSUME IInv, Cut PROVE IInv'
<1>1. Ready /\ IsRange(it) /\ First(it) \in SheetAreas
  BY ItIsRange, FirstOnSheet DEF Cut, Works
<1>2. CASE Throws
  BY <1>1, <1>2, ThrowsKeeps
<1>3. CASE CutAt(cell, it)
  BY <1>1, <1>3, CellsAre, CutAtKeeps
<1>4. ASSUME NEW p \in SheetCells, NEW g \in Moved(it, p), CutAt(MovedTo(cell, First(it), p), g)
      PROVE  IInv'
  <2>1. MovedTo(cell, First(it), p) \in CellMap
    BY <1>1, CellsAre, CopiedMap
  <2>2. IsRange(g) /\ First(g) \in SheetAreas
    BY <1>1, MovedIsRange
  <2>3. QED
    BY <1>1, <1>4, <2>1, <2>2, CutAtKeeps
<1>5. QED
  BY <1>2, <1>3, <1>4 DEF Cut

-----------------------------------------------------------------------------
(* Deleting and inserting *)

LEMMA RemovedMap ==
    ASSUME NEW cs \in CellMap, NEW a, NEW mode PROVE Removed(cs, a, mode) \in CellMap
<1>1. \A p : CellOr(cs, p) \in Cell
  BY SomeContents DEF CellOr, CellMap
<1>2. \A p \in SheetCells : cs[p] \in Cell
  BY DEF CellMap
<1>3. QED
  BY <1>1, <1>2 DEF Removed, CellMap

LEMMA FollowedIsArea ==
    ASSUME NEW a, IsArea(a), NEW b, IsArea(b), NEW mode PROVE IsArea(Followed(b, a, mode))
<1>1. Width(a) \in Nat /\ Height(a) \in Nat
  BY AreaHas
<1>2. 0 \in Int /\ -Width(a) \in Int /\ -Height(a) \in Int
  BY <1>1
<1>3. IsArea(Shift(b, 0, -Height(a))) /\ IsArea(Shift(b, -Width(a), 0))
  BY <1>2, ShiftIsArea
<1>4. QED
  BY <1>3 DEF Followed

\* Cells and areas while one area after the other is deleted.
Deleting(n) == [cells : CellMap,
                areas : {s \in [1 .. n -> AreaRecord] : \A j \in 1 .. n : IsArea(s[j])}]

ModeOf(shift, a) == IF shift # "" THEN shift ELSE IF a.r1 > a.c1 THEN "up" ELSE "left"

\* A call that leaves nothing of what has been set.
LEMMA CellsAndItKeep ==
    ASSUME IInv, Ready, cell' \in CellMap, IsRange(it'), wrote' = NoWrite, got' = "ok",
           UNCHANGED <<lines, marks, view, app>>
    PROVE  IInv'
<1>1. WroteOK' /\ Written'
  BY WroteNothing
<1>2. ViewOK' /\ AppOK'
  BY DEF IInv, TypeOK, ViewOK, AppOK
<1>3. QED
  BY <1>1, <1>2, CellsAndAppKeep

LEMMA DeleteKeeps == ASSUME IInv, NEW shift, Delete(shift) PROVE IInv'
<1> DEFINE mode(a) == IF shift # "" THEN shift ELSE IF a.r1 > a.c1 THEN "up" ELSE "left"
           step(s, i) ==
             LET a == s.areas[i]
             IN  [cells |-> Removed(s.cells, a, mode(a)),
                  areas |-> [j \in DOMAIN s.areas |-> Followed(s.areas[j], a, mode(a))]]
           base == [cells |-> cell, areas |-> it.areas]
           ids == [i \in DOMAIN it.areas |-> i]
           all == FoldLeft(step, base, ids)
           n == Len(it.areas)
<1>1. Ready /\ IsRange(it)
  BY ItIsRange DEF Delete, Works
<1>2. CASE Throws
  BY <1>1, <1>2, ThrowsKeeps
<1>3. CASE /\ IF marks.merged # {} THEN UNCHANGED <<it, cell>>
              ELSE cell' = all.cells /\ it' = [it EXCEPT !.areas = all.areas]
           /\ got' = "ok"
           /\ wrote' = NoWrite
           /\ UNCHANGED <<lines, marks, view, app>>
  <2>1. /\ n \in Nat \ {0} /\ ids = [i \in 1 .. n |-> i]
        /\ it.areas \in Seq(AreaRecord) /\ DOMAIN it.areas = 1 .. n
        /\ \A i \in 1 .. n : IsArea(it.areas[i])
    BY <1>1, RangeHas
  <2>2. it.areas \in [1 .. n -> AreaRecord]
    BY <2>1
  <2>3. base \in Deleting(n)
    BY <2>1, <2>2, CellsAre DEF Deleting
  <2> HIDE DEF base, ids, n
  <2>4. all \in Deleting(n)
    <3> DEFINE E(iter) == iter = [s \in SUBSET (1 .. n) |->
                                   IF s = {} THEN base ELSE step(iter[s \ {Max(s)}], ids[Max(s)])]
               J == CHOOSE iter : E(iter)
               hop == [p \in Deleting(n) \X (1 .. n) |-> step(p[1], ids[p[2]])]
    <3>1. n \in Nat /\ DOMAIN ids = 1 .. n /\ \A i \in 1 .. n : ids[i] \in 1 .. n
      BY <2>1
    <3>2. \A x \in Deleting(n) : \A a \in 1 .. n : step(x, a) \in Deleting(n)
      <4>1. TAKE x \in Deleting(n)
      <4>2. TAKE a \in 1 .. n
      <4>3. /\ x.cells \in CellMap /\ x.areas \in [1 .. n -> AreaRecord]
            /\ \A j \in 1 .. n : IsArea(x.areas[j])
        BY DEF Deleting
      <4>4. Removed(x.cells, x.areas[a], ModeOf(shift, x.areas[a])) \in CellMap
        BY <4>3, RemovedMap
      <4>5. \A j \in 1 .. n : IsArea(Followed(x.areas[j], x.areas[a], ModeOf(shift, x.areas[a])))
        BY <4>3, FollowedIsArea
      <4>6. [j \in DOMAIN x.areas |-> Followed(x.areas[j], x.areas[a], ModeOf(shift, x.areas[a]))]
              \in {s \in [1 .. n -> AreaRecord] : \A j \in 1 .. n : IsArea(s[j])}
        BY <4>3, <4>5 DEF IsArea
      <4>7. step(x, a) = [cells |-> Removed(x.cells, x.areas[a], ModeOf(shift, x.areas[a])),
                       areas |-> [j \in DOMAIN x.areas |->
                                    Followed(x.areas[j], x.areas[a], ModeOf(shift, x.areas[a]))]]
        BY DEF ModeOf
      <4> HIDE DEF step
      <4>8. QED
        BY <4>4, <4>6, <4>7 DEF Deleting
    <3>3. all = J[1 .. n]
      BY <3>1 DEF FoldLeft, MapThenFoldSet
    <3> HIDE DEF step
    <3>4. hop \in [Deleting(n) \X (1 .. n) -> Deleting(n)]
      BY <3>1, <3>2
    <3>5. PICK f \in [SUBSET (1 .. n) -> Deleting(n)] : Folds(f, n, base, hop)
      <4> HIDE DEF hop
      <4>1. QED
        BY <2>3, <3>1, <3>4, FoldExists
    <3>6. E(f)
      <4>1. ASSUME NEW s \in SUBSET (1 .. n)
            PROVE  f[s] = IF s = {} THEN base ELSE step(f[s \ {Max(s)}], ids[Max(s)])
        <5>1. CASE s = {}
          BY <3>5, <5>1 DEF Folds
        <5>2. CASE s # {}
          <6>1. Max(s) \in 1 .. n /\ s \ {Max(s)} \in SUBSET (1 .. n)
            BY <3>1, <5>2, MaxOfDomain
          <6>2. <<f[s \ {Max(s)}], Max(s)>> \in Deleting(n) \X (1 .. n)
            BY <6>1
          <6>3. QED
            BY <3>5, <5>2, <6>1, <6>2 DEF Folds
        <5>3. QED
          BY <5>1, <5>2
      <4>2. QED
        BY <4>1
    <3>7. E(J)
      BY <3>6
    <3>8. /\ J[{}] \in Deleting(n)
          /\ \A s \in SUBSET (1 .. n) : s # {} /\ J[s \ {Max(s)}] \in Deleting(n) => J[s] \in Deleting(n)
      <4> HIDE DEF J
      <4>1. QED
        BY <2>3, <3>1, <3>2, <3>7, MaxOfDomain
    <3>9. J[1 .. n] \in Deleting(n)
      <4> HIDE DEF J
      <4>1. QED
        BY <3>1, <3>8, FoldKeeps
    <3>10. QED
      BY <3>3, <3>9
  <2> HIDE DEF all
  <2>5. /\ all.cells \in CellMap /\ all.areas \in [1 .. n -> AreaRecord]
        /\ \A i \in 1 .. n : IsArea(all.areas[i])
    BY <2>4 DEF Deleting
  <2>6. IsRange([it EXCEPT !.areas = all.areas])
    <3> DEFINE s == all.areas
               g == [it EXCEPT !.areas = s]
    <3>1. g.areas = s /\ g \in [areas : {s}, rows : BOOLEAN, cols : BOOLEAN]
      BY <1>1, RangeHas
    <3>2. s \in Seq(AreaRecord) /\ DOMAIN s = 1 .. n
      BY <2>1, <2>5
    <3> HIDE DEF g, s
    <3>3. s # <<>>
      BY <2>1, <3>2
    <3>4. IsRange(g)
      BY <2>5, <3>1, <3>2, <3>3 DEF IsRange, s
    <3>5. QED
      BY <3>4 DEF g, s
  <2>7. cell' \in CellMap /\ IsRange(it')
    BY <1>1, <1>3, <2>5, <2>6, CellsAre
  <2>8. QED
    BY <1>1, <1>3, <2>7, CellsAndItKeep
<1>4. QED
  BY <1>2, <1>3 DEF Delete

LEMMA InsertedMap ==
    ASSUME IInv, NEW a \in SheetAreas, NEW mode PROVE Inserted(a, mode) \in CellMap
<1> DEFINE at(p) == IF In(a, p) THEN Blank
                    ELSE IF mode = "down" /\ p[1] \in ColsOf(a) /\ p[2] > a.r2
                    THEN cell[<<p[1], p[2] - Height(a)>>]
                    ELSE IF mode = "right" /\ p[2] \in RowsOf(a) /\ p[1] > a.c2
                    THEN cell[<<p[1] - Width(a), p[2]>>]
                    ELSE cell[p]
<1>1. ASSUME NEW p \in SheetCells PROVE at(p) \in Cell
  <2>1. /\ p[2] > a.r2 => <<p[1], p[2] - Height(a)>> \in SheetCells
        /\ p[1] > a.c2 => <<p[1] - Width(a), p[2]>> \in SheetCells
    BY SheetAreaHas
  <2>2. QED
    BY <2>1, CellsAre, SomeContents
<1>2. Inserted(a, mode) = [p \in SheetCells |-> at(p)]
  BY DEF Inserted
<1> HIDE DEF at
<1>3. QED
  BY <1>1, <1>2 DEF CellMap

LEMMA InsertKeeps == ASSUME IInv, NEW shift, Insert(shift) PROVE IInv'
<1> DEFINE a    == First(it)
           mode == IF shift # "" THEN shift ELSE IF a.r1 >= a.c1 THEN "down" ELSE "right"
           b    == IF mode = "down" THEN Shift(a, 0, Height(a)) ELSE Shift(a, Width(a), 0)
<1>1. Ready /\ IsRange(it) /\ a \in SheetAreas
  BY ItIsRange, FirstOnSheet DEF Insert, Works
<1>2. CASE Throws
  BY <1>1, <1>2, ThrowsKeeps
<1>3. CASE /\ IF marks.merged # {} THEN UNCHANGED <<it, cell>>
              ELSE /\ cell' = Inserted(a, mode)
                   /\ it' = IF AreaOnSheet(b) THEN [it EXCEPT !.areas = <<b>>] ELSE it
           /\ got' = "ok"
           /\ wrote' = NoWrite
           /\ UNCHANGED <<lines, marks, view, app>>
  <2>1. IsArea(b)
    <3>1. IsArea(a) /\ Width(a) \in Int /\ Height(a) \in Int /\ 0 \in Int
      BY <1>1, RangeHas, AreaHas
    <3> HIDE DEF a, mode
    <3>2. QED
      BY <3>1, ShiftIsArea
  <2>2. Inserted(a, mode) \in CellMap
    BY <1>1, InsertedMap
  <2> HIDE DEF a, mode, b
  <2>3. IsRange([it EXCEPT !.areas = <<b>>])
    <3>1. [it EXCEPT !.areas = <<b>>] = [areas |-> <<b>>, rows |-> it.rows, cols |-> it.cols]
      BY <1>1, RangeHas
    <3>2. QED
      BY <1>1, <2>1, <3>1, RangeHas, OneAreaRange
  <2>4. cell' \in CellMap /\ IsRange(it')
    BY <1>1, <1>3, <2>2, <2>3, CellsAre
  <2>5. QED
    BY <1>1, <1>3, <2>4, CellsAndItKeep
<1>4. QED
  BY <1>2, <1>3 DEF Insert

-----------------------------------------------------------------------------
(* Pasting and sorting *)

LEMMA PastedMap ==
    ASSUME IInv, NEW clip, clip # <<>>, IsClip(clip), NEW a \in SheetAreas,
           NEW paste \in {"all", "comments", "formats", "formulas", "values", "widths"}
    PROVE  PastedFrom(clip, a, paste) \in CellMap
<1>1. PICK w \in 1 .. MaxCol + 1, h \in 1 .. MaxRow + 1 :
              clip \in [(0 .. w - 1) \X (0 .. h - 1) -> Cell]
  BY DEF IsClip
<1>2. w \in Nat \ {0} /\ h \in Nat \ {0}
  BY <1>1, SheetAssumption
<1>3. DOMAIN clip = (0 .. w - 1) \X (0 .. h - 1)
  BY <1>1
<1>4. {q[1] : q \in DOMAIN clip} = 0 .. w - 1 /\ {q[2] : q \in DOMAIN clip} = 0 .. h - 1
  <2>1. \A x \in 0 .. w - 1 : <<x, 0>> \in DOMAIN clip
    BY <1>2, <1>3
  <2>2. \A y \in 0 .. h - 1 : <<0, y>> \in DOMAIN clip
    BY <1>2, <1>3
  <2>3. \A q \in DOMAIN clip : q[1] \in 0 .. w - 1 /\ q[2] \in 0 .. h - 1
    BY <1>3
  <2>4. {q[1] : q \in DOMAIN clip} = 0 .. w - 1
    <3>1. \A x \in 0 .. w - 1 : \E q \in DOMAIN clip : q[1] = x
      <4>1. TAKE x \in 0 .. w - 1
      <4>2. <<x, 0>>[1] = x
        OBVIOUS
      <4>3. QED
        BY <2>1, <4>2, Zenon
    <3>2. QED
      BY <2>3, <3>1, Zenon
  <2>5. {q[2] : q \in DOMAIN clip} = 0 .. h - 1
    <3>1. \A y \in 0 .. h - 1 : \E q \in DOMAIN clip : q[2] = y
      <4>1. TAKE y \in 0 .. h - 1
      <4>2. <<0, y>>[2] = y
        OBVIOUS
      <4>3. QED
        BY <2>2, <4>2, Zenon
    <3>2. QED
      BY <2>3, <3>1, Zenon
  <2>6. QED
    BY <2>4, <2>5
<1>5. Max(0 .. w - 1) = w - 1 /\ Max(0 .. h - 1) = h - 1
  <2>1. /\ w - 1 \in 0 .. w - 1 /\ 0 .. w - 1 \subseteq Int /\ \A y \in 0 .. w - 1 : y <= w - 1
        /\ h - 1 \in 0 .. h - 1 /\ 0 .. h - 1 \subseteq Int /\ \A y \in 0 .. h - 1 : y <= h - 1
    BY <1>2
  <2>2. QED
    BY <2>1, MaxIs
<1>6. (w - 1) + 1 = w /\ (h - 1) + 1 = h
  BY <1>2
<1> DEFINE b == PasteArea(a, w, h)
<1>7. b.c1 = a.c1 /\ b.r1 = a.r1 /\ a.c1 \in Int /\ a.r1 \in Int
  BY SheetAreaHas DEF PasteArea, Area
<1>8. PastedFrom(clip, a, paste) =
        [p \in SheetCells |->
           IF AreaOnSheet(b) /\ In(b, p)
           THEN Pasted(cell[p], clip[<<(p[1] - b.c1) % w, (p[2] - b.r1) % h>>], paste)
           ELSE cell[p]]
  BY <1>4, <1>5, <1>6 DEF PastedFrom
<1> HIDE DEF b
<1>9. ASSUME NEW p \in SheetCells
      PROVE  Pasted(cell[p], clip[<<(p[1] - b.c1) % w, (p[2] - b.r1) % h>>], paste) \in Cell
  <2>1. p[1] - b.c1 \in Int /\ p[2] - b.r1 \in Int
    BY <1>7 DEF SheetCells, SheetCols, SheetRows
  <2> DEFINE x == (p[1] - b.c1) % w
             y == (p[2] - b.r1) % h
  <2>2. /\ x \in Int /\ 0 <= x /\ x <= w - 1
        /\ y \in Int /\ 0 <= y /\ y <= h - 1
    BY <1>2, <2>1, ModRange
  <2> HIDE DEF x, y
  <2>3. <<x, y>> \in (0 .. w - 1) \X (0 .. h - 1)
    BY <1>2, <2>2
  <2>4. clip[<<x, y>>] \in Cell
    BY <1>1, <2>3
  <2>5. QED
    BY <2>4, CellsAre, PastedCell DEF x, y
<1>10. QED
  BY <1>8, <1>9, CellsAre DEF CellMap

LEMMA PasteSpecialKeeps == ASSUME IInv, PasteSpecial PROVE IInv'
<1>1. Ready /\ IsRange(it) /\ First(it) \in SheetAreas
  BY ItIsRange, FirstOnSheet DEF PasteSpecial, Works
<1>2. CASE Throws
  BY <1>1, <1>2, ThrowsKeeps
<1>3. ASSUME NEW paste \in {"all", "comments", "formats", "formulas", "values", "widths"},
             cell' = IF app.clip = <<>> THEN cell
                     ELSE PastedFrom(app.clip, First(it), paste),
             view' = SelectOf(view.sel), got' = "ok", Disturbs(CellKinds),
             UNCHANGED <<it, lines, marks, app>>
      PROVE  IInv'
  <2>1. cell' \in CellMap
    BY <1>1, <1>3, AppHas, CellsAre, PastedMap
  <2>2. view' \in ViewType
    BY <1>3, ViewIs, SelectIsView
  <2>3. WroteOK' /\ Written'
    BY <1>3, CellsDisturbed
  <2>4. ViewOK' /\ AppOK' /\ IsRange(it')
    BY <1>1, <1>3, <2>2 DEF ViewOK, ViewType, AppOK, IInv, TypeOK
  <2>5. QED
    BY <1>1, <1>3, <2>1, <2>3, <2>4, CellsAndAppKeep
<1>4. QED
  BY <1>2, <1>3 DEF PasteSpecial

LEMMA SortedMap ==
    ASSUME IInv, NEW a \in SheetAreas, NEW byRow \in BOOLEAN,
           NEW turn, turn \in Bijection(IF byRow THEN RowsOf(a) ELSE ColsOf(a),
                                      IF byRow THEN RowsOf(a) ELSE ColsOf(a))
    PROVE  Sorted(a, byRow, turn) \in CellMap
<1>1. /\ byRow => turn \in [RowsOf(a) -> RowsOf(a)]
      /\ ~byRow => turn \in [ColsOf(a) -> ColsOf(a)]
  BY DEF Bijection, Injection
<1>2. ASSUME NEW p \in SheetCells
      PROVE  (IF ~In(a, p) THEN cell[p]
              ELSE IF byRow THEN cell[<<p[1], turn[p[2]]>>] ELSE cell[<<turn[p[1]], p[2]>>]) \in Cell
  <2>1. CASE ~In(a, p)
    BY <2>1, CellsAre
  <2>2. CASE In(a, p)
    <3>1. RowsOf(a) \subseteq 0 .. MaxRow /\ ColsOf(a) \subseteq 0 .. MaxCol
      BY SheetAreaHas, CellsOnSheet DEF SheetCols, SheetRows
    <3>2. p[2] \in RowsOf(a) /\ p[1] \in ColsOf(a)
      BY <2>2 DEF In, RowsOf, ColsOf
    <3>3. /\ byRow => <<p[1], turn[p[2]]>> \in SheetCells
          /\ ~byRow => <<turn[p[1]], p[2]>> \in SheetCells
      BY <1>1, <3>1, <3>2, SheetAreaHas
    <3>4. QED
      BY <2>2, <3>3, CellsAre
  <2>3. QED
    BY <2>1, <2>2
<1>3. QED
  BY <1>2 DEF Sorted, CellMap

LEMMA SortKeeps == ASSUME IInv, NEW key, NEW order, NEW orient, Sort(key, order, orient) PROVE IInv'
<1>1. Ready /\ IsRange(it) /\ First(it) \in SheetAreas
  BY ItIsRange, FirstOnSheet DEF Sort, Works
<1>2. CASE Throws
  BY <1>1, <1>2, ThrowsKeeps
<1> DEFINE up == IF order = "" THEN app.sort.up ELSE order = "ascending"
           byRow == IF orient = "" THEN app.sort.byRow ELSE orient = "columns"
           now == [up |-> up, byRow |-> byRow]
           a == First(it)
<1>3. ASSUME app' = [app EXCEPT !.sort = now],
             NEW turn, turn \in Bijection(IF now.byRow THEN RowsOf(a) ELSE ColsOf(a),
                                         IF now.byRow THEN RowsOf(a) ELSE ColsOf(a)),
             cell' = Sorted(a, now.byRow, turn), got' = "ok", Disturbs(CellKinds),
             UNCHANGED <<it, lines, marks, view>>
      PROVE  IInv'
  <2>1. up \in BOOLEAN /\ byRow \in BOOLEAN
    BY AppHas
  <2> HIDE DEF up, byRow
  <2>2. now \in [up : BOOLEAN, byRow : BOOLEAN] /\ now.byRow \in BOOLEAN
    BY <2>1
  <2> HIDE DEF now
  <2>3. cell' \in CellMap
    BY <1>1, <1>3, <2>2, SortedMap
  <2>4. AppOK'
    <3>1. app' = [clip |-> app.clip, word |-> app.word, byRow |-> app.byRow, sort |-> now]
      BY <1>3, AppHas
    <3>2. QED
      BY <2>2, <3>1, AppHas DEF AppOK
  <2>5. WroteOK' /\ Written'
    BY <1>3, CellsDisturbed
  <2>6. ViewOK' /\ IsRange(it')
    BY <1>1, <1>3 DEF ViewOK, IInv, TypeOK
  <2>7. QED
    BY <1>1, <1>3, <2>3, <2>4, <2>5, <2>6, CellsAndAppKeep
<1>4. QED
  BY <1>2, <1>3 DEF Sort

-----------------------------------------------------------------------------
(* The automatic filter *)

\* What FilterOK says of a filter.
FilterGood(f) ==
    /\ f.held \subseteq lines.hiddenRows
    /\ ~f.on \/ f.fields = {} => f.held \subseteq f.lost
    /\ RowsOf(f.area) \subseteq SheetRows
    /\ ~f.on => f.fields = {}
    /\ f.held \ Body(f) \subseteq f.lost

LEMMA FilterNow == FilterOK <=> FilterGood(marks.filter)
BY DEF FilterOK, FilterIsTidy, FilterGood

LEMMA FilterIs == ASSUME IInv PROVE marks.filter \in FilterType /\ FilterGood(marks.filter)
BY MarksAre, FilterNow DEF IInv

LEMMA AreaRowsOnSheet ==
    ASSUME NEW a, IsArea(a), AreaOnSheet(a) PROVE RowsOf(a) \subseteq SheetRows
<1>1. a.r1 \in 0 .. MaxRow /\ a.r2 \in 0 .. MaxRow /\ MaxRow \in Nat
  BY SheetAssumption DEF AreaOnSheet, SheetRows
<1>2. QED
  BY <1>1 DEF RowsOf, SheetRows

\* The area that a filter is made with.
LEMMA FilterBase ==
    ASSUME IInv, Works,
           NEW b \in (IF SingleCell(it) THEN RegionOf(First(it)) \ {First(it)} ELSE {First(it)})
    PROVE  b \in AreaRecord /\ RowsOf(b) \subseteq SheetRows
<1>1. IsArea(First(it)) /\ AreaOnSheet(First(it))
  BY FirstOnSheet DEF SheetAreas
<1>2. CASE b \in RegionOf(First(it))
  <2>1. IsArea(b)
    BY <1>1, <1>2, RegionIsArea
  <2>2. /\ b.r1 \in 0 .. First(it).r1 /\ b.r2 \in First(it).r2 .. MaxRow
    BY <1>2 DEF RegionOf
  <2>3. MaxRow \in Nat /\ First(it).r1 \in Int /\ First(it).r2 \in Int
    BY <1>1, AreaHas, SheetAssumption
  <2>4. RowsOf(b) \subseteq SheetRows
    BY <2>2, <2>3 DEF RowsOf, SheetRows
  <2>5. QED
    BY <2>1, <2>4 DEF IsArea
<1>3. CASE b = First(it)
  BY <1>1, <1>3, AreaRowsOnSheet DEF IsArea
<1>4. QED
  BY <1>2, <1>3

\* A filter that is switched on was off with nothing held back but what is lost.
LEMMA SwitchedIsOn ==
    ASSUME IInv, Works, NEW f \in Switched PROVE f \in FilterType /\ f.on /\ FilterGood(f)
<1>1. marks.filter \in FilterType /\ FilterGood(marks.filter)
  BY FilterIs
<1>2. CASE marks.filter.on
  BY <1>1, <1>2 DEF Switched
<1>3. CASE ~marks.filter.on
  <2> DEFINE base == IF SingleCell(it) THEN RegionOf(First(it)) \ {First(it)} ELSE {First(it)}
  <2>0. f \in {SwitchedOn(b, h) : b \in base, h \in BOOLEAN}
    BY <1>3 DEF Switched
  <2> HIDE DEF base
  <2>1. PICK b \in base, h \in BOOLEAN : f = SwitchedOn(b, h)
    BY <2>0
  <2>2. b \in AreaRecord /\ RowsOf(b) \subseteq SheetRows
    BY <2>1, FilterBase DEF base
  <2> DEFINE x == IF marks.filter.area = NoArea THEN b ELSE marks.filter.area
  <2>3. x \in AreaRecord /\ RowsOf(x) \subseteq SheetRows
    BY <1>1, <2>2 DEF FilterType, FilterGood
  <2> HIDE DEF x
  <2>4. f = [marks.filter EXCEPT !.on = TRUE, !.head = h, !.area = x]
    BY <2>1 DEF x, SwitchedOn
  <2>5. /\ f \in FilterType /\ f.on /\ f.area = x /\ f.fields = marks.filter.fields
        /\ f.held = marks.filter.held /\ f.lost = marks.filter.lost
    BY <1>1, <2>1, <2>3, <2>4 DEF FilterType
  <2>6. FilterGood(f)
    BY <1>1, <1>3, <2>3, <2>5 DEF FilterGood
  <2>7. QED
    BY <2>5, <2>6
<1>4. QED
  BY <1>2, <1>3

\* The filter changes, no row does, and perhaps the call does not end well.
LEMMA FilterSetKeeps ==
    ASSUME IInv, Ready, NEW f \in FilterType, FilterGood(f),
           NEW end \in {"ok", "threw", "crashed"}, FilterSet(f, end)
    PROVE  IInv'
<1>1. /\ marks' = [marks EXCEPT !.filter = f] /\ got' = end
      /\ UNCHANGED <<it, cell, lines, view, app, wrote>>
  BY DEF FilterSet
<1>2. marks' \in MarksType /\ marks'.filter = f
  BY <1>1, MarksAre DEF MarksType
<1>3. WroteOK' /\ Written'
  BY <1>1, WroteKept
<1>4. TypeOK'
  BY <1>1, <1>2, <1>3, CallsGoOn DEF IInv, TypeOK, ViewOK, AppOK
<1>5. FilterOK'
  BY <1>1, <1>2 DEF FilterGood, FilterOK, FilterIsTidy, Body
<1>6. QED
  BY <1>3, <1>4, <1>5 DEF IInv

\* What a macro has set is in the rows still, if a query did not change them.
LEMMA QueryForgets ==
    ASSUME IInv, NEW B, NEW hold, hold \subseteq B, UNCHANGED cell,
           lines' = [lines EXCEPT !.hiddenRows = (@ \ B) \cup hold],
           wrote' = IF /\ wrote.kind = "hidden" /\ wrote.range.rows
                       /\ \E a \in ToSet(wrote.range.areas) : RowsOf(a) \cap B # {}
                    THEN NoWrite ELSE wrote
    PROVE  WroteOK' /\ Written'
<1> DEFINE R == (lines.hiddenRows \ B) \cup hold
<1>1. /\ lines'.height = lines.height /\ lines'.hiddenRows = R /\ lines'.width = lines.width
      /\ lines'.hiddenCols = lines.hiddenCols /\ lines'.breakRows = lines.breakRows
      /\ lines'.breakCols = lines.breakCols
  BY LinesAre DEF LinesType
<1>2. CASE wrote' = NoWrite
  BY <1>2, WroteNothing
<1>3. CASE wrote' = wrote /\ (wrote.kind = "hidden" => ~wrote.range.rows)
  BY <1>1, <1>3 DEF IInv, TypeOK, WroteOK, Written, WrittenToCells, WrittenToLines, Reached
<1>4. CASE /\ wrote' = wrote /\ wrote.kind = "hidden" /\ wrote.range.rows
           /\ \A a \in ToSet(wrote.range.areas) : RowsOf(a) \cap B = {}
  <2>1. \A i \in DOMAIN wrote.range.areas : RowsOf(wrote.range.areas[i]) \cap B = {}
    BY <1>4 DEF ToSet
  <2>2. \A r : r \notin B => (r \in R <=> r \in lines.hiddenRows)
    OBVIOUS
  <2> HIDE DEF R
  <2>3. \A i \in DOMAIN wrote.range.areas : \A r \in RowsOf(wrote.range.areas[i]) :
           wrote.value = (r \in lines.hiddenRows)
    BY <1>4 DEF IInv, Written, WrittenToLines
  <2>4. \A i \in DOMAIN wrote.range.areas : \A r \in RowsOf(wrote.range.areas[i]) :
           (r \in lines.hiddenRows) = (r \in R)
    BY <2>1, <2>2
  <2>5. \A i \in DOMAIN wrote.range.areas : \A r \in RowsOf(wrote.range.areas[i]) :
           wrote.value = (r \in R)
    BY <2>3, <2>4
  <2>6. QED
    BY <1>1, <1>4, <2>5 DEF IInv, TypeOK, WroteOK, Written, WrittenToCells, WrittenToLines
<1>5. QED
  BY <1>2, <1>3, <1>4

\* A query: what the filter f held back among its rows it holds by its conditions
\* now, or not at all.
LEMMA FilterQueryKeeps ==
    ASSUME IInv, Ready, NEW f \in FilterType, ~f.on => f.fields = {},
           f.held \subseteq lines.hiddenRows, RowsOf(f.area) \subseteq SheetRows,
           f.held \ Body(f) \subseteq f.lost, FilterQuery(f)
    PROVE  IInv'
<1> DEFINE B == Body(f)
<1>1. PICK hold \in SUBSET B :
        /\ f.fields = {} => hold = {}
        /\ lines' = [lines EXCEPT !.hiddenRows = (@ \ B) \cup hold]
        /\ marks' = [marks EXCEPT !.filter =
                        [f EXCEPT !.held = (@ \ B) \cup hold, !.lost = @ \ B]]
        /\ wrote' = IF /\ wrote.kind = "hidden" /\ wrote.range.rows
                       /\ \E a \in ToSet(wrote.range.areas) : RowsOf(a) \cap B # {}
                    THEN NoWrite ELSE wrote
        /\ got' = "ok"
        /\ UNCHANGED <<it, cell, view, app>>
  BY DEF FilterQuery
<1>2. B \subseteq SheetRows
  BY DEF Body
<1> HIDE DEF B
<1> DEFINE R == (lines.hiddenRows \ B) \cup hold
           H == (f.held \ B) \cup hold
           L == f.lost \ B
           x == [f EXCEPT !.held = H, !.lost = L]
<1>3. /\ R \in SUBSET SheetRows /\ H \in SUBSET SheetRows /\ L \in SUBSET SheetRows
      /\ H \subseteq R /\ (f.fields = {} => H \subseteq L) /\ H \ B \subseteq L
  <2>1. f.held \subseteq SheetRows /\ f.lost \subseteq SheetRows /\ lines.hiddenRows \subseteq SheetRows
    BY LinesAre DEF FilterType
  <2>2. f.held \ B \subseteq f.lost
    BY DEF B
  <2>3. QED
    BY <1>1, <1>2, <2>1, <2>2
<1>4. lines' = [lines EXCEPT !.hiddenRows = R] /\ marks' = [marks EXCEPT !.filter = x]
  BY <1>1
<1> HIDE DEF R, H, L
<1>5. /\ x \in FilterType /\ x.area = f.area /\ x.on = f.on /\ x.head = f.head
      /\ x.fields = f.fields /\ x.held = H /\ x.lost = L
  BY <1>3 DEF FilterType
<1> HIDE DEF x
<1>6. lines' \in LinesType /\ lines'.hiddenRows = R
  BY <1>3, <1>4, LinesAre DEF LinesType
<1>7. marks' \in MarksType /\ marks'.filter = x
  BY <1>4, <1>5, MarksAre DEF MarksType
<1>8. WroteOK' /\ Written'
  BY <1>1, QueryForgets
<1>9. TypeOK'
  BY <1>1, <1>6, <1>7, <1>8, CallsGoOn DEF IInv, TypeOK, ViewOK, AppOK
<1>10. FilterOK'
  <2>1. Body(x) = B
    BY <1>5 DEF Body, B
  <2>2. /\ x.held \subseteq R /\ (~x.on \/ x.fields = {} => x.held \subseteq x.lost)
        /\ RowsOf(x.area) \subseteq SheetRows /\ (~x.on => x.fields = {})
        /\ x.held \ Body(x) \subseteq x.lost
    BY <1>3, <1>5, <2>1
  <2>3. QED
    BY <1>6, <1>7, <2>2 DEF FilterOK, FilterIsTidy, Body
<1>11. QED
  BY <1>8, <1>9, <1>10 DEF IInv

LEMMA FilterToggledKeeps ==
    ASSUME IInv, Works, NEW f \in Switched, FilterToggled(f) PROVE IInv'
<1>1. Ready /\ f \in FilterType /\ f.on /\ FilterGood(f)
  BY SwitchedIsOn DEF Works
<1>2. CASE FilterSet(f, "ok")
  BY <1>1, <1>2, FilterSetKeeps
<1> DEFINE off == [f EXCEPT !.on = FALSE, !.fields = {}]
<1>3. /\ off \in FilterType /\ off.area = f.area /\ off.head = f.head /\ ~off.on
      /\ off.fields = {} /\ off.held = f.held /\ off.lost = f.lost
  BY <1>1 DEF FilterType
<1>4. Body(off) = Body(f)
  BY <1>3 DEF Body
<1>5. CASE f.fields = {} /\ FilterSet(off, "ok")
  <2> HIDE DEF off
  <2>1. FilterGood(off)
    BY <1>1, <1>3, <1>4, <1>5 DEF FilterGood
  <2>2. QED
    BY <1>1, <1>3, <1>5, <2>1, FilterSetKeeps
<1>6. CASE FilterQuery(off)
  <2> HIDE DEF off
  <2>1. QED
    BY <1>1, <1>3, <1>4, <1>6, FilterQueryKeeps DEF FilterGood
<1>7. QED
  BY <1>2, <1>5, <1>6 DEF FilterToggled

\* Other conditions, and a query for them.
LEMMA ConditionsKeep ==
    ASSUME IInv, Ready, NEW f \in FilterType, f.on, FilterGood(f),
           NEW fields \in SUBSET (1..2), FilterQuery([f EXCEPT !.fields = fields])
    PROVE  IInv'
<1> DEFINE x == [f EXCEPT !.fields = fields]
<1>1. /\ x \in FilterType /\ x.area = f.area /\ x.head = f.head /\ x.on
      /\ x.held = f.held /\ x.lost = f.lost
  BY DEF FilterType
<1>2. FilterQuery(x)
  OBVIOUS
<1> HIDE DEF x
<1>3. Body(x) = Body(f)
  BY <1>1 DEF Body
<1>4. QED
  BY <1>1, <1>2, <1>3, FilterQueryKeeps DEF FilterGood

LEMMA FilterFieldKeeps ==
    ASSUME IInv, Works, NEW f \in Switched, NEW n \in 1..2, NEW criterion,
           FilterField(f, n, criterion)
    PROVE  IInv'
<1>1. Ready /\ f \in FilterType /\ f.on /\ FilterGood(f)
  BY SwitchedIsOn DEF Works
<1>2. CASE FilterQuery([f EXCEPT !.fields = {n}])
  BY <1>1, <1>2, ConditionsKeep
<1>3. CASE FilterQuery([f EXCEPT !.fields = {}])
  BY <1>1, <1>3, ConditionsKeep
<1>4. CASE FilterQuery([f EXCEPT !.fields = IF f.area.c1 = n THEN {} ELSE {1}])
  <2>1. (IF f.area.c1 = n THEN {} ELSE {1}) \in SUBSET (1..2)
    OBVIOUS
  <2>2. QED
    BY <1>1, <1>4, <2>1, ConditionsKeep
<1>5. CASE FilterSet(f, "crashed")
  BY <1>1, <1>5, FilterSetKeeps
<1>6. CASE FilterSet([f EXCEPT !.fields = {}, !.lost = @ \cup f.held], "ok")
  <2> DEFINE x == [f EXCEPT !.fields = {}, !.lost = @ \cup f.held]
  <2>1. /\ x \in FilterType /\ x.area = f.area /\ x.head = f.head /\ x.on
        /\ x.fields = {} /\ x.held = f.held /\ x.lost = f.lost \cup f.held
    BY <1>1 DEF FilterType
  <2>2. FilterSet(x, "ok")
    BY <1>6
  <2> HIDE DEF x
  <2>3. FilterGood(x)
    BY <1>1, <2>1 DEF FilterGood
  <2>4. QED
    BY <1>1, <2>1, <2>2, <2>3, FilterSetKeeps
<1>7. QED
  BY <1>2, <1>3, <1>4, <1>5, <1>6 DEF FilterField

LEMMA AutoFilterKeeps == ASSUME IInv, AutoFilter PROVE IInv'
<1>1. Works /\ Ready
  BY DEF AutoFilter, Works
<1>2. CASE Throws
  BY <1>1, <1>2, ThrowsKeeps
<1>3. ASSUME NEW f \in Switched, FilterToggled(f) PROVE IInv'
  BY <1>1, <1>3, FilterToggledKeeps
<1>4. ASSUME NEW f \in Switched, FilterRefused(f) PROVE IInv'
  BY <1>1, <1>4, SwitchedIsOn, FilterSetKeeps DEF FilterRefused
<1>5. ASSUME NEW f \in Switched, NEW n \in 1..2, NEW criterion, FilterField(f, n, criterion)
      PROVE  IInv'
  BY <1>1, <1>5, FilterFieldKeeps
<1>6. QED
  BY <1>2, <1>3, <1>4, <1>5 DEF AutoFilter

-----------------------------------------------------------------------------
(* Every step *)

LEMMA InitKeeps == Init => IInv
<1> SUFFICES ASSUME Init PROVE IInv
  OBVIOUS
<1>1. IsRange(it) /\ cell \in CellMap /\ calls \in 0 .. Calls /\ got = "ok"
  BY MacroAssumption DEF Init, CellMap
<1>2. lines \in LinesType
  <2> DEFINE h == [r \in SheetRows |-> "usual"]
             w == [c \in SheetCols |-> "usual"]
  <2>1. /\ h \in [SheetRows -> {"usual", "tall"}]
        /\ w \in [SheetCols -> {"usual", "broad", "fit"}]
    OBVIOUS
  <2>2. lines = [height |-> h, width |-> w, hiddenRows |-> {}, hiddenCols |-> {},
                 breakRows |-> {}, breakCols |-> {}, groups |-> {}]
    BY DEF Init
  <2> HIDE DEF h, w
  <2>3. QED
    BY <2>1, <2>2 DEF LinesType
<1>3. marks \in MarksType /\ FilterOK
  <2>1. NoArea \in AreaRecord /\ RowsOf(NoArea) = {}
    BY AreaIsMade DEF NoArea, Area, RowsOf
  <2> DEFINE f == [area |-> NoArea, on |-> FALSE, head |-> FALSE, fields |-> {},
                   held |-> {}, lost |-> {}]
  <2>2. marks = [merged |-> {}, print |-> <<>>, filter |-> f]
    BY DEF Init
  <2>3. f \in FilterType
    BY <2>1 DEF FilterType
  <2>4. /\ f.area = NoArea /\ ~f.on /\ f.fields = {} /\ f.held = {}
    OBVIOUS
  <2> HIDE DEF f
  <2>5. FilterOK
    BY <2>1, <2>2, <2>4 DEF FilterOK, FilterIsTidy
  <2>6. QED
    BY <2>2, <2>3, <2>5 DEF MarksType
<1>4. ViewOK
  <2>1. PICK a \in {Sheet, Area(MaxCol, 0, MaxCol, 0)} : view = SelectOf(<<a>>)
    BY DEF Init
  <2>2. a \in AreaRecord
    <3>1. 0 \in Int /\ MaxCol \in Int /\ MaxRow \in Int
      BY SheetAssumption
    <3>2. Sheet \in AreaRecord /\ Area(MaxCol, 0, MaxCol, 0) \in AreaRecord
      BY <3>1, AreaIsMade DEF Sheet
    <3>3. QED
      BY <3>2
  <2>3. <<a>> \in Seq(AreaRecord) /\ <<a>> # <<>>
    BY <2>2
  <2>4. QED
    BY <2>1, <2>3, SelectIsView DEF ViewOK, ViewType
<1>5. AppOK
  <2>1. PICK clip \in {<<>>, Clip(cell, Area(0, 0, 0, 0))} :
             app = [clip |-> clip, word |-> FALSE, byRow |-> TRUE,
                    sort |-> [up |-> TRUE, byRow |-> TRUE]]
    BY DEF Init
  <2>2. Area(0, 0, 0, 0) \in SheetAreas
    <3>1. IsArea(Area(0, 0, 0, 0))
      BY AreaIsMade
    <3>2. 0 \in SheetCols /\ 0 \in SheetRows
      BY SheetAssumption DEF SheetCols, SheetRows
    <3>3. AreaOnSheet(Area(0, 0, 0, 0))
      BY <3>2 DEF AreaOnSheet, Area
    <3>4. QED
      BY <3>1, <3>3 DEF SheetAreas, IsArea
  <2>3. IsClip(Clip(cell, Area(0, 0, 0, 0))) /\ IsClip(<<>>)
    BY <1>1, <2>2, ClipIsClip DEF IsClip
  <2>4. IsClip(clip)
    BY <2>1, <2>3
  <2>5. QED
    BY <2>1, <2>4 DEF AppOK
<1>6. WroteOK /\ Written
  BY DEF Init, NoWrite, WroteOK, Written, WrittenToCells, WrittenToLines
<1>7. QED
  BY <1>1, <1>2, <1>3, <1>4, <1>5, <1>6 DEF IInv, TypeOK, CellMap

LEMMA NavigatesKeeps == ASSUME IInv, Navigates PROVE IInv'
BY OffsetKeeps, CellsKeeps, ItemKeeps, RowsKeeps, ColumnsKeeps, EntireKeeps, ResizeKeeps,
   RangeKeeps, AreaKeeps, IntersectKeeps, CurrentRegionKeeps, NextKeeps, SpecialCellsKeeps
   DEF Navigates

LEMMA FillsKeeps == ASSUME IInv, Fills PROVE IInv'
<1>1. ASSUME NEW v \in {"TRUE", "FALSE", "five", "text"}, SetValue(v) PROVE IInv'
  BY <1>1, SetValueKeeps
<1>2. ASSUME NEW oneDim \in BOOLEAN, SetArray(oneDim) PROVE IInv'
  BY <1>2, SetArrayKeeps
<1>3. ASSUME NEW v \in {"=TRUE()", "=number"}, SetFormula(v) \/ SetFormulaArray(v) PROVE IInv'
  BY <1>3, SetFormulaKeeps, SetFormulaArrayKeeps
<1>4. CASE SetFormulaR1C1
  BY <1>4, SetFormulaR1C1Keeps
<1>5. CASE Clear \/ ClearContents \/ ClearFormats
  BY <1>5, ClearsKeeps DEF Clear, ClearContents, ClearFormats
<1>6. CASE ClearComments
  BY <1>6, ClearCommentsKeeps
<1>7. ASSUME NEW dir \in {"down", "up", "left", "right"}, FillSeries(dir) PROVE IInv'
  BY <1>7, FillSeriesKeeps
<1>8. CASE AutoFill \/ GoalSeek
  BY <1>8, AutoFillKeeps, GoalSeekKeeps
<1>9. ASSUME NEW look, NEW order, Replace(look, order) PROVE IInv'
  BY <1>9, ReplaceKeeps
<1>10. QED
  BY <1>1, <1>2, <1>3, <1>4, <1>5, <1>6, <1>7, <1>8, <1>9 DEF Fills

LEMMA AttributesKeeps == ASSUME IInv, Attributes PROVE IInv'
BY SetNumberFormatKeeps, SetWrapTextKeeps, SetMergeCellsKeeps, AddCommentKeeps, MergeKeeps,
   MergeAcrossKeeps, UnMergeKeeps, PrintOutKeeps
   DEF Attributes

LEMMA RowsAndColumnsKeeps == ASSUME IInv, RowsAndColumns PROVE IInv'
BY SetRowHeightKeeps, SetColumnWidthKeeps, SetHiddenKeeps, SetPageBreakKeeps, GroupKeeps,
   AutofitKeeps, ClearOutlineKeeps, OutlineAndSubtotalKeep
   DEF RowsAndColumns

LEMMA MovesKeeps == ASSUME IInv, Moves PROVE IInv'
BY SelectKeeps, ActivateKeeps, EndKeeps, CopyKeeps, CutKeeps, PasteSpecialKeeps,
   AutoFilterKeeps, DeleteKeeps, InsertKeeps, SortKeeps
   DEF Moves

LEMMA StutterKeeps == ASSUME IInv, UNCHANGED vars PROVE IInv'
BY DEF vars, IInv, TypeOK, ViewOK, AppOK, WroteOK, Written, WrittenToCells, WrittenToLines,
   Reached, FilterOK, FilterIsTidy, Body

\* All the macro has been given and has set is as it should be, after any calls on
\* a sheet of any size: types, the properties set last in the cells, rows and
\* columns that were meant, and the filter.
THEOREM MacroInvariant == Spec => []IInv
<1>1. Init => IInv
  BY InitKeeps
<1>2. IInv /\ [Next]_vars => IInv'
  BY NavigatesKeeps, FillsKeeps, AttributesKeeps, RowsAndColumnsKeeps, MovesKeeps, StutterKeeps
     DEF Next
<1>3. QED
  BY <1>1, <1>2, PTL DEF Spec

\* The types of what a macro works with.
THEOREM MacroTypes == Spec => []TypeOK
<1>1. IInv => TypeOK
  BY DEF IInv
<1>2. QED
  BY <1>1, MacroInvariant, PTL

\* The rows that the filter holds back are hidden, and when it is off or has no
\* condition it holds none back but those that are lost, in whatever order the
\* macro switches it, queries with it and hides or shows rows (AutoFilter, setHidden).
THEOREM FilterStaysTidy == Spec => []FilterIsTidy
<1>1. IInv => FilterIsTidy
  BY DEF IInv, FilterOK
<1>2. QED
  BY <1>1, MacroInvariant, PTL

-----------------------------------------------------------------------------
(* What has been set is read *)

LEMMA UniformIs == ASSUME NEW v PROVE Uniform({v}) = v
BY FS_Singleton DEF Uniform

LEMMA CellsReadBack ==
    ASSUME NEW h, IsRange(h), NEW v
    PROVE  /\ (\A p \in CellsIn(First(h)) : Shown(cell[p]) = v) => Read("value", h) = v
           /\ (\A p \in CellsIn(First(h)) : cell[p].v = v) => Read("formula", h) = v
           /\ ~Several(h) /\ (\A p \in CellsIn(First(h)) : cell[p].v = v) => Read("r1c1", h) = v
           /\ (\A p \in CellsOf(h) : cell[p].f = v) => Read("format", h) = v
           /\ (\A p \in CellsOf(h) : cell[p].wrap = v) => Read("wrap", h) = v
<1> DEFINE one == {cell[p] : p \in CellsIn(First(h))}
           all == {cell[p] : p \in CellsOf(h)}
<1>1. one # {} /\ all # {}
  <2>1. <<First(h).c1, First(h).r1>> \in CellsIn(First(h))
    BY RangeHas, AreaHas DEF CellsIn
  <2>2. CellsIn(First(h)) \subseteq CellsOf(h)
    BY RangeHas DEF CellsOf, First
  <2>3. QED
    BY <2>1, <2>2
<1>2. /\ Read("value", h) = Uniform({Shown(c) : c \in one})
      /\ Read("formula", h) = Uniform({c.v : c \in one})
      /\ ~Several(h) => Read("r1c1", h) = Uniform({c.v : c \in one})
      /\ Read("format", h) = Uniform({c.f : c \in all})
      /\ Read("wrap", h) = Uniform({c.wrap : c \in all})
  BY DEF Read, ReadCells
<1>3. /\ (\A p \in CellsIn(First(h)) : Shown(cell[p]) = v) => \A c \in one : Shown(c) = v
      /\ (\A p \in CellsIn(First(h)) : cell[p].v = v) => \A c \in one : c.v = v
      /\ (\A p \in CellsOf(h) : cell[p].f = v) => \A c \in all : c.f = v
      /\ (\A p \in CellsOf(h) : cell[p].wrap = v) => \A c \in all : c.wrap = v
  OBVIOUS
<1> HIDE DEF one, all
<1>4. /\ (\A c \in one : Shown(c) = v) => {Shown(c) : c \in one} = {v}
      /\ (\A c \in one : c.v = v) => {c.v : c \in one} = {v}
      /\ (\A c \in all : c.f = v) => {c.f : c \in all} = {v}
      /\ (\A c \in all : c.wrap = v) => {c.wrap : c \in all} = {v}
  BY <1>1
<1>5. Uniform({v}) = v
  BY UniformIs
<1>6. QED
  BY <1>2, <1>3, <1>4, <1>5

LEMMA LinesReadBack ==
    ASSUME NEW h, IsRange(h), NEW v
    PROVE  /\ (\A r \in RowsOf(First(h)) : lines.height[r] = v) => Read("height", h) = v
           /\ (\A c \in ColsOf(First(h)) : lines.width[c] = v) => Read("width", h) = v
           /\ (IF h.rows THEN \A r \in RowsOf(First(h)) : v = (r \in lines.hiddenRows)
                         ELSE \A c \in ColsOf(First(h)) : v = (c \in lines.hiddenCols))
                => Read("hidden", h) = v
           /\ (IF First(h).r1 = 0 THEN v = (First(h).c1 \in lines.breakCols)
                                  ELSE v = (First(h).r1 \in lines.breakRows))
                => Read("break", h) = v
<1> DEFINE a == First(h)
           R == {lines.height[r] : r \in RowsOf(a)}
           C == {lines.width[c] : c \in ColsOf(a)}
<1>1. a.r1 \in RowsOf(a) /\ a.c1 \in ColsOf(a)
  BY RangeHas, AreaHas DEF RowsOf, ColsOf
<1>2. /\ (\A r \in RowsOf(a) : lines.height[r] = v) => R = {v} /\ lines.height[a.r1] = v
      /\ (\A c \in ColsOf(a) : lines.width[c] = v) => C = {v}
  BY <1>1
<1>3. Uniform({v}) = v
  BY UniformIs
<1>4. /\ Read("height", h) = IF h.rows THEN Uniform(R) ELSE lines.height[a.r1]
      /\ Read("width", h) = Uniform(C)
      /\ Read("hidden", h) = IF h.rows THEN a.r1 \in lines.hiddenRows
                                       ELSE a.c1 \in lines.hiddenCols
      /\ Read("break", h) = IF a.r1 = 0 THEN a.c1 \in lines.breakCols
                                        ELSE a.r1 \in lines.breakRows
  BY DEF Read, ReadLines
<1> HIDE DEF R, C, a
<1>5. (\A r \in RowsOf(a) : lines.height[r] = v) => Read("height", h) = v
  BY <1>2, <1>3, <1>4
<1>6. (\A c \in ColsOf(a) : lines.width[c] = v) => Read("width", h) = v
  BY <1>2, <1>3, <1>4
<1>7. (IF h.rows THEN \A r \in RowsOf(a) : v = (r \in lines.hiddenRows)
                 ELSE \A c \in ColsOf(a) : v = (c \in lines.hiddenCols))
        => Read("hidden", h) = v
  BY <1>1, <1>4
<1>8. (IF a.r1 = 0 THEN v = (a.c1 \in lines.breakCols) ELSE v = (a.r1 \in lines.breakRows))
        => Read("break", h) = v
  BY <1>4
<1>9. QED
  BY <1>5, <1>6, <1>7, <1>8 DEF a

\* An area of a Range as a Range.
LEMMA ItemHas ==
    ASSUME NEW g, IsRange(g), NEW i \in DOMAIN g.areas
    PROVE  LET h == Item(g, i)
           IN  /\ IsRange(h) /\ First(h) = g.areas[i] /\ ~Several(h) /\ h.rows = g.rows
               /\ CellsOf(h) = CellsIn(g.areas[i]) /\ CellsOf(h) \subseteq CellsOf(g)
<1> DEFINE h == Item(g, i)
           a == g.areas[i]
<1>1. IsRange(h) /\ h = [areas |-> <<a>>, rows |-> g.rows, cols |-> g.cols]
  BY ItemIsRange
<1> HIDE DEF h
<1>2. h.areas = <<a>> /\ h.rows = g.rows
  BY <1>1
<1>3. First(h) = a /\ ~Several(h)
  BY <1>2 DEF First, Several
<1>4. CellsOf(h) = CellsIn(a)
  <2>1. DOMAIN h.areas = {1} /\ h.areas[1] = a
    BY <1>2
  <2>2. QED
    BY <2>1 DEF CellsOf
<1>5. CellsIn(a) \subseteq CellsOf(g)
  BY DEF CellsOf
<1>6. QED
  BY <1>1, <1>2, <1>3, <1>4, <1>5 DEF h

LEMMA ReadFromEach ==
    ASSUME IInv, wrote.kind # "none", ComesBack
    PROVE  /\ Read(wrote.kind, wrote.range) = wrote.value
           /\ \A i \in Reached : Read(wrote.kind, Item(wrote.range, i)) = wrote.value
<1> DEFINE g == wrote.range
           v == wrote.value
           k == wrote.kind
           Same(h) == Read(k, h) = v
<1>1. IsRange(g) /\ k \in WriteKinds
  BY DEF IInv, TypeOK, WroteOK
<1>2. WrittenToCells(g, v) /\ WrittenToLines(g, v)
  BY DEF IInv, Written
<1>3. /\ 1 \in Reached /\ Reached \subseteq DOMAIN g.areas
      /\ First(g) = g.areas[1] /\ CellsIn(First(g)) \subseteq CellsOf(g)
      /\ (~Several(g) => Reached = {1})
  <2> DEFINE s == g.areas
  <2>1. s \in Seq(AreaRecord) /\ Len(s) \in Nat /\ Len(s) # 0 /\ DOMAIN s = 1 .. Len(s)
    BY <1>1, RangeHas
  <2>2. First(g) = s[1] /\ CellsIn(First(g)) \subseteq CellsOf(g)
    BY <2>1 DEF First, CellsOf
  <2>3. Several(g) <=> Len(s) > 1
    BY DEF Several
  <2>4. \/ Reached = DOMAIN s
        \/ Several(g) /\ Reached = DOMAIN Tail(s)
    BY DEF Reached
  <2> HIDE DEF s
  <2>5. Len(s) > 1 => DOMAIN Tail(s) = 1 .. Len(s) - 1
    BY <2>1
  <2>6. 1 \in Reached /\ Reached \subseteq DOMAIN s
    BY <2>1, <2>3, <2>4, <2>5
  <2>7. ~Several(g) => Reached = {1}
    <3>1. ~(Len(s) > 1) => 1 .. Len(s) = {1}
      BY <2>1
    <3>2. QED
      BY <2>1, <2>3, <2>4, <3>1
  <2>8. QED
    BY <2>2, <2>6, <2>7 DEF s
<1>4. \A i \in Reached : /\ IsRange(Item(g, i)) /\ First(Item(g, i)) = g.areas[i]
                         /\ ~Several(Item(g, i)) /\ Item(g, i).rows = g.rows
                         /\ CellsOf(Item(g, i)) = CellsIn(g.areas[i])
                         /\ CellsIn(g.areas[i]) \subseteq CellsOf(g)
  BY <1>1, <1>3, ItemHas
<1>5. k = "value" => \A p \in CellsOf(g) : Shown(cell[p]) = v
  BY <1>2 DEF WrittenToCells, ComesBack
<1>6. k = "formula" => \A p \in CellsOf(g) : cell[p].v = v
  BY <1>2 DEF WrittenToCells
<1>7. k = "r1c1" => ~Several(g) /\ \A p \in CellsOf(g) : cell[p].v = v
  BY <1>2 DEF WrittenToCells, ComesBack
<1>8. k = "format" => \A p \in CellsOf(g) : cell[p].f = v
  BY <1>2 DEF WrittenToCells
<1>9. k = "wrap" => \A p \in CellsOf(g) : cell[p].wrap = v
  BY <1>2 DEF WrittenToCells
<1>10. k = "height" => \A i \in Reached : \A r \in RowsOf(g.areas[i]) : lines.height[r] = v
  BY <1>2 DEF WrittenToLines
<1>11. k = "width" => \A i \in Reached : \A c \in ColsOf(g.areas[i]) : lines.width[c] = v
  BY <1>2 DEF WrittenToLines
<1>12. k = "hidden" => \A i \in DOMAIN g.areas :
           IF g.rows THEN \A r \in RowsOf(g.areas[i]) : v = (r \in lines.hiddenRows)
                     ELSE \A c \in ColsOf(g.areas[i]) : v = (c \in lines.hiddenCols)
  BY <1>2 DEF WrittenToLines
<1>13. k = "break" =>
          /\ ~Several(g)
          /\ IF First(g).r1 = 0 THEN v = (First(g).c1 \in lines.breakCols)
                                ELSE v = (First(g).r1 \in lines.breakRows)
  BY <1>2 DEF WrittenToLines, ComesBack
<1> HIDE DEF g, v, k
<1> USE DEF Same
<1>14. k = "value" => Same(g) /\ \A i \in Reached : Same(Item(g, i))
  <2>1. k = "value" => Read("value", g) = v
    BY <1>1, <1>3, <1>5, CellsReadBack
  <2>2. ASSUME k = "value", NEW i \in Reached PROVE Read("value", Item(g, i)) = v
    <3> DEFINE h == Item(g, i)
    <3>1. /\ IsRange(h) /\ First(h) = g.areas[i] /\ ~Several(h) /\ h.rows = g.rows
          /\ CellsOf(h) = CellsIn(g.areas[i]) /\ CellsIn(g.areas[i]) \subseteq CellsOf(g)
          /\ i \in DOMAIN g.areas
      BY <1>3, <1>4
    <3> HIDE DEF h
    <3>2. QED
      BY <1>3, <1>5, <2>2, <3>1, CellsReadBack DEF h
  <2>3. QED
    BY <2>1, <2>2
<1>15. k = "formula" => Same(g) /\ \A i \in Reached : Same(Item(g, i))
  <2>1. k = "formula" => Read("formula", g) = v
    BY <1>1, <1>3, <1>6, CellsReadBack
  <2>2. ASSUME k = "formula", NEW i \in Reached PROVE Read("formula", Item(g, i)) = v
    <3> DEFINE h == Item(g, i)
    <3>1. /\ IsRange(h) /\ First(h) = g.areas[i] /\ ~Several(h) /\ h.rows = g.rows
          /\ CellsOf(h) = CellsIn(g.areas[i]) /\ CellsIn(g.areas[i]) \subseteq CellsOf(g)
          /\ i \in DOMAIN g.areas
      BY <1>3, <1>4
    <3> HIDE DEF h
    <3>2. QED
      BY <1>3, <1>6, <2>2, <3>1, CellsReadBack DEF h
  <2>3. QED
    BY <2>1, <2>2
<1>16. k = "r1c1" => Same(g) /\ \A i \in Reached : Same(Item(g, i))
  <2>1. k = "r1c1" => Read("r1c1", g) = v
    BY <1>1, <1>3, <1>7, CellsReadBack
  <2>2. ASSUME k = "r1c1", NEW i \in Reached PROVE Read("r1c1", Item(g, i)) = v
    <3> DEFINE h == Item(g, i)
    <3>1. /\ IsRange(h) /\ First(h) = g.areas[i] /\ ~Several(h) /\ h.rows = g.rows
          /\ CellsOf(h) = CellsIn(g.areas[i]) /\ CellsIn(g.areas[i]) \subseteq CellsOf(g)
          /\ i \in DOMAIN g.areas
      BY <1>3, <1>4
    <3> HIDE DEF h
    <3>2. QED
      BY <1>3, <1>7, <2>2, <3>1, CellsReadBack DEF h
  <2>3. QED
    BY <2>1, <2>2
<1>17. k = "format" => Same(g) /\ \A i \in Reached : Same(Item(g, i))
  <2>1. k = "format" => Read("format", g) = v
    BY <1>1, <1>3, <1>8, CellsReadBack
  <2>2. ASSUME k = "format", NEW i \in Reached PROVE Read("format", Item(g, i)) = v
    <3> DEFINE h == Item(g, i)
    <3>1. /\ IsRange(h) /\ First(h) = g.areas[i] /\ ~Several(h) /\ h.rows = g.rows
          /\ CellsOf(h) = CellsIn(g.areas[i]) /\ CellsIn(g.areas[i]) \subseteq CellsOf(g)
          /\ i \in DOMAIN g.areas
      BY <1>3, <1>4
    <3> HIDE DEF h
    <3>2. QED
      BY <1>3, <1>8, <2>2, <3>1, CellsReadBack DEF h
  <2>3. QED
    BY <2>1, <2>2
<1>18. k = "wrap" => Same(g) /\ \A i \in Reached : Same(Item(g, i))
  <2>1. k = "wrap" => Read("wrap", g) = v
    BY <1>1, <1>3, <1>9, CellsReadBack
  <2>2. ASSUME k = "wrap", NEW i \in Reached PROVE Read("wrap", Item(g, i)) = v
    <3> DEFINE h == Item(g, i)
    <3>1. /\ IsRange(h) /\ First(h) = g.areas[i] /\ ~Several(h) /\ h.rows = g.rows
          /\ CellsOf(h) = CellsIn(g.areas[i]) /\ CellsIn(g.areas[i]) \subseteq CellsOf(g)
          /\ i \in DOMAIN g.areas
      BY <1>3, <1>4
    <3> HIDE DEF h
    <3>2. QED
      BY <1>3, <1>9, <2>2, <3>1, CellsReadBack DEF h
  <2>3. QED
    BY <2>1, <2>2
<1>19. k = "height" => Same(g) /\ \A i \in Reached : Same(Item(g, i))
  <2>1. k = "height" => Read("height", g) = v
    BY <1>1, <1>3, <1>10, LinesReadBack
  <2>2. ASSUME k = "height", NEW i \in Reached PROVE Read("height", Item(g, i)) = v
    <3> DEFINE h == Item(g, i)
    <3>1. /\ IsRange(h) /\ First(h) = g.areas[i] /\ ~Several(h) /\ h.rows = g.rows
          /\ CellsOf(h) = CellsIn(g.areas[i]) /\ CellsIn(g.areas[i]) \subseteq CellsOf(g)
          /\ i \in DOMAIN g.areas
      BY <1>3, <1>4
    <3> HIDE DEF h
    <3>2. QED
      BY <1>3, <1>10, <2>2, <3>1, LinesReadBack DEF h
  <2>3. QED
    BY <2>1, <2>2
<1>20. k = "width" => Same(g) /\ \A i \in Reached : Same(Item(g, i))
  <2>1. k = "width" => Read("width", g) = v
    BY <1>1, <1>3, <1>11, LinesReadBack
  <2>2. ASSUME k = "width", NEW i \in Reached PROVE Read("width", Item(g, i)) = v
    <3> DEFINE h == Item(g, i)
    <3>1. /\ IsRange(h) /\ First(h) = g.areas[i] /\ ~Several(h) /\ h.rows = g.rows
          /\ CellsOf(h) = CellsIn(g.areas[i]) /\ CellsIn(g.areas[i]) \subseteq CellsOf(g)
          /\ i \in DOMAIN g.areas
      BY <1>3, <1>4
    <3> HIDE DEF h
    <3>2. QED
      BY <1>3, <1>11, <2>2, <3>1, LinesReadBack DEF h
  <2>3. QED
    BY <2>1, <2>2
<1>21. k = "hidden" => Same(g) /\ \A i \in Reached : Same(Item(g, i))
  <2>1. k = "hidden" => Read("hidden", g) = v
    BY <1>1, <1>3, <1>12, LinesReadBack
  <2>2. ASSUME k = "hidden", NEW i \in Reached PROVE Read("hidden", Item(g, i)) = v
    <3> DEFINE h == Item(g, i)
    <3>1. /\ IsRange(h) /\ First(h) = g.areas[i] /\ ~Several(h) /\ h.rows = g.rows
          /\ CellsOf(h) = CellsIn(g.areas[i]) /\ CellsIn(g.areas[i]) \subseteq CellsOf(g)
          /\ i \in DOMAIN g.areas
      BY <1>3, <1>4
    <3> HIDE DEF h
    <3>2. QED
      BY <1>3, <1>12, <2>2, <3>1, LinesReadBack DEF h
  <2>3. QED
    BY <2>1, <2>2
<1>22. k = "break" => Same(g) /\ \A i \in Reached : Same(Item(g, i))
  <2>1. k = "break" => Read("break", g) = v
    BY <1>1, <1>3, <1>13, LinesReadBack
  <2>2. ASSUME k = "break", NEW i \in Reached PROVE Read("break", Item(g, i)) = v
    <3> DEFINE h == Item(g, i)
    <3>1. /\ IsRange(h) /\ First(h) = g.areas[i] /\ ~Several(h) /\ h.rows = g.rows
          /\ CellsOf(h) = CellsIn(g.areas[i]) /\ CellsIn(g.areas[i]) \subseteq CellsOf(g)
          /\ i \in DOMAIN g.areas
      BY <1>3, <1>4
    <3> HIDE DEF h
    <3>2. QED
      BY <1>3, <1>13, <2>2, <3>1, LinesReadBack DEF h
  <2>3. QED
    BY <2>1, <2>2
<1>23. k \in WriteKinds =>
          \/ k = "value" \/ k = "formula" \/ k = "r1c1" \/ k = "format" \/ k = "wrap"
          \/ k = "height" \/ k = "width" \/ k = "hidden" \/ k = "break"
  BY DEF WriteKinds, CellKinds
<1>24. Same(g) /\ \A i \in Reached : Same(Item(g, i))
  <2> HIDE DEF Same
  <2>1. QED
    BY <1>1, <1>14, <1>15, <1>16, <1>17, <1>18, <1>19, <1>20, <1>21, <1>22, <1>23
<1>25. QED
  BY <1>24 DEF g, v, k

\* What a macro has set for a Range it reads from that Range and from every area
\* that has it, whatever calls came between (setters and getters of vbarange.cxx).
THEOREM SetIsReadBack == Spec => []WrittenIsRead
<1>1. IInv => WrittenIsRead
  <2>1. ASSUME IInv, ~(wrote.kind # "none" /\ ComesBack) PROVE WrittenIsRead
    BY <2>1 DEF WrittenIsRead
  <2>2. ASSUME IInv, wrote.kind # "none", ComesBack PROVE WrittenIsRead
    BY <2>2, ReadFromEach DEF WrittenIsRead
  <2>3. QED
    BY <2>1, <2>2
<1>2. QED
  BY <1>1, MacroInvariant, PTL

-----------------------------------------------------------------------------
(* What a call borrows, and what it moves *)

LEMMA EndReturns ==
    ASSUME IInv, End, got' = "ok" PROVE view'.cursor = view.cursor
<1> DEFINE c == view.cursor
<1>1. c \in Int \X Int /\ c[1] \in Int /\ c[2] \in Int /\ c = <<c[1], c[2]>>
  BY ViewIs
<1>2. view' = SelectOf(<<Area(c[1], c[2], c[1], c[2])>>)
  BY DEF End
<1> HIDE DEF c
<1>3. view'.cursor = <<c[1], c[2]>>
  BY <1>1, <1>2, CellSelected
<1>4. QED
  BY <1>1, <1>3 DEF c

LEMMA PasteSpecialReturns ==
    ASSUME IInv, PasteSpecial, got' = "ok" PROVE view'.sel = view.sel
<1>1. view' = SelectOf(view.sel)
  BY DEF PasteSpecial, Throws
<1>2. QED
  BY <1>1, ViewIs, SelectIsView

\* The active cell that End borrows, and the selection that PasteSpecial borrows,
\* are as before when the call returns.
THEOREM SelectionReturned == Spec => BorrowedIsReturned
<1>1. IInv /\ [Next]_vars =>
        [/\ (End /\ got' = "ok") => view'.cursor = view.cursor
         /\ (PasteSpecial /\ got' = "ok") => view'.sel = view.sel]_vars
  BY EndReturns, PasteSpecialReturns
<1>2. QED
  BY <1>1, MacroInvariant, PTL DEF Spec, BorrowedIsReturned

\* What is cut out is in the cells still, or on the clipboard.
LEMMA CutKeepsCell ==
    ASSUME NEW cs \in CellMap, NEW f \in SheetAreas, NEW q \in SheetCells
    PROVE  \/ Emptied(cs, f)[q] = cs[q]
           \/ \E x \in DOMAIN Clip(cs, f) : Clip(cs, f)[x] = cs[q]
<1>1. CASE ~In(f, q)
  BY <1>1 DEF Emptied
<1>2. CASE In(f, q)
  <2> DEFINE D == (0 .. (Width(f) - 1)) \X (0 .. (Height(f) - 1))
             x == <<q[1] - f.c1, q[2] - f.r1>>
  <2>1. /\ q[1] \in f.c1 .. f.c2 /\ q[2] \in f.r1 .. f.r2
        /\ f.c1 \in Int /\ f.c2 \in Int /\ f.r1 \in Int /\ f.r2 \in Int
        /\ Width(f) = f.c2 - f.c1 + 1 /\ Height(f) = f.r2 - f.r1 + 1
    BY <1>2, SheetAreaHas DEF In
  <2>2. x \in D
    BY <2>1
  <2>3. <<f.c1 + x[1], f.r1 + x[2]>> = q
    <3>1. f.c1 + (q[1] - f.c1) = q[1] /\ f.r1 + (q[2] - f.r1) = q[2] /\ q = <<q[1], q[2]>>
      BY <2>1 DEF SheetCells
    <3>2. QED
      BY <3>1
  <2>4. DOMAIN Clip(cs, f) = D /\ Clip(cs, f)[x] = cs[<<f.c1 + x[1], f.r1 + x[2]>>]
    BY <2>2 DEF Clip
  <2> HIDE DEF x, D
  <2>5. QED
    BY <2>2, <2>3, <2>4
<1>3. QED
  BY <1>1, <1>2

LEMMA MovedHasCell ==
    ASSUME NEW cs \in CellMap, NEW a \in SheetAreas, NEW p \in SheetCells,
           NEW q \in SheetCells, In(a, q)
    PROVE  \E z \in SheetCells : MovedTo(cs, a, p)[z] = cs[q]
<1> DEFINE t == Target(a, p)
           moved == CopiedTo(cs, a, p)
           z == <<q[1] - a.c1 + p[1], q[2] - a.r1 + p[2]>>
<1>1. CASE ~AreaOnSheet(t)
  BY <1>1 DEF MovedTo
<1>2. CASE AreaOnSheet(t)
  <2>1. t \in SheetAreas /\ z \in CellsIn(t)
    BY <1>2, TargetHas
  <2>2. z \in SheetCells /\ In(t, z)
    <3> HIDE DEF t, z
    <3>1. QED
      BY <2>1, SheetAreaHas, CellsOnSheet
  <2>3. <<z[1] - p[1] + a.c1, z[2] - p[2] + a.r1>> = q
    <3>1. /\ q[1] \in Int /\ q[2] \in Int /\ p[1] \in Int /\ p[2] \in Int
          /\ a.c1 \in Int /\ a.r1 \in Int /\ q = <<q[1], q[2]>>
      BY SheetAreaHas
    <3>2. /\ (q[1] - a.c1 + p[1]) - p[1] + a.c1 = q[1]
          /\ (q[2] - a.r1 + p[2]) - p[2] + a.r1 = q[2]
      BY <3>1
    <3>3. QED
      BY <3>1, <3>2
  <2>4. moved = [y \in SheetCells |-> IF In(t, y)
                   THEN cs[<<y[1] - p[1] + a.c1, y[2] - p[2] + a.r1>>] ELSE cs[y]]
    BY <1>2 DEF CopiedTo
  <2>5. MovedTo(cs, a, p) = [y \in SheetCells |->
                               IF In(a, y) /\ ~In(t, y) THEN Blank ELSE moved[y]]
    BY <1>2 DEF MovedTo
  <2> HIDE DEF moved, t, z
  <2>6. moved[z] = cs[q]
    BY <2>2, <2>3, <2>4
  <2>7. MovedTo(cs, a, p)[z] = cs[q]
    BY <2>2, <2>5, <2>6
  <2>8. QED
    BY <2>2, <2>7
<1>3. QED
  BY <1>1, <1>2

LEMMA CutAtKeepsCell ==
    ASSUME NEW cs \in CellMap, NEW g, First(g) \in SheetAreas, CutAt(cs, g), IInv,
           NEW q \in SheetCells
    PROVE  \/ cell'[q] = cs[q]
           \/ \E x \in DOMAIN app'.clip : app'.clip[x] = cs[q]
<1>1. cell' = Emptied(cs, First(g))
  BY DEF CutAt
<1>2. app'.clip = Clip(cs, First(g))
  BY AppHas DEF CutAt
<1>3. QED
  BY <1>1, <1>2, CutKeepsCell

LEMMA CutLosesNothing ==
    ASSUME IInv, Cut, got' = "ok", NEW p \in CellsOf(it)
    PROVE  \/ \E q \in SheetCells : cell'[q] = cell[p]
           \/ \E q \in DOMAIN app'.clip : app'.clip[q] = cell[p]
<1> DEFINE a == First(it)
<1>1. IsRange(it) /\ a \in SheetAreas /\ Works /\ ~Several(it) /\ cell \in CellMap
  BY ItIsRange, FirstOnSheet, CellsAre DEF Cut, Throws
<1>2. p \in SheetCells /\ In(a, p)
  <2>1. Len(it.areas) \in Nat \ {0} /\ ~(Len(it.areas) > 1) /\ DOMAIN it.areas = 1 .. Len(it.areas)
    BY <1>1, RangeHas DEF Several
  <2>2. DOMAIN it.areas = {1}
    <3> DEFINE n == Len(it.areas)
    <3> HIDE DEF n
    <3>1. n \in Nat \ {0} /\ ~(n > 1) => 1 .. n = {1}
      OBVIOUS
    <3>2. QED
      BY <2>1, <3>1 DEF n
  <2>3. p \in CellsIn(a)
    BY <2>2 DEF CellsOf, First
  <2>4. QED
    BY <1>1, <2>3, SheetAreaHas, CellsOnSheet
<1>3. CASE CutAt(cell, it)
  BY <1>1, <1>2, <1>3, CutAtKeepsCell
<1>4. ASSUME NEW d \in SheetCells, NEW g \in Moved(it, d), CutAt(MovedTo(cell, a, d), g)
      PROVE  \/ \E q \in SheetCells : cell'[q] = cell[p]
             \/ \E q \in DOMAIN app'.clip : app'.clip[q] = cell[p]
  <2> DEFINE cs == MovedTo(cell, a, d)
  <2>1. cs \in CellMap
    BY <1>1, CopiedMap
  <2>2. First(g) \in SheetAreas
    BY <1>1, MovedIsRange
  <2>3. PICK z \in SheetCells : cs[z] = cell[p]
    BY <1>1, <1>2, MovedHasCell
  <2> HIDE DEF cs
  <2>4. QED
    BY <1>4, <2>1, <2>2, <2>3, CutAtKeepsCell DEF cs
<1>5. QED
  BY <1>3, <1>4 DEF Cut, Throws

\* Cut with a destination moves the cells and cuts all the same: their contents
\* are on the sheet or on the clipboard, wherever the destination lies.
THEOREM CutIsSafe == Spec => NothingIsLost
<1>1. IInv /\ [Next]_vars =>
        [Cut /\ got' = "ok" =>
           \A p \in CellsOf(it) :
             \/ \E q \in SheetCells : cell'[q] = cell[p]
             \/ \E q \in DOMAIN app'.clip : app'.clip[q] = cell[p]]_vars
  BY CutLosesNothing
<1>2. QED
  BY <1>1, MacroInvariant, PTL DEF Spec, NothingIsLost

-----------------------------------------------------------------------------
(* Counting cells *)

LEMMA FlattenOne ==
    ASSUME NEW q, Len(q) = 1 PROVE FlattenSeq(q) = q[1]
<1> DEFINE Flattens(h) ==
             h = [i \in 1 .. Len(q) |-> IF i = 1 THEN q[i] ELSE h[i - 1] \o q[i]]
           f == CHOOSE h : Flattens(h)
<1>1. FlattenSeq(q) = f[Len(q)]
  BY DEF FlattenSeq
<1>2. \E h : Flattens(h)
  <2> DEFINE w == [i \in 1 .. 1 |-> q[1]]
  <2>1. w = [i \in 1 .. 1 |-> IF i = 1 THEN q[i] ELSE w[i - 1] \o q[i]]
    <3>1. \A i \in 1 .. 1 : i = 1
      OBVIOUS
    <3>2. QED
      BY <3>1
  <2>2. Flattens(w)
    BY <2>1
  <2>3. QED
    BY <2>2
<1>3. Flattens(f)
  <2> HIDE DEF Flattens
  <2>1. QED
    BY <1>2
<1>4. f[1] = q[1]
  <2> HIDE DEF f
  <2>1. f = [i \in 1 .. 1 |-> IF i = 1 THEN q[i] ELSE f[i - 1] \o q[i]]
    BY <1>3
  <2>2. 1 \in 1 .. 1
    OBVIOUS
  <2>3. QED
    BY <2>1, <2>2
<1>5. QED
  BY <1>1, <1>4

\* The quotient that finds a row.
LEMMA RowOfIndex ==
    ASSUME NEW w \in Nat \ {0}, NEW h \in Nat \ {0}, NEW i \in Int, 0 <= i, i < w * h
    PROVE  i \div w \in Int /\ 0 <= i \div w /\ i \div w <= h - 1
<1> DEFINE d == i \div w
           m == i % w
<1>1. d \in Int /\ m \in Int /\ 0 <= m /\ m <= w - 1 /\ i = w * d + m
  OBVIOUS
<1> HIDE DEF d, m
<1>2. 0 <= d
  <2>1. SUFFICES ASSUME d <= -1 PROVE FALSE
    BY <1>1
  <2>2. w * d <= w * (-1)
    BY <1>1, <2>1
  <2>3. w * (-1) = -w
    OBVIOUS
  <2>4. QED
    BY <1>1, <2>2, <2>3
<1>3. d <= h - 1
  <2>1. SUFFICES ASSUME h <= d PROVE FALSE
    BY <1>1
  <2>2. w * h <= w * d
    BY <1>1, <2>1
  <2>3. w * h \in Int /\ w * d \in Int
    BY <1>1
  <2>4. QED
    BY <1>1, <2>2, <2>3
<1>4. QED
  BY <1>1, <1>2, <1>3 DEF d

\* The n-th cell by its index is the n-th of the enumeration, and of the area.
LEMMA CellByIndex ==
    ASSUME NEW a \in SheetAreas, NEW n \in 1 .. (Width(a) * Height(a))
    PROVE  CellAt(a, n) = Enumerated(a)[n] /\ Enumerated(a)[n] \in CellsIn(a)
<1> DEFINE w == Width(a)
           h == Height(a)
           i == n - 1
<1>1. /\ w \in Nat \ {0} /\ h \in Nat \ {0} /\ w = a.c2 - a.c1 + 1 /\ h = a.r2 - a.r1 + 1
      /\ a.c1 \in Int /\ a.c2 \in Int /\ a.r1 \in Int /\ a.r2 \in Int
  BY SheetAreaHas
<1>2. Enumerated(a)[n] = <<a.c1 + (i % w), a.r1 + (i \div w)>>
  BY DEF Enumerated
<1>3. CellAt(a, n) = <<a.c1 + (IF i < 0 THEN -((-i) % w) ELSE i % w),
                       a.r1 + (IF i <= 0 THEN 0 ELSE i \div w)>>
  BY DEF CellAt
<1>4. w * h \in Nat
  BY <1>1
<1>5. n \in 1 .. w * h
  OBVIOUS
<1> HIDE DEF w, h
<1>6. i \in Int /\ 0 <= i /\ i < w * h
  BY <1>4, <1>5
<1> HIDE DEF i
<1>7. i % w \in Int /\ 0 <= i % w /\ i % w <= w - 1
  BY <1>1, <1>6, ModRange
<1>8. i \div w \in Int /\ 0 <= i \div w /\ i \div w <= h - 1
  BY <1>1, <1>6, RowOfIndex
<1>9. i <= 0 => i \div w = 0
  <2>1. 0 \div w = 0
    BY <1>1
  <2>2. QED
    BY <1>6, <2>1
<1>10. CellAt(a, n) = Enumerated(a)[n]
  <2>1. ~(i < 0)
    BY <1>6
  <2>2. QED
    BY <1>2, <1>3, <1>9, <2>1
<1>11. Enumerated(a)[n] \in CellsIn(a)
  <2> DEFINE x == i % w
             y == i \div w
  <2>1. x \in Int /\ 0 <= x /\ x <= w - 1 /\ y \in Int /\ 0 <= y /\ y <= h - 1
    BY <1>7, <1>8
  <2> HIDE DEF x, y
  <2>2. a.c1 + x \in a.c1 .. a.c2 /\ a.r1 + y \in a.r1 .. a.r2
    BY <1>1, <2>1
  <2>3. QED
    BY <1>2, <2>2 DEF CellsIn, x, y
<1>12. QED
  BY <1>10, <1>11

LEMMA EnumerationOfOne ==
    ASSUME NEW g, IsRange(g), ~Several(g) PROVE Enumeration(g) = Enumerated(First(g))
<1> DEFINE q == [i \in DOMAIN g.areas |-> Enumerated(g.areas[i])]
<1>1. DOMAIN g.areas = {1}
  <2> DEFINE m == Len(g.areas)
  <2>1. m \in Nat \ {0} /\ ~(m > 1) /\ DOMAIN g.areas = 1 .. m
    BY RangeHas DEF Several
  <2> HIDE DEF m
  <2>2. QED
    BY <2>1
<1>2. q[1] = Enumerated(First(g)) /\ DOMAIN q = 1 .. 1
  BY <1>1 DEF First
<1>3. Enumeration(g) = FlattenSeq(q)
  BY DEF Enumeration
<1>4. q \in Seq({q[1]})
  <2>1. q \in [1 .. 1 -> {q[1]}]
    <3>1. \A i \in 1 .. 1 : i = 1
      OBVIOUS
    <3>2. q = [i \in 1 .. 1 |-> Enumerated(g.areas[i])]
      BY <1>1, <3>1
    <3> HIDE DEF q
    <3>3. QED
      BY <3>1, <3>2
  <2>2. 1 \in Nat
    OBVIOUS
  <2> HIDE DEF q
  <2>3. QED
    BY <2>1, <2>2, SeqDef
<1> HIDE DEF q
<1>5. Len(q) = 1
  BY <1>2, <1>4
<1>6. QED
  BY <1>2, <1>3, <1>5, FlattenOne

\* Cells(n) counts like For Each over the Range: the n-th cell of one is the n-th
\* of the other, for areas of any width and height.
THEOREM CellsCountInOrder == Spec => []CellsInOrder
<1>1. ASSUME IInv PROVE CellsInOrder
  <2>1. SUFFICES ASSUME ~Several(it), OnSheet(it), NEW n \in DOMAIN Enumeration(it)
                 PROVE  CellsIndex(it, n) =
                          LET p == Enumeration(it)[n] IN Plain(<<Area(p[1], p[2], p[1], p[2])>>)
    BY DEF CellsInOrder
  <2> DEFINE a == First(it)
  <2>2. IsRange(it) /\ a \in SheetAreas /\ Enumeration(it) = Enumerated(a)
    BY <1>1, <2>1, ItIsRange, RangeHas, RangeOnSheet, EnumerationOfOne DEF SheetAreas
  <2>3. n \in 1 .. (Width(a) * Height(a))
    BY <2>2 DEF Enumerated
  <2> HIDE DEF a
  <2>4. PICK p : p = CellAt(a, n) /\ p = Enumeration(it)[n] /\ p \in CellsIn(a)
    BY <2>2, <2>3, CellByIndex
  <2>5. p \in SheetCells
    BY <2>2, <2>4, SheetAreaHas, CellsOnSheet
  <2>6. CellsIndex(it, n) = ByPosition(p[1], p[2], p[1], p[2])
    BY <2>4 DEF CellsIndex, a
  <2>7. ByPosition(p[1], p[2], p[1], p[2]) = Plain(<<Area(p[1], p[2], p[1], p[2])>>)
    <3>1. p[1] \in SheetCols /\ p[2] \in SheetRows
      BY <2>5 DEF SheetCells
    <3>2. p[1] <= p[1] /\ p[2] <= p[2]
      BY <3>1 DEF SheetCols, SheetRows
    <3>3. AreaOnSheet(Area(p[1], p[2], p[1], p[2]))
      BY <3>1 DEF AreaOnSheet, Area
    <3>4. QED
      BY <3>2, <3>3 DEF ByPosition
  <2>8. QED
    BY <2>4, <2>6, <2>7
<1>2. QED
  BY <1>1, MacroInvariant, PTL
=============================================================================
