------------------------------ MODULE VbaAreas ------------------------------
(***************************************************************************)
(* scratch/sc-vba, vbarange.cxx: Range objects as values and the calls     *)
(* that make one from another.  Columns and rows are counted from zero, as *)
(* in the document; what a macro passes is counted from one.               *)
(*                                                                         *)
(* A Range has one area or several, and knows whether it was made as rows  *)
(* or as columns.  An area the code makes itself may lie off the sheet:    *)
(* only getCellRangeByPosition looks.                                      *)
(***************************************************************************)
EXTENDS Integers, Sequences, FiniteSets, SequencesExt, FiniteSetsExt

CONSTANTS MaxCol, MaxRow

ASSUME SheetAssumption == MaxCol \in Nat /\ MaxRow \in Nat

SheetCols  == 0..MaxCol
SheetRows == 0..MaxRow
SheetCells == SheetCols \X SheetRows

Area(c1, r1, c2, r2) == [c1 |-> c1, r1 |-> r1, c2 |-> c2, r2 |-> r2]

AreaRecord == [c1 : Int, r1 : Int, c2 : Int, r2 : Int]

IsArea(a) ==
    /\ a \in AreaRecord
    /\ a.c1 <= a.c2 /\ a.r1 <= a.r2

AreaOnSheet(a) == a.c1 \in SheetCols /\ a.c2 \in SheetCols /\ a.r1 \in SheetRows /\ a.r2 \in SheetRows

Sheet == Area(0, 0, MaxCol, MaxRow)

Plain(areas)   == [areas |-> areas, rows |-> FALSE, cols |-> FALSE]
AsRows(areas)  == [areas |-> areas, rows |-> TRUE,  cols |-> FALSE]
AsCols(areas)  == [areas |-> areas, rows |-> FALSE, cols |-> TRUE]

Nothing == Plain(<<>>)

IsRange(g) == /\ g \in [areas : Seq(AreaRecord), rows : BOOLEAN, cols : BOOLEAN]
              /\ g.areas # <<>>
              /\ \A i \in DOMAIN g.areas : IsArea(g.areas[i])
OnSheet(g) == \A i \in DOMAIN g.areas : AreaOnSheet(g.areas[i])

Several(g) == Len(g.areas) > 1

\* getArea: an area of a Range is a Range of the same kind.
Item(g, i) == [g EXCEPT !.areas = <<g.areas[i]>>]
First(g)   == g.areas[1]

Width(a)  == a.c2 - a.c1 + 1
Height(a) == a.r2 - a.r1 + 1

SingleCell(g) == Len(g.areas) = 1 /\ Width(First(g)) = 1 /\ Height(First(g)) = 1

In(a, p)     == p[1] \in a.c1..a.c2 /\ p[2] \in a.r1..a.r2
CellsIn(a)   == (a.c1..a.c2) \X (a.r1..a.r2)
CellsOf(g)   == UNION {CellsIn(g.areas[i]) : i \in DOMAIN g.areas}
ColsOf(a)    == a.c1..a.c2
RowsOf(a)    == a.r1..a.r2

\* createRangeFromRange, getCellRangeByPosition: nothing off the sheet.
ByPosition(c1, r1, c2, r2) ==
    IF AreaOnSheet(Area(c1, r1, c2, r2)) /\ c1 <= c2 /\ r1 <= r2
    THEN Plain(<<Area(c1, r1, c2, r2)>>) ELSE Nothing

(***************************************************************************)
(* Counting.                                                               *)
(***************************************************************************)
AreaCount(g, a) ==
    IF g.rows THEN Height(a) ELSE IF g.cols THEN Width(a) ELSE Height(a) * Width(a)

Count(g) == FoldLeft(LAMBDA n, a : n + AreaCount(g, a), 0, g.areas)

\* CellsEnumeration: all cells, area after area, row after row.
Enumerated(a) ==
    [k \in 1..(Width(a) * Height(a)) |->
        <<a.c1 + ((k - 1) % Width(a)), a.r1 + ((k - 1) \div Width(a))>>]
Enumeration(g) == FlattenSeq([i \in DOMAIN g.areas |-> Enumerated(g.areas[i])])

(***************************************************************************)
(* Moving.                                                                 *)
(***************************************************************************)
Shift(a, dc, dr) == Area(a.c1 + dc, a.r1 + dr, a.c2 + dc, a.r2 + dr)

Offset(g, dr, dc) == Plain([i \in DOMAIN g.areas |-> Shift(g.areas[i], dc, dr)])

\* Mutant: the row is found with the number of rows.
CellAtByRows(a, n) ==
    LET i == n - 1
    IN  <<a.c1 + (i % Width(a)), a.r1 + (i \div Height(a))>>

\* Cells(n): an index below two is the first row.  % of C++ keeps the sign.
CellAt(a, n) ==
    LET i   == n - 1
        col == IF i < 0 THEN -((-i) % Width(a)) ELSE i % Width(a)
        row == IF i <= 0 THEN 0 ELSE i \div Width(a)
    IN  <<a.c1 + col, a.r1 + row>>

CellsIndex(g, n) ==
    LET p == CellAt(First(g), n) IN ByPosition(p[1], p[2], p[1], p[2])

\* Cells(row, column); what is left out counts as 0, and so as the one before.
Cells(g, r, c) ==
    LET a == First(g)
    IN  ByPosition(a.c1 + c - 1, a.r1 + r - 1, a.c1 + c - 1, a.r1 + r - 1)

\* Rows(n), Rows("from:to") and Rows(); the first area, but all without index.
Rows(g, from, to) ==
    LET a == First(g)
        s == a.r1 + from - 1
        e == s + (to - from)
    IN  IF s < 0 \/ e < 0 THEN Nothing ELSE AsRows(<<Area(a.c1, s, a.c2, e)>>)
AllRows(g) == AsRows(g.areas)

\* Columns(n), Columns("from:to"); Columns() has the first area only.
Columns(g, from, to) ==
    LET a == First(g)
        s == a.c1 + from - 1
        e == s + (to - from)
    IN  IF s < 0 \/ e < 0 THEN Nothing ELSE AsCols(<<Area(s, a.r1, e, a.r2)>>)
AllColumns(g) == AsCols(<<First(g)>>)

\* Item of rows and of columns; Item of cells is Cells.
RowOrColumn(g, n) == IF g.cols THEN Columns(g, n, n) ELSE Rows(g, n, n)

\* Resize of a Range with one area: collapseToSize looks at nothing but signs.
Resize(g, h, w) ==
    LET a == First(g)
    IN  IF h < 1 \/ w < 1 THEN Plain(<<a>>)
        ELSE ByPosition(a.c1, a.r1, a.c1 + w - 1, a.r1 + h - 1)

EntireColumn(g) ==
    AsCols([i \in DOMAIN g.areas |-> [g.areas[i] EXCEPT !.r1 = 0, !.r2 = MaxRow]])
EntireRow(g) ==
    AsRows([i \in DOMAIN g.areas |-> [g.areas[i] EXCEPT !.c1 = 0, !.c2 = MaxCol]])

(***************************************************************************)
(* Naming.                                                                 *)
(***************************************************************************)

\* getScRangeListForAddress, for the parts of "x,y,...": after each part, all
\* that has been found so far is moved by the start of the referring area.
Referred(a, parts) ==
    [i \in DOMAIN parts |->
        LET n == Len(parts) - i + 1 IN Shift(parts[i], n * a.c1, n * a.r1)]

\* Range("x,y,..."), relative to the start of the first area.
RangeForName(g, parts) == Plain(Referred(First(g), parts))

Least(x, y)    == IF x < y THEN x ELSE y
Greatest(x, y) == IF x > y THEN x ELSE y

\* Range(Cell1, Cell2): the addresses of the cells are absolute, and the start
\* of the referring area is added to them; what then is off the sheet gives
\* the first area itself.
RangeOfTwo(g, p, q) ==
    LET a == First(g)
        b == Area(a.c1 + Least(p.c1, q.c1), a.r1 + Least(p.r1, q.r1),
                  a.c1 + Greatest(p.c2, q.c2), a.r1 + Greatest(p.r2, q.r2))
    IN  IF AreaOnSheet(b) THEN Plain(<<b>>) ELSE Plain(<<a>>)

\* queryIntersection of the one area.
Intersect(a, b) ==
    LET c == Area(Greatest(a.c1, b.c1), Greatest(a.r1, b.r1),
                  Least(a.c2, b.c2), Least(a.r2, b.r2))
    IN  IF c.c1 <= c.c2 /\ c.r1 <= c.r2 THEN Plain(<<c>>) ELSE Nothing

\* The areas that a query of the document gives for a set of cells: the set,
\* if it is an area, or its cells.
Bounding(S) ==
    Area(Min({p[1] : p \in S}), Min({p[2] : p \in S}),
         Max({p[1] : p \in S}), Max({p[2] : p \in S}))
AreasFor(S) ==
    IF S = {} THEN <<>>
    ELSE IF CellsIn(Bounding(S)) = S THEN <<Bounding(S)>>
    ELSE SetToSeq({Area(p[1], p[2], p[1], p[2]) : p \in S})
=============================================================================
