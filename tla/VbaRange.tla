------------------------------ MODULE VbaRange ------------------------------
(***************************************************************************)
(* scratch/sc-vba, vbarange.cxx: a macro works with a Range of one sheet.  *)
(* Each call runs to its end; several areas are worked on one by one.      *)
(*                                                                         *)
(* Cells hold one of a few contents; the document (Calc) is modelled from  *)
(* how the code uses it.  A Range that lies off the sheet can be moved,    *)
(* and nothing else is done with it.                                       *)
(***************************************************************************)
EXTENDS VbaAreas, TLC

CONSTANTS
    Start,      \* Ranges a macro may begin with
    Filled,     \* contents of the sheet it may find
    Calls       \* bound: calls of a macro

VARIABLES
    it,         \* the macro's Range
    cell,       \* contents and attributes of each cell
    lines,      \* rows and columns
    marks,      \* merged areas, print areas, the automatic filter
    view,       \* the selection and the active cell
    app,        \* the clipboard and the options that outlive a call
    got,        \* how the last call ended
    wrote,      \* observation: the last property set that nothing has disturbed
    calls

vars == <<it, cell, lines, marks, view, app, got, wrote, calls>>
sheet == <<cell, lines, marks>>

Numbers  == {"zero", "one", "five"}
Formulas == {"=TRUE()", "=text", "=number", "=error"}
Contents == {"empty", "text", "other", "#N/A"} \cup Numbers \cup Formulas
Formats  == {"general", "logical", "date"}

Cell  == [v : Contents, f : Formats, note : BOOLEAN, wrap : BOOLEAN]
Blank == [v |-> "empty", f |-> "general", note |-> FALSE, wrap |-> FALSE]

ASSUME MacroAssumption ==
    /\ \A g \in Start : IsRange(g)
    /\ Filled \subseteq [SheetCells -> Cell]
    /\ Calls \in Nat

NoWrite == [kind |-> "none", range |-> Nothing, value |-> "none"]
NoArea  == Area(0, 0, -1, -1)

(***************************************************************************)
(* What the calls do to a cell, and what is read from it.                  *)
(***************************************************************************)

\* Mutant: a boolean is written like a number.
ValuedPlainly(c, v) ==
    [c EXCEPT !.v = CASE v = "TRUE" -> "one" [] v = "FALSE" -> "zero" [] OTHER -> v]

\* CellValueSetter: a number leaves the format, also one that shows booleans.
Valued(c, v) ==
    CASE v = "TRUE"  -> [c EXCEPT !.v = "one", !.f = "logical"]
      [] v = "FALSE" -> [c EXCEPT !.v = "zero", !.f = "logical"]
      [] OTHER       -> [c EXCEPT !.v = v]

\* CellValueGetter
Shown(c) ==
    CASE c.v = "=TRUE()" -> "TRUE"
      [] c.v = "=text"   -> "text"
      [] c.v \in {"=number", "=error"} -> "five"
      [] c.v \in Numbers /\ c.f = "logical" -> IF c.v = "zero" THEN "FALSE" ELSE "TRUE"
      [] OTHER -> c.v

\* clearContents of the document: a number is a date by its format.
Cleared(c, flags) ==
    LET kind == CASE c.v \in Formulas -> "FORMULA"
                  [] c.v \in Numbers -> IF c.f = "date" THEN "DATETIME" ELSE "VALUE"
                  [] OTHER -> "STRING"
        d == IF kind \in flags THEN [c EXCEPT !.v = "empty"] ELSE c
        e == IF "ANNOTATION" \in flags THEN [d EXCEPT !.note = FALSE] ELSE d
    IN  IF "HARDATTR" \in flags THEN [e EXCEPT !.f = "general", !.wrap = FALSE] ELSE e

\* getPasteFlags: what of the clipboard comes into a cell.
Pasted(c, d, paste) ==
    CASE paste = "all"      -> d
      [] paste = "comments" -> [c EXCEPT !.note = d.note]
      [] paste = "formats"  -> [c EXCEPT !.f = d.f, !.wrap = d.wrap]
      [] paste = "formulas" -> IF d.v \in Formulas THEN [c EXCEPT !.v = d.v] ELSE c
      [] paste = "values"   -> [c EXCEPT !.v = IF d.v \in Formulas THEN "five" ELSE d.v]
      [] paste = "widths"   -> c

Uniform(S) == IF Cardinality(S) = 1 THEN CHOOSE x \in S : TRUE ELSE "mixed"

\* Getters.  With several areas most have that of the first.
ReadCells(kind, g) ==
    LET all  == {cell[p] : p \in CellsOf(g)}
        one  == {cell[p] : p \in CellsIn(First(g))}
    IN  CASE kind = "value"   -> Uniform({Shown(c) : c \in one})
          [] kind = "formula" -> Uniform({c.v : c \in one})
          [] kind = "r1c1"    -> IF Several(g) THEN "A1" ELSE Uniform({c.v : c \in one})
          [] kind = "format"  -> Uniform({c.f : c \in all})
          [] kind = "wrap"    -> Uniform({c.wrap : c \in all})

ReadLines(kind, g) ==
    LET a == First(g)
    IN  CASE kind = "height" ->
               IF g.rows THEN Uniform({lines.height[r] : r \in RowsOf(a)})
                         ELSE lines.height[a.r1]
          [] kind = "width"  -> Uniform({lines.width[c] : c \in ColsOf(a)})
          [] kind = "hidden" -> IF g.rows THEN a.r1 \in lines.hiddenRows
                                          ELSE a.c1 \in lines.hiddenCols
          [] kind = "break"  -> IF a.r1 = 0 THEN a.c1 \in lines.breakCols
                                            ELSE a.r1 \in lines.breakRows

Read(kind, g) == IF kind \in {"height", "width", "hidden", "break"}
                 THEN ReadLines(kind, g) ELSE ReadCells(kind, g)

(***************************************************************************)
(* How calls end.                                                          *)
(***************************************************************************)
Ready == got # "crashed" /\ calls < Calls /\ calls' = calls + 1
Works == Ready /\ OnSheet(it)

Untouched == UNCHANGED <<sheet, view, app, wrote>>

Throws  == got' = "threw" /\ UNCHANGED it /\ Untouched
Crashes == got' = "crashed" /\ UNCHANGED it /\ Untouched
Answers == got' = "ok" /\ UNCHANGED it /\ Untouched

\* An address off the sheet throws.
Becomes(g) ==
    IF g = Nothing THEN Throws ELSE it' = g /\ got' = "ok" /\ Untouched

Disturbs(kinds) == wrote' = IF wrote.kind \in kinds THEN NoWrite ELSE wrote
Remembers(kind, value) == wrote' = [kind |-> kind, range |-> it, value |-> value]

CellKinds == {"value", "formula", "r1c1", "format", "wrap"}

\* A call that changes cells and nothing else.
Edits(f) == cell' = f /\ got' = "ok" /\ UNCHANGED <<it, lines, marks, view, app>>
EditsLines(l) == lines' = l /\ got' = "ok" /\ UNCHANGED <<it, cell, marks, view, app>>
EditsMarks(m) == marks' = m /\ got' = "ok" /\ UNCHANGED <<it, cell, lines, view, app>>

OnCells(F(_)) == [p \in SheetCells |-> IF p \in CellsOf(it) THEN F(cell[p]) ELSE cell[p]]

\* Area by area.
InTurn(F(_, _), x) == FoldLeft(F, x, it.areas)

\* Mutant: the last area is left out, also of one.
ButLastAlways == Front(it.areas)

\* The areas that a loop to `index != nLen` reaches.
ButLast == IF Several(it) THEN Front(it.areas) ELSE it.areas

(***************************************************************************)
(* Another Range from this one.                                            *)
(***************************************************************************)
Steps == -1..2

DoOffset == \E dr, dc \in Steps : Ready /\ Becomes(Offset(it, dr, dc))

DoCells ==
    /\ Works
    /\ \/ Becomes(Plain(<<First(it)>>))
       \/ \E n \in 1..4 : Becomes(CellsIndex(it, n))
       \/ \E r, c \in 0..2 : Becomes(Cells(it, r, c))

\* Item: rows and columns take one index.
DoItem ==
    /\ Works
    /\ it.rows \/ it.cols
    /\ \/ Throws
       \/ \E n \in 1..2 : Becomes(RowOrColumn(it, n))

DoRows ==
    /\ Works
    /\ \/ Becomes(AllRows(it))
       \/ \E n, m \in 1..2 : n <= m /\ Becomes(Rows(it, n, m))

DoColumns ==
    /\ Works
    /\ \/ Becomes(AllColumns(it))
       \/ \E n, m \in 1..2 : n <= m /\ Becomes(Columns(it, n, m))

DoEntire == Works /\ (Becomes(EntireRow(it)) \/ Becomes(EntireColumn(it)))

DoResize ==
    /\ Works
    /\ \/ Several(it) /\ Throws
       \/ ~Several(it) /\ \E h, w \in 0..2 : Becomes(Resize(it, h, w))

\* Range("x,y"), Range(Cell1, Cell2) on the same sheet, and what names nothing.
DoRange ==
    /\ Works
    /\ \/ Throws
       \/ \E p, q \in SheetCells :
            LET a == Area(p[1], p[2], p[1], p[2])
                b == Area(q[1], q[2], q[1], q[2])
            IN  \/ Becomes(RangeForName(it, <<a>>))
                \/ Becomes(RangeForName(it, <<a, b>>))
                \/ Becomes(RangeOfTwo(it, a, b))

\* getArea, Areas
DoArea == \E i \in DOMAIN it.areas : Ready /\ Becomes(Item(it, i))

\* No intersection: the first of no ranges is taken.
DoIntersect ==
    /\ Works
    /\ \/ Several(it) /\ Throws
       \/ \E p \in SheetCells :
            LET g == Intersect(First(it), Area(p[1], p[2], MaxCol, MaxRow))
            IN  /\ ~Several(it)
                /\ IF g = Nothing THEN Crashes ELSE Becomes(g)

\* CurrentRegion, CurrentArray: what surrounds the first area.
RegionOf(a) ==
    {b \in [c1 : 0..a.c1, r1 : 0..a.r1, c2 : a.c2..MaxCol, r2 : a.r2..MaxRow] :
        \/ b = a
        \/ \A r \in RowsOf(b) : \E c \in ColsOf(b) : cell[<<c, r>>].v # "empty"}

DoCurrentRegion == Works /\ \E b \in RegionOf(First(it)) : Becomes(Plain(<<b>>))

\* Next, Previous: another cell of the sheet.
DoNext == Works /\ \E p \in SheetCells : Becomes(Plain(<<Area(p[1], p[2], p[1], p[2])>>))

\* SpecialCells.  With several areas the loop asks for one too many; a single
\* cell stands for all that is used; nothing found is taken for one range.  The
\* last cell, and what has to do with validation, is refused.
CellsLike(type, S) ==
    CASE type = "blanks"    -> {p \in S : cell[p].v = "empty"}
      [] type = "comments"  -> {p \in S : cell[p].note}
      [] type = "constants" -> {p \in S : cell[p].v \notin Formulas \cup {"empty"}}
      [] type = "formulas"  -> {p \in S : cell[p].v \in Formulas}
      [] type = "visible"   ->
           {p \in S : p[2] \notin lines.hiddenRows /\ p[1] \notin lines.hiddenCols}

DoSpecialCells ==
    /\ Works
    /\ \/ Throws
       \/ \E type \in {"blanks", "comments", "constants", "formulas", "visible"} :
            LET used  == {p \in SheetCells : cell[p] # Blank}
                all   == IF SingleCell(it) THEN CellsIn(Bounding(used \cup {<<0, 0>>}))
                                           ELSE CellsOf(it)
                found == CellsLike(type, all)
            IN  /\ ~Several(it)
                /\ IF found = {} THEN Crashes ELSE Becomes(Plain(AreasFor(found)))

(***************************************************************************)
(* Contents.                                                               *)
(***************************************************************************)

SetValue(v) ==
    /\ Works
    /\ Edits(OnCells(LAMBDA c : Valued(c, v)))
    /\ Remembers("value", v)

\* An array with rows rows, or of one dimension; beyond it is "#N/A".
ArrayValue(rows, x, y) ==
    IF y < 2 /\ x < rows THEN IF y = 0 THEN "five" ELSE "text" ELSE "#N/A"

SetArray(oneDim) ==
    /\ Works
    /\ Edits(InTurn(LAMBDA cs, a :
               [p \in SheetCells |->
                  IF In(a, p)
                  THEN Valued(cs[p], ArrayValue(IF oneDim THEN MaxRow + 1 ELSE 1,
                                                p[2] - a.r1, p[1] - a.c1))
                  ELSE cs[p]], cell))
    /\ Disturbs(CellKinds)

\* setFormula: what is no string is ignored.
SetFormula(v) ==
    /\ Works
    /\ Edits(OnCells(LAMBDA c : [c EXCEPT !.v = v]))
    /\ Remembers("formula", v)

\* setFormulaArray: a formula like any other, for the first area.
SetFormulaArray(v) ==
    /\ Works
    /\ Edits([p \in SheetCells |-> IF In(First(it), p) THEN [cell[p] EXCEPT !.v = v] ELSE cell[p]])
    /\ Disturbs(CellKinds)

\* setFormulaR1C1: each of several areas takes it for a formula of the document.
SetFormulaR1C1 ==
    /\ Works
    /\ LET v == IF Several(it) THEN "=error" ELSE "=number"
       IN  Edits(OnCells(LAMBDA c : [c EXCEPT !.v = v]))
    /\ Remembers("r1c1", "=number")

Clears(flags) ==
    /\ Works
    /\ Edits(OnCells(LAMBDA c : Cleared(c, flags)))
    /\ Disturbs(CellKinds)

Clear         == Clears({"VALUE", "STRING", "FORMULA", "HARDATTR"})
ClearContents == Clears({"VALUE", "STRING", "DATETIME", "FORMULA"})
ClearComments == Works /\ Edits(OnCells(LAMBDA c : Cleared(c, {"ANNOTATION"}))) /\ UNCHANGED wrote
ClearFormats  == Clears({"HARDATTR"})

\* fillSeries, FillDown and the like: the first row or column is copied.
FillFrom(a, dir, p) ==
    CASE dir = "down"  -> <<p[1], a.r1>>
      [] dir = "up"    -> <<p[1], a.r2>>
      [] dir = "right" -> <<a.c1, p[2]>>
      [] dir = "left"  -> <<a.c2, p[2]>>

FillSeries(dir) ==
    /\ Works
    /\ Edits(InTurn(LAMBDA cs, a :
               [p \in SheetCells |-> IF In(a, p) THEN cs[FillFrom(a, dir, p)] ELSE cs[p]], cell))
    /\ Disturbs(CellKinds)

\* AutoFill: what is continued is the part of the destination, as large as the
\* source, at the side where they meet.
FillPlan(s, d) ==
    LET start == s.c1 = d.c1 /\ s.r1 = d.r1
    IN  CASE s = d -> [dir |-> "none", from |-> d]
          [] s # d /\ start /\ s.r2 = d.r2 ->
               [dir |-> "right", from |-> [d EXCEPT !.c2 = d.c1 + Width(s) - 1]]
          [] s # d /\ start /\ s.r2 # d.r2 /\ s.c2 = d.c2 ->
               [dir |-> "down", from |-> [d EXCEPT !.r2 = d.r1 + Height(s) - 1]]
          [] ~start /\ s.c1 = d.c1 ->
               [dir |-> "up", from |-> [d EXCEPT !.r1 = d.r2 - Height(s) + 1]]
          [] ~start /\ s.c1 # d.c1 /\ s.r1 = d.r1 ->
               [dir |-> "left", from |-> [d EXCEPT !.c1 = d.c2 - Width(s) + 1]]
          [] OTHER -> [dir |-> "none", from |-> d]

\* The document copies, or counts on: not told apart.
Continued(plan, p) ==
    LET f == plan.from
    IN  CASE plan.dir = "down"  -> <<p[1], f.r1 + ((p[2] - f.r1) % Height(f))>>
          [] plan.dir = "right" -> <<f.c1 + ((p[1] - f.c1) % Width(f)), p[2]>>
          [] plan.dir = "up"    -> <<p[1], f.r2 - ((f.r2 - p[2]) % Height(f))>>
          [] plan.dir = "left"  -> <<f.c2 - ((f.c2 - p[1]) % Width(f)), p[2]>>

AutoFill ==
    /\ Works
    /\ \/ Throws    \* several areas; only the formats
       \/ \E d \in [c1 : SheetCols, r1 : SheetRows, c2 : SheetCols, r2 : SheetRows] :
            LET plan == FillPlan(First(it), d)
            IN  /\ IsArea(d) /\ ~Several(it)
                /\ Edits([p \in SheetCells |->
                            IF plan.dir # "none" /\ AreaOnSheet(plan.from)
                               /\ In(d, p) /\ ~In(plan.from, p)
                            THEN cell[Continued(plan, p)] ELSE cell[p]])
                /\ Disturbs(CellKinds)

\* GoalSeek: the changing cell gets what the document has found.
GoalSeek ==
    /\ Works
    /\ ~Several(it)
    /\ \E p \in SheetCells, v \in {"zero", "five"} : Edits([cell EXCEPT ![p] = Valued(@, v)])
    /\ Disturbs(CellKinds)

\* Replace.  The options are those of the search dialog, for all documents.
Replace(look, order) ==
    /\ Works
    /\ \/ /\ look = "illegal" \/ order = "illegal"
          /\ Throws
       \/ /\ look # "illegal" /\ order # "illegal"
          /\ cell' = OnCells(LAMBDA c : IF c.v = "text" THEN [c EXCEPT !.v = "other"] ELSE c)
          /\ app' = [app EXCEPT !.word  = IF look = "" THEN @ ELSE look = "whole",
                                !.byRow = IF order = "" THEN @ ELSE order = "rows"]
          /\ got' = "ok"
          /\ Disturbs(CellKinds)
          /\ UNCHANGED <<it, lines, marks, view>>

(***************************************************************************)
(* Attributes.                                                             *)
(***************************************************************************)
SetNumberFormat(f) ==
    /\ Works
    /\ Edits(OnCells(LAMBDA c : [c EXCEPT !.f = f]))
    /\ Remembers("format", f)

SetWrapText(on) ==
    /\ Works
    /\ Edits(OnCells(LAMBDA c : [c EXCEPT !.wrap = on]))
    /\ Remembers("wrap", on)

\* AddComment gives the comment back when it has no text.
AddComment ==
    /\ Works
    /\ \/ Several(it) /\ Throws
       \/ /\ ~Several(it)
          /\ Edits([cell EXCEPT ![<<First(it).c1, First(it).r1>>].note = TRUE])
          /\ UNCHANGED wrote

\* A single cell, and what is merged in part, is left alone by the document.
MergedWith(m, a) ==
    IF CellsIn(a) = {<<a.c1, a.r1>>} \/ \E b \in m : CellsIn(a) \cap CellsIn(b) # {}
    THEN m ELSE m \cup {a}
Unmerged(m, a) == {b \in m : CellsIn(a) \cap CellsIn(b) = {}}

\* setMergeCells, Merge, UnMerge; across: the cells in the order of Cells(n) of
\* the rows, so only the first cell of an area of several columns, and so on.
SetMergeCells(on) ==
    /\ Works
    /\ \/ Several(it) /\ Throws
       \/ /\ ~Several(it)
          /\ EditsMarks([marks EXCEPT !.merged =
                           IF on THEN MergedWith(@, First(it)) ELSE Unmerged(@, First(it))])
          /\ UNCHANGED wrote

Merge ==
    /\ Works
    /\ EditsMarks([marks EXCEPT !.merged = InTurn(MergedWith, @)])
    /\ UNCHANGED wrote

MergeAcross == Works /\ Answers

UnMerge ==
    /\ Works
    /\ EditsMarks([marks EXCEPT !.merged = InTurn(Unmerged, @)])
    /\ UNCHANGED wrote

\* PrintOut: the areas become the print areas of the sheet.
PrintOut ==
    /\ Works
    /\ EditsMarks([marks EXCEPT !.print = it.areas])
    /\ UNCHANGED wrote

(***************************************************************************)
(* Rows and columns.                                                       *)
(***************************************************************************)
SetRowHeight(h) ==
    /\ Works
    /\ EditsLines([lines EXCEPT !.height =
         [r \in SheetRows |-> IF \E a \in ToSet(ButLast) : r \in RowsOf(a) THEN h ELSE @[r]]])
    /\ Remembers("height", h)

SetColumnWidth(w) ==
    /\ Works
    /\ EditsLines([lines EXCEPT !.width =
         [c \in SheetCols |-> IF \E a \in ToSet(ButLast) : c \in ColsOf(a) THEN w ELSE @[c]]])
    /\ Remembers("width", w)

\* Autofit: of columns, and never of rows.
Autofit ==
    /\ Works
    /\ \/ ~it.cols /\ Throws
       \/ /\ it.cols
          /\ EditsLines([lines EXCEPT !.width =
               [c \in SheetCols |->
                  IF \E a \in ToSet(ButLast) : c \in ColsOf(a) THEN "fit" ELSE @[c]]])
          /\ Disturbs({"width"})

With(S, T, on) == IF on THEN S \cup T ELSE S \ T

\* setHidden: rows if the Range was made as rows, columns else.  A row that is
\* shown is not held back by the filter any more.
SetHidden(on) ==
    /\ Works
    /\ LET rows == IF it.rows THEN UNION {RowsOf(a) : a \in ToSet(it.areas)} ELSE {}
           cols == IF it.rows THEN {} ELSE UNION {ColsOf(a) : a \in ToSet(it.areas)}
       IN  /\ lines' = [lines EXCEPT !.hiddenRows = With(@, rows, on),
                                     !.hiddenCols = With(@, cols, on)]
           /\ marks' = [marks EXCEPT !.filter.held = IF on THEN @ ELSE @ \ rows]
    /\ got' = "ok"
    /\ UNCHANGED <<it, cell, view, app>>
    /\ Remembers("hidden", on)

\* setPageBreak: nothing before the first cell; before a column in the first row.
SetPageBreak(on) ==
    /\ Works
    /\ LET a == First(it)
       IN  \/ Several(it) /\ Throws
           \/ /\ ~Several(it)
              /\ EditsLines(IF a.c1 = 0 /\ a.r1 = 0 THEN lines
                            ELSE IF a.r1 = 0
                            THEN [lines EXCEPT !.breakCols = With(@, {a.c1}, on)]
                            ELSE [lines EXCEPT !.breakRows = With(@, {a.r1}, on)])
              /\ Remembers("break", on)

\* groupUnGroup; AutoOutline, which takes any Range for several.
Group(on) ==
    /\ Works
    /\ \/ Several(it) /\ Throws
       \/ /\ ~Several(it)
          /\ LET a == First(it)
                 g == IF it.cols THEN <<"cols", a.c1, a.c2>> ELSE <<"rows", a.r1, a.r2>>
             IN  EditsLines([lines EXCEPT !.groups = With(@, {g}, on)])
          /\ UNCHANGED wrote

AutoOutline  == Works /\ Throws

ClearOutline ==
    /\ Works
    /\ EditsLines([lines EXCEPT !.groups = {}])
    /\ UNCHANGED wrote

\* Subtotal uses a reference that is never set.
Subtotal == Works /\ Crashes

(***************************************************************************)
(* Selecting.                                                              *)
(***************************************************************************)
SelectOf(areas) == [sel |-> areas, cursor |-> <<areas[1].c1, areas[1].r1>>]

Shows(v) == view' = v /\ got' = "ok" /\ UNCHANGED <<it, sheet, app, wrote>>

Select == Works /\ Shows(SelectOf(it.areas))

\* Activate: within the selection only the cursor moves.
Activate ==
    /\ Works
    /\ LET p == <<First(it).c1, First(it).r1>>
       IN  Shows(IF \E a \in ToSet(view.sel) : In(a, p)
                 THEN [view EXCEPT !.cursor = p] ELSE SelectOf(it.areas))

\* Mutant: the active cell is left where it has been moved to.
EndStays ==
    /\ Works
    /\ LET a == First(it)
           p == <<a.c1, a.r1>>
       IN  \/ /\ view' = SelectOf(<<Area(p[1], p[2], p[1], p[2])>>)
              /\ got' = "threw"
              /\ UNCHANGED <<it, sheet, app, wrote>>
           \/ \E q \in SheetCells :
                /\ q[1] = p[1] \/ q[2] = p[2]
                /\ view' = SelectOf(<<Area(q[1], q[2], q[1], q[2])>>)
                /\ it' = Plain(<<Area(q[1], q[2], q[1], q[2])>>)
                /\ got' = "ok"
                /\ UNCHANGED <<sheet, app, wrote>>

\* End moves the active cell along, looks where it is and takes it back.  A
\* direction that does not exist throws between.
End ==
    /\ Works
    /\ LET a == First(it)
           p == <<a.c1, a.r1>>
           c == view.cursor
       IN  \/ /\ view' = SelectOf(<<Area(p[1], p[2], p[1], p[2])>>)
              /\ got' = "threw"
              /\ UNCHANGED <<it, sheet, app, wrote>>
           \/ \E q \in SheetCells :
                /\ q[1] = p[1] \/ q[2] = p[2]
                /\ view' = SelectOf(<<Area(c[1], c[2], c[1], c[2])>>)
                /\ it' = Plain(<<Area(q[1], q[2], q[1], q[2])>>)
                /\ got' = "ok"
                /\ UNCHANGED <<sheet, app, wrote>>

(***************************************************************************)
(* Clipboard and moving.                                                   *)
(***************************************************************************)
Target(a, p) == Area(p[1], p[2], p[1] + Width(a) - 1, p[2] + Height(a) - 1)

\* copyRange, moveRange: to the cell p; the document does nothing off the sheet.
CopiedTo(cs, a, p) ==
    IF ~AreaOnSheet(Target(a, p)) THEN cs
    ELSE [q \in SheetCells |-> IF In(Target(a, p), q)
                              THEN cs[<<q[1] - p[1] + a.c1, q[2] - p[2] + a.r1>>] ELSE cs[q]]
MovedTo(cs, a, p) ==
    IF ~AreaOnSheet(Target(a, p)) THEN cs
    ELSE LET moved == CopiedTo(cs, a, p)
         IN  [q \in SheetCells |->
                IF In(a, q) /\ ~In(Target(a, p), q) THEN Blank ELSE moved[q]]

Clip(cs, a) == [q \in (0..(Width(a) - 1)) \X (0..(Height(a) - 1)) |->
                  cs[<<a.c1 + q[1], a.r1 + q[2]>>]]
Emptied(cs, a) == [q \in SheetCells |-> IF In(a, q) THEN Blank ELSE cs[q]]

Copy ==
    /\ Works
    /\ \/ Several(it) /\ Throws
       \/ /\ ~Several(it)
          /\ \E p \in SheetCells : Edits(CopiedTo(cell, First(it), p))
          /\ Disturbs(CellKinds)
       \/ /\ ~Several(it)
          /\ view' = SelectOf(it.areas)
          /\ app' = [app EXCEPT !.clip = Clip(cell, First(it))]
          /\ got' = "ok"
          /\ UNCHANGED <<it, sheet, wrote>>

\* Where the Range is after its cells have moved: the document takes it along,
\* or not.
Moved(g, p) ==
    {g} \cup IF AreaOnSheet(Target(First(g), p))
             THEN {[g EXCEPT !.areas = <<Target(First(g), p)>>]} ELSE {}

\* Mutant: the selection is made before the cells are moved, and cut after.
CutSelectsFirst ==
    /\ Works
    /\ ~Several(it)
    /\ \E p \in SheetCells :
         LET moved == MovedTo(cell, First(it), p)
             now   == Emptied(moved, Target(First(it), p))
         IN  /\ AreaOnSheet(Target(First(it), p))
             /\ cell' = now
             /\ app' = [app EXCEPT !.clip = Clip(now, First(it))]
             /\ view' = SelectOf(it.areas)
    /\ got' = "ok"
    /\ Disturbs(CellKinds)
    /\ UNCHANGED <<it, lines, marks>>

\* Cut: what has been moved to a destination is selected and cut all the same.
CutAt(cs, g) ==
    /\ it' = g
    /\ cell' = Emptied(cs, First(g))
    /\ app' = [app EXCEPT !.clip = Clip(cs, First(g))]
    /\ view' = SelectOf(g.areas)
    /\ got' = "ok"
    /\ Disturbs(CellKinds)
    /\ UNCHANGED <<lines, marks>>

Cut ==
    /\ Works
    /\ \/ Several(it) /\ Throws
       \/ ~Several(it) /\ CutAt(cell, it)
       \/ /\ ~Several(it)
          /\ \E p \in SheetCells : \E g \in Moved(it, p) :
               CutAt(MovedTo(cell, First(it), p), g)

\* PasteSpecial into the selected range, which may be larger than the clipboard;
\* then the old selection is made again.  Operations and transposing are left out.
PasteArea(a, w, h) ==
    IF Width(a) % w = 0 /\ Height(a) % h = 0 THEN a
    ELSE Area(a.c1, a.r1, a.c1 + w - 1, a.r1 + h - 1)

PastedFrom(clip, a, paste) ==
    LET w == Max({q[1] : q \in DOMAIN clip}) + 1
        h == Max({q[2] : q \in DOMAIN clip}) + 1
        b == PasteArea(a, w, h)
    IN  [p \in SheetCells |->
           IF AreaOnSheet(b) /\ In(b, p)
           THEN Pasted(cell[p], clip[<<(p[1] - b.c1) % w, (p[2] - b.r1) % h>>], paste)
           ELSE cell[p]]

PasteSpecial ==
    /\ Works
    /\ \/ Several(it) /\ Throws
       \/ /\ ~Several(it)
          /\ \E paste \in {"all", "comments", "formats", "formulas", "values", "widths"} :
               cell' = IF app.clip = <<>> THEN cell
                       ELSE PastedFrom(app.clip, First(it), paste)
          /\ view' = SelectOf(view.sel)
          /\ got' = "ok"
          /\ Disturbs(CellKinds)
          /\ UNCHANGED <<it, lines, marks, app>>

\* Sort: by rows or columns, with the options of the sheet for what is not
\* given; they are remembered when the key has been found in the range.  Which
\* order the document makes of it, with a header or without, is left open.
Sorted(a, byRow, turn) ==
    [p \in SheetCells |->
        IF ~In(a, p) THEN cell[p]
        ELSE IF byRow THEN cell[<<p[1], turn[p[2]]>>] ELSE cell[<<turn[p[1]], p[2]>>]]

Sort(key, order, orient) ==
    /\ Works
    /\ \/ /\ Several(it) \/ ~In(First(it), key)
          /\ Throws
       \/ /\ ~Several(it) /\ In(First(it), key)
          /\ LET now == [up    |-> IF order = "" THEN app.sort.up ELSE order = "ascending",
                         byRow |-> IF orient = "" THEN app.sort.byRow ELSE orient = "columns"]
                 a   == First(it)
                 all == IF now.byRow THEN RowsOf(a) ELSE ColsOf(a)
             IN  /\ app' = [app EXCEPT !.sort = now]
                 /\ \E turn \in Bijection(all, all) : cell' = Sorted(a, now.byRow, turn)
          /\ got' = "ok"
          /\ Disturbs(CellKinds)
          /\ UNCHANGED <<it, lines, marks, view>>

(***************************************************************************)
(* Deleting and inserting.                                                 *)
(***************************************************************************)
CellOr(cs, p) == IF p \in SheetCells THEN cs[p] ELSE Blank

Removed(cs, a, mode) ==
    [p \in SheetCells |->
        IF mode = "up" /\ p[1] \in ColsOf(a) /\ p[2] >= a.r1
        THEN CellOr(cs, <<p[1], p[2] + Height(a)>>)
        ELSE IF mode = "left" /\ p[2] \in RowsOf(a) /\ p[1] >= a.c1
        THEN CellOr(cs, <<p[1] + Width(a), p[2]>>)
        ELSE cs[p]]

\* The document takes along what lies behind.
Followed(b, a, mode) ==
    IF mode = "up" /\ ColsOf(b) \subseteq ColsOf(a) /\ b.r1 > a.r2 THEN Shift(b, 0, -Height(a))
    ELSE IF mode = "left" /\ RowsOf(b) \subseteq RowsOf(a) /\ b.c1 > a.c2 THEN Shift(b, -Width(a), 0)
    ELSE b

\* Delete: area by area, each where the ones before have left it.  What meets
\* merged cells is refused by the document.
Delete(shift) ==
    /\ Works
    /\ \/ shift = "illegal" /\ Throws
       \/ /\ shift # "illegal"
          /\ LET mode(a) == IF shift # "" THEN shift ELSE IF a.r1 > a.c1 THEN "up" ELSE "left"
                 step(s, i) ==
                   LET a == s.areas[i]
                   IN  [cells |-> Removed(s.cells, a, mode(a)),
                        areas |-> [j \in DOMAIN s.areas |-> Followed(s.areas[j], a, mode(a))]]
                 all == FoldLeft(step, [cells |-> cell, areas |-> it.areas],
                                 [i \in DOMAIN it.areas |-> i])
             IN  IF marks.merged # {} THEN UNCHANGED <<it, cell>>
                 ELSE cell' = all.cells /\ it' = [it EXCEPT !.areas = all.areas]
          /\ got' = "ok"
          /\ wrote' = NoWrite
          /\ UNCHANGED <<lines, marks, view, app>>

Inserted(a, mode) ==
    [p \in SheetCells |->
        IF In(a, p) THEN Blank
        ELSE IF mode = "down" /\ p[1] \in ColsOf(a) /\ p[2] > a.r2
        THEN cell[<<p[1], p[2] - Height(a)>>]
        ELSE IF mode = "right" /\ p[2] \in RowsOf(a) /\ p[1] > a.c2
        THEN cell[<<p[1] - Width(a), p[2]>>]
        ELSE cell[p]]

Insert(shift) ==
    /\ Works
    /\ \/ /\ shift = "illegal" \/ Several(it)
          /\ Throws
       \/ /\ shift # "illegal" /\ ~Several(it)
          /\ LET a    == First(it)
                 mode == IF shift # "" THEN shift ELSE IF a.r1 >= a.c1 THEN "down" ELSE "right"
                 b    == IF mode = "down" THEN Shift(a, 0, Height(a)) ELSE Shift(a, Width(a), 0)
             IN  IF marks.merged # {} THEN UNCHANGED <<it, cell>>
                 ELSE /\ cell' = Inserted(a, mode)
                      /\ it' = IF AreaOnSheet(b) THEN [it EXCEPT !.areas = <<b>>] ELSE it
          /\ got' = "ok"
          /\ wrote' = NoWrite
          /\ UNCHANGED <<lines, marks, view, app>>

(***************************************************************************)
(* The automatic filter.                                                   *)
(***************************************************************************)

\* The sheet keeps one database range for it, which has the area it was made
\* with first.  Whether a header is there is looked up anew.
SwitchedOn(b, head) ==
    [marks.filter EXCEPT !.on = TRUE, !.head = head, !.area = IF @ = NoArea THEN b ELSE @]

Switched ==
    LET a == First(it)
    IN  IF marks.filter.on THEN {marks.filter}
        ELSE IF Several(it) THEN {}
        ELSE {SwitchedOn(b, head) : b \in (IF SingleCell(it) THEN RegionOf(a) \ {a} ELSE {a}),
                                    head \in BOOLEAN}

\* The rows that a query of the filter f hides or shows.
Body(f) == RowsOf(f.area) \ (IF f.head THEN {f.area.r1} ELSE {})

\* The filter becomes f, and no row of the sheet changes.
FilterSet(f, end) ==
    /\ marks' = [marks EXCEPT !.filter = f]
    /\ got' = end
    /\ UNCHANGED <<it, cell, lines, view, app, wrote>>

\* Query, refresh: all rows are shown but those that do not meet the conditions,
\* also rows that the macro has hidden or shown itself.
FilterQuery(f) ==
    \E hold \in SUBSET Body(f) :
        /\ f.fields = {} => hold = {}
        /\ lines' = [lines EXCEPT !.hiddenRows = (@ \ Body(f)) \cup hold]
        /\ marks' = [marks EXCEPT !.filter =
                        [f EXCEPT !.held = (@ \ Body(f)) \cup hold, !.lost = @ \ Body(f)]]
        /\ wrote' = IF /\ wrote.kind = "hidden" /\ wrote.range.rows
                       /\ \E a \in ToSet(wrote.range.areas) : RowsOf(a) \cap Body(f) # {}
                    THEN NoWrite ELSE wrote
        /\ got' = "ok"
        /\ UNCHANGED <<it, cell, view, app>>

\* Mutant: the conditions are removed before the filter looks what it has to show.
FilterToggledLate(f) ==
    \/ ~marks.filter.on /\ FilterSet(f, "ok")
    \/ marks.filter.on /\ FilterSet([f EXCEPT !.on = FALSE, !.fields = {}], "ok")

\* Without a field.  A filter that has a condition shows its rows first.
FilterToggled(f) ==
    \/ ~marks.filter.on /\ FilterSet(f, "ok")
    \/ /\ marks.filter.on
       /\ LET off == [f EXCEPT !.on = FALSE, !.fields = {}]
          IN  IF f.fields = {} THEN FilterSet(off, "ok") ELSE FilterQuery(off)

\* Conditions of one field replace all others.  "blank", the empty string: the
\* condition goes to the first field, and is then looked for in the column n of
\* the sheet.  "top", ten of them without a criterion: written to the first entry
\* of an empty sequence; if that goes well there is no condition any more, and
\* the refresh, which finds none, shows no row.
FilterField(f, n, criterion) ==
    \/ /\ criterion = "value"
       /\ FilterQuery([f EXCEPT !.fields = {n}])
    \/ /\ criterion = "none"
       /\ FilterQuery([f EXCEPT !.fields = {}])
    \/ /\ criterion = "blank"
       /\ FilterQuery([f EXCEPT !.fields = IF f.area.c1 = n THEN {} ELSE {1}])
    \/ /\ criterion = "top"
       /\ \/ FilterSet([f EXCEPT !.fields = {}, !.lost = @ \cup f.held], "ok")
          \/ FilterSet(f, "crashed")

\* A criterion or an operator without a field, an unknown operator: refused
\* when the filter has been switched on already.
FilterRefused(f) == FilterSet(f, "threw")

AutoFilter ==
    /\ Works
    /\ \/ /\ ~marks.filter.on /\ (Several(it) \/ SingleCell(it))
          /\ Throws
       \/ \E f \in Switched :
            \/ FilterToggled(f)
            \/ FilterRefused(f)
            \/ \E n \in 1..2, criterion \in {"none", "value", "blank", "top"} :
                 FilterField(f, n, criterion)

(***************************************************************************)
(* The macro.                                                              *)
(***************************************************************************)
Init ==
    /\ it \in Start
    /\ cell \in Filled
    /\ lines = [height |-> [r \in SheetRows |-> "usual"], width |-> [c \in SheetCols |-> "usual"],
                hiddenRows |-> {}, hiddenCols |-> {}, breakRows |-> {}, breakCols |-> {},
                groups |-> {}]
    /\ marks = [merged |-> {}, print |-> <<>>,
                filter |-> [area |-> NoArea, on |-> FALSE, head |-> FALSE, fields |-> {},
                           held |-> {}, lost |-> {}]]
    /\ \E a \in {Sheet, Area(MaxCol, 0, MaxCol, 0)} : view = SelectOf(<<a>>)
    /\ \E clip \in {<<>>, Clip(cell, Area(0, 0, 0, 0))} :
         app = [clip |-> clip, word |-> FALSE, byRow |-> TRUE,
                sort |-> [up |-> TRUE, byRow |-> TRUE]]
    /\ got = "ok"
    /\ wrote = NoWrite
    /\ calls = 0

Navigates ==
    \/ DoOffset \/ DoCells \/ DoItem \/ DoRows \/ DoColumns \/ DoEntire \/ DoResize
    \/ DoRange \/ DoArea \/ DoIntersect \/ DoCurrentRegion \/ DoNext \/ DoSpecialCells

Fills ==
    \/ \E v \in {"TRUE", "FALSE", "five", "text"} : SetValue(v)
    \/ \E oneDim \in BOOLEAN : SetArray(oneDim)
    \/ \E v \in {"=TRUE()", "=number"} : SetFormula(v) \/ SetFormulaArray(v)
    \/ SetFormulaR1C1
    \/ Clear \/ ClearContents \/ ClearComments \/ ClearFormats
    \/ \E dir \in {"down", "up", "left", "right"} : FillSeries(dir)
    \/ AutoFill \/ GoalSeek
    \/ \E look \in {"", "whole", "part", "illegal"}, order \in {"", "rows", "columns", "illegal"} :
         Replace(look, order)

Attributes ==
    \/ \E f \in Formats : SetNumberFormat(f)
    \/ \E on \in BOOLEAN : SetWrapText(on) \/ SetMergeCells(on)
    \/ AddComment \/ Merge \/ MergeAcross \/ UnMerge \/ PrintOut

RowsAndColumns ==
    \/ \E h \in {"usual", "tall"} : SetRowHeight(h)
    \/ \E w \in {"usual", "broad"} : SetColumnWidth(w)
    \/ \E on \in BOOLEAN : SetHidden(on) \/ SetPageBreak(on) \/ Group(on)
    \/ Autofit \/ AutoOutline \/ ClearOutline \/ Subtotal

Moves ==
    \/ Select \/ Activate \/ End \/ Copy \/ Cut \/ PasteSpecial \/ AutoFilter
    \/ \E shift \in {"", "up", "left", "illegal"} : Delete(shift)
    \/ \E shift \in {"", "down", "right", "illegal"} : Insert(shift)
    \/ \E key \in SheetCells, order \in {"", "ascending", "descending"},
           orient \in {"", "rows", "columns"} : Sort(key, order, orient)

Next == Navigates \/ Fills \/ Attributes \/ RowsAndColumns \/ Moves

Spec == Init /\ [][Next]_vars

(***************************************************************************)
(* Properties.                                                             *)
(***************************************************************************)

\* Types of what the calls change.
LinesType ==
    [height : [SheetRows -> {"usual", "tall"}], width : [SheetCols -> {"usual", "broad", "fit"}],
     hiddenRows : SUBSET SheetRows, hiddenCols : SUBSET SheetCols,
     breakRows : SUBSET SheetRows, breakCols : SUBSET SheetCols,
     groups : SUBSET ({"rows", "cols"} \X Int \X Int)]

\* held: the rows the filter hides; lost: those whose condition is gone and that
\* no query has shown since.
FilterType ==
    [area : AreaRecord, on : BOOLEAN, head : BOOLEAN, fields : SUBSET (1..2),
     held : SUBSET SheetRows, lost : SUBSET SheetRows]

MarksType == [merged : SUBSET AreaRecord, print : Seq(AreaRecord), filter : FilterType]

IsClip(clip) ==
    \/ clip = <<>>
    \/ \E w \in 1..MaxCol + 1, h \in 1..MaxRow + 1 :
          clip \in [(0..w - 1) \X (0..h - 1) -> Cell]

ViewOK == view \in [sel : Seq(AreaRecord) \ {<<>>}, cursor : Int \X Int]

AppOK ==
    /\ app = [clip |-> app.clip, word |-> app.word, byRow |-> app.byRow, sort |-> app.sort]
    /\ IsClip(app.clip)
    /\ {app.word, app.byRow} \subseteq BOOLEAN
    /\ app.sort \in [up : BOOLEAN, byRow : BOOLEAN]

WriteKinds == CellKinds \cup {"height", "width", "hidden", "break"}

WroteOK ==
    /\ wrote = [kind |-> wrote.kind, range |-> wrote.range, value |-> wrote.value]
    /\ wrote.kind \in WriteKinds \cup {"none"}
    /\ wrote.kind # "none" => IsRange(wrote.range) /\ OnSheet(wrote.range)

TypeOK ==
    /\ IsRange(it)
    /\ cell \in [SheetCells -> Cell]
    /\ lines \in LinesType
    /\ marks \in MarksType
    /\ ViewOK
    /\ AppOK
    /\ WroteOK
    /\ got \in {"ok", "threw", "crashed"}
    /\ calls \in 0..Calls

\* What does not come back: a number that a format shows as a boolean, a
\* relative formula of several areas, a break before the first cell.
ComesBack ==
    LET g == wrote.range
    IN  /\ wrote.kind = "value" /\ wrote.value = "five" =>
             \A p \in CellsOf(g) : cell[p].f # "logical"
        /\ wrote.kind = "r1c1" => ~Several(g)
        /\ wrote.kind = "break" => First(g).c1 # 0 \/ First(g).r1 # 0

\* Areas that have it: loops over rows and columns leave out the last of several.
Reached == IF wrote.kind \in {"height", "width"} /\ Several(wrote.range)
           THEN DOMAIN Tail(wrote.range.areas) ELSE DOMAIN wrote.range.areas

\* What a macro has set for a Range, it reads from that Range and from every area
\* of it, however setters and getters treat formats, rows and columns, and several
\* areas (getValue, getFormula, getFormulaR1C1, getNumberFormat, getWrapText,
\* getRowHeight, getColumnWidth, getHidden, getPageBreak).
WrittenIsRead ==
    got # "crashed" /\ wrote.kind # "none" /\ ComesBack =>
        /\ Read(wrote.kind, wrote.range) = wrote.value
        /\ \A i \in Reached : Read(wrote.kind, Item(wrote.range, i)) = wrote.value

\* Selection and active cell that End and PasteSpecial borrow are as before when
\* the call returns: End has moved the active cell, PasteSpecial has selected.
BorrowedIsReturned ==
    [][/\ (End /\ got' = "ok") => view'.cursor = view.cursor
       /\ (PasteSpecial /\ got' = "ok") => view'.sel = view.sel]_vars

\* Cells(n) counts like For Each over the Range: its n-th cell is the n-th of the
\* enumeration.
CellsInOrder ==
    ~Several(it) /\ OnSheet(it) =>
        \A n \in DOMAIN Enumeration(it) :
            CellsIndex(it, n) =
                LET p == Enumeration(it)[n] IN Plain(<<Area(p[1], p[2], p[1], p[2])>>)

\* Cut with a destination moves the cells and then cuts all the same; the
\* contents are at the destination or on the clipboard, and never lost.
NothingIsLost ==
    [][Cut /\ got' = "ok" =>
         \A p \in CellsOf(it) :
            \/ \E q \in SheetCells : cell'[q] = cell[p]
            \/ \E q \in DOMAIN app'.clip : app'.clip[q] = cell[p]]_vars

\* AutoFilter leaves no row hidden for which nobody can name a condition: what the
\* filter holds back is hidden, and when it is off or has no condition it holds
\* nothing, whatever order it was switched, queried and given conditions in, and
\* whatever rows the macro hid or showed between; but for the rows that "top"
\* without a criterion leaves behind (lost).
FilterIsTidy ==
    LET f == marks.filter
    IN  /\ f.held \subseteq lines.hiddenRows
        /\ ~f.on \/ f.fields = {} => f.held \subseteq f.lost

(***************************************************************************)
(* The invariant behind WrittenIsRead: what has been set is in the cells,  *)
(* rows and columns of every area that has it.                             *)
(***************************************************************************)
WrittenToCells(g, v) ==
    /\ wrote.kind = "value" =>
         \A p \in CellsOf(g) : Shown(cell[p]) = v \/ (v = "five" /\ cell[p].f = "logical")
    /\ wrote.kind = "formula" => \A p \in CellsOf(g) : cell[p].v = v
    /\ wrote.kind = "r1c1" /\ ~Several(g) => \A p \in CellsOf(g) : cell[p].v = v
    /\ wrote.kind = "format" => \A p \in CellsOf(g) : cell[p].f = v
    /\ wrote.kind = "wrap" => \A p \in CellsOf(g) : cell[p].wrap = v

WrittenToLines(g, v) ==
    /\ wrote.kind = "height" =>
         \A i \in Reached : \A r \in RowsOf(g.areas[i]) : lines.height[r] = v
    /\ wrote.kind = "width" =>
         \A i \in Reached : \A c \in ColsOf(g.areas[i]) : lines.width[c] = v
    /\ wrote.kind = "hidden" =>
         \A i \in DOMAIN g.areas :
           IF g.rows THEN \A r \in RowsOf(g.areas[i]) : v = (r \in lines.hiddenRows)
                     ELSE \A c \in ColsOf(g.areas[i]) : v = (c \in lines.hiddenCols)
    /\ wrote.kind = "break" =>
         /\ ~Several(g)
         /\ First(g).r1 # 0 => v = (First(g).r1 \in lines.breakRows)
         /\ First(g).r1 = 0 /\ First(g).c1 # 0 => v = (First(g).c1 \in lines.breakCols)

Written == WrittenToCells(wrote.range, wrote.value) /\ WrittenToLines(wrote.range, wrote.value)

\* The filter besides: its rows are on the sheet; switched off it has no condition;
\* and a row that it holds back the next query shows, or it is one of the lost ones.
FilterOK ==
    /\ FilterIsTidy
    /\ RowsOf(marks.filter.area) \subseteq SheetRows
    /\ ~marks.filter.on => marks.filter.fields = {}
    /\ marks.filter.held \ Body(marks.filter) \subseteq marks.filter.lost

\* The inductive invariant of a macro: whatever calls come after a setter, what it
\* has set is still there until a call says that it disturbs it (AreasVisitor and
\* the loops over areas in vbarange.cxx).
IInv == TypeOK /\ Written /\ FilterOK
=============================================================================
