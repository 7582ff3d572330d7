------------------------------ MODULE VbaWindow -------------------------------
(***************************************************************************)
(* scratch/sc-vba: the window of a document and the application as a macro *)
(* sees them: vbawindow.cxx, vbapane.cxx and vbaapplication.cxx.           *)
(***************************************************************************)
EXTENDS VbaCalls

VARIABLES
    view,       \* properties of the controller and of its frame
    split,      \* how the window is split, and where
    first,      \* the first row and column that the active pane shows
    frame,      \* the window on the desktop
    office      \* what belongs to the application, and locks of the document

windowVars == <<view, split, first, frame, office>>

Rect  == {"left", "top", "width", "height"}
Views == {"gridlines", "headings", "horizontalBar", "outline", "verticalBar", "tabs"}

\* What a pane shows, and what a sheet has.
PageRows    == 20
PageColumns == 10
MaxRow      == 65536
MaxColumn   == 256

WindowInit ==
    /\ view = [v \in Views |-> "on"]
    /\ split = [mode |-> "none", column |-> 0, row |-> 0]
    /\ first = [row |-> 0, column |-> 0]
    /\ frame = [title |-> "book", suffix |-> TRUE, state |-> "normal", visible |-> "on",
                breaks |-> FALSE, zoom |-> "width",
                rect |-> [left |-> 0, top |-> 0, width |-> 800, height |-> 600]]
    /\ office = [locks |-> 0, bar |-> "on", text |-> "", automatic |-> "on",
                 pointer |-> "default", path |-> "home", formulaBar |-> "on",
                 shown |-> "on"]

PutView(v)   == view'   = v /\ UNCHANGED <<split, first, frame, office>>
PutSplit(s)  == split'  = s /\ UNCHANGED <<view, first, frame, office>>
PutFirst(f)  == first'  = f /\ UNCHANGED <<view, split, frame, office>>
PutFrame(f)  == frame'  = f /\ UNCHANGED <<view, split, first, office>>
PutOffice(o) == office' = o /\ UNCHANGED <<view, split, first, frame>>

(***************************************************************************)
(* vbawindow.cxx                                                           *)
(***************************************************************************)
SetDisplay(v, b) == PutView([view EXCEPT ![v] = b]) /\ Wrote(v, b)
GetDisplay(v)    == view[v]

\* setCaption, getCaption: the name of the program is cut off, and to the name of
\* the document its extension is added again.
SetCaption(title, suffix) ==
    PutFrame([frame EXCEPT !.title = title, !.suffix = suffix]) /\ Wrote("caption", title)
GetCaption == IF frame.suffix /\ frame.title = "book" THEN "book.ods" ELSE frame.title

SetWindowState(v) ==
    \/ /\ v \in {"maximized", "minimized", "normal"}
       /\ PutFrame([frame EXCEPT !.state = v])
       /\ Wrote("windowState", v)
    \/ v = "other" /\ UNCHANGED windowVars /\ Throws
GetWindowState == frame.state

SetVisible(b) == PutFrame([frame EXCEPT !.visible = b]) /\ Wrote("visible", b)
GetVisible    == frame.visible

\* Left, Top, Width and Height, one at a time.
SetPosSize(p, n) == PutFrame([frame EXCEPT !.rect[p] = n]) /\ Wrote(p, n)
GetPosSize(p)    == frame.rect[p]

\* A boolean, of either value, fits the page.
SetZoom(v) ==
    PutFrame([frame EXCEPT !.zoom = IF v \in OnOff THEN "width" ELSE v]) /\ Wrote("zoom", v)
GetZoom == IF frame.zoom = "width" THEN "on" ELSE frame.zoom

\* The view is always said to be the normal one.
SetView(v) ==
    \/ /\ v \in {"normal", "pageBreaks"}
       /\ PutFrame([frame EXCEPT !.breaks = v = "pageBreaks"])
       /\ Wrote("view", v)
    \/ v = "other" /\ UNCHANGED windowVars /\ Throws
GetView == "normal"

(***************************************************************************)
(* Splits: the document freezes at a column and a row, or splits at        *)
(* pixels, which are told apart here only by the columns they show.        *)
(***************************************************************************)
Splits == {"splitColumn", "splitRow", "split"}

At(mode, c, r) ==
    [mode |-> IF c = 0 /\ r = 0 THEN "none" ELSE mode, column |-> c, row |-> r]

SplitAt(c, r) == PutSplit(At("split", c, r))

\* SplitAtDefinedPosition: what was frozen at the position is split there; it is the
\* document's affair whether the panes stay frozen if it is not told to unfreeze.
SplitAtDefinedPosition(c, r, unfreeze) ==
    \E mode \in {"split"} \cup IF unfreeze THEN {} ELSE {"frozen"} : PutSplit(At(mode, c, r))

GetFreezePanes == IF split.mode = "frozen" THEN "on" ELSE "off"
GetSplit       == IF split.mode = "split" THEN "on" ELSE "off"

\* The argument is not looked at.
SetFreezePanes(b) ==
    /\ IF split.mode = "split"
       THEN PutSplit(At("frozen", split.column, split.row))
       ELSE PutSplit(At("frozen", first.column + (PageColumns - 1) \div 2,
                                  first.row + (PageRows - 1) \div 2))
    /\ WroteAtCost("freezePanes", b, Splits)

\* At the active cell, which may be the first.
SetSplit(b, column, row) ==
    /\ IF b = "off" THEN SplitAt(0, 0)
       ELSE SplitAtDefinedPosition(column - 1, row - 1, TRUE)
    /\ IF b = "on" /\ column = 1 /\ row = 1
       THEN Clobbers(Splits \cup {"freezePanes"})
       ELSE WroteOver("split", b, Splits \cup {"freezePanes"})

GetSplitColumn == split.column
GetSplitRow    == split.row

SetSplitColumn(n) ==
    IF n = GetSplitColumn THEN UNCHANGED windowVars /\ Wrote("splitColumn", n)
    ELSE /\ SplitAtDefinedPosition(n, split.row, split.mode # "frozen")
         /\ WroteOver("splitColumn", n, {"split", "freezePanes"})
SetSplitRow(n) ==
    IF n = GetSplitRow THEN UNCHANGED windowVars /\ Wrote("splitRow", n)
    ELSE /\ SplitAtDefinedPosition(split.column, n, split.mode # "frozen")
         /\ WroteOver("splitRow", n, {"split", "freezePanes"})

\* SplitHorizontal, SplitVertical: the other split goes.
SetSplitHorizontal(c) ==
    SplitAt(c, 0) /\ WroteAtCost("splitColumn", c, Splits \cup {"freezePanes"})
SetSplitVertical(r) ==
    SplitAt(0, r) /\ WroteAtCost("splitRow", r, Splits \cup {"freezePanes"})

(***************************************************************************)
(* Scrolling: the window clips at the first row, the pane refuses.         *)
(***************************************************************************)
AtLeast(n, low) == IF n < low THEN low ELSE n

SetScrollRow(n) ==
    PutFirst([first EXCEPT !.row = AtLeast(n - 1, 0)]) /\ Wrote("scrollRow", n)
SetScrollColumn(n) ==
    PutFirst([first EXCEPT !.column = AtLeast(n - 1, 0)]) /\ Wrote("scrollColumn", n)
GetScrollRow    == first.row + 1
GetScrollColumn == first.column + 1

SetPaneRow(n) ==
    \/ n < 1 /\ UNCHANGED windowVars /\ Throws
    \/ n >= 1 /\ SetScrollRow(n)
SetPaneColumn(n) ==
    \/ n < 1 /\ UNCHANGED windowVars /\ Throws
    \/ n >= 1 /\ SetScrollColumn(n)

Scrolled(rows, columns) ==
    [row |-> AtLeast(first.row + rows, 0), column |-> AtLeast(first.column + columns, 0)]
InSheet(f) == f.row < MaxRow /\ f.column < MaxColumn

SmallScroll(down, up, right, left) ==
    /\ InSheet(Scrolled(down - up, right - left))
    /\ PutFirst(Scrolled(down - up, right - left))
    /\ Changes({"scrollRow", "scrollColumn"})
LargeScroll(down, up, right, left) ==
    SmallScroll(down * PageRows, up * PageRows, right * PageColumns, left * PageColumns)

\* GoTo with Scroll: the range is selected, which may scroll the view to it; then by
\* the difference, each row as a number of 16 bits.
Int16(n) == ((n + 32768) % 65536) - 32768

GoTo(row) ==
    \E shown \in {first.row, row - 1} :
        LET to == AtLeast(shown + Int16(row - 1) - Int16(shown), 0)
        IN  /\ to < MaxRow
            /\ PutFirst([row |-> to, column |-> 0])
            /\ WroteOver("scrollRow", row, {"scrollColumn"})
GoToRefused == UNCHANGED windowVars /\ Throws

(***************************************************************************)
(* vbaapplication.cxx                                                      *)
(***************************************************************************)

\* The document counts how often it is locked: one call may not unlock it.
SetScreenUpdating(b) ==
    /\ PutOffice([office EXCEPT !.locks = IF b = "on" THEN AtLeast(@ - 1, 0) ELSE @ + 1])
    /\ IF b = "on" /\ office.locks > 1 THEN Clobbers({"screenUpdating"})
       ELSE Wrote("screenUpdating", b)
GetScreenUpdating == IF office.locks = 0 THEN "on" ELSE "off"

SetDisplayStatusBar(b) ==
    PutOffice([office EXCEPT !.bar = b]) /\ Wrote("statusBar", b)
GetDisplayStatusBar == office.bar

\* A text, or "off" to end it; "on" is ignored.
SetStatusBar(v) ==
    \/ /\ v # "on"
       /\ PutOffice([office EXCEPT !.bar = "on", !.text = IF v = "off" THEN "" ELSE v])
       /\ Clobbers({"statusBar"})
    \/ v = "on" /\ UNCHANGED windowVars /\ Answers
StatusBarRefused == UNCHANGED windowVars /\ Throws

SetCalculation(v) ==
    \/ /\ v \in {"automatic", "semiautomatic", "manual"}
       /\ PutOffice([office EXCEPT !.automatic = IF v = "manual" THEN "off" ELSE "on"])
       /\ WroteAtCost("calculation", v, {"enableCalculation"})
    \/ v = "other" /\ UNCHANGED windowVars /\ Answers
GetCalculation == IF office.automatic = "on" THEN "automatic" ELSE "manual"

\* Of a worksheet, and of the whole document all the same.
SetEnableCalculation(b) ==
    PutOffice([office EXCEPT !.automatic = b]) /\ WroteAtCost("enableCalculation", b, {"calculation"})
GetEnableCalculation == office.automatic

SetCursor(v) ==
    \/ /\ v \in {"arrow", "wait", "beam", "default"}
       /\ PutOffice([office EXCEPT !.pointer = v])
       /\ Wrote("cursor", v)
    \/ v = "other" /\ UNCHANGED windowVars /\ Throws
GetCursor == office.pointer

SetDefaultFilePath(p) == PutOffice([office EXCEPT !.path = p]) /\ Wrote("path", p)
GetDefaultFilePath    == office.path

\* The command toggles, and is sent when it is to change something.
SetDisplayFormulaBar(b) ==
    /\ IF b = office.formulaBar THEN UNCHANGED windowVars
       ELSE PutOffice([office EXCEPT !.formulaBar = IF @ = "on" THEN "off" ELSE "on"])
    /\ Wrote("formulaBar", b)
GetDisplayFormulaBar == office.formulaBar

\* DisplayAlerts and CutCopyMode do nothing.
Ignored(what, b) == UNCHANGED windowVars /\ Wrote(what, b)
GetDisplayAlerts == "on"
GetCutCopyMode   == "off"

(***************************************************************************)
(* The calls.                                                              *)
(***************************************************************************)
SetsWindow ==
    \/ \E v \in Views, b \in OnOff : SetDisplay(v, b)
    \/ \E title \in {"book", "mine"}, suffix \in BOOLEAN : SetCaption(title, suffix)
    \/ \E v \in {"maximized", "minimized", "normal", "other"} : SetWindowState(v)
    \/ \E v \in {"normal", "pageBreaks", "other"} : SetView(v)
    \/ \E v \in {"on", "off", "50"} : SetZoom(v)
    \/ \E b \in OnOff : SetVisible(b) \/ SetFreezePanes(b)
                        \/ \E n \in {1, 3} : SetSplit(b, n, n)
    \/ \E p \in Rect : SetPosSize(p, 100)
    \/ \E n \in {0, 4} : \/ SetSplitColumn(n) \/ SetSplitRow(n)
                         \/ SetSplitHorizontal(n) \/ SetSplitVertical(n)

Scrolls ==
    \/ \E n \in {1, 30} : SetScrollRow(n) \/ SetScrollColumn(n)
    \/ \E n \in {0, 30} : SetPaneRow(n) \/ SetPaneColumn(n)
    \/ \E down, up \in {0, 2} : \/ SmallScroll(down, up, up, down)
                               \/ LargeScroll(down, up, up, down)
    \/ \E row \in {1, 30, 40000} : GoTo(row)
    \/ GoToRefused

SetsApplication ==
    \/ \E b \in OnOff : \/ SetScreenUpdating(b) \/ SetDisplayStatusBar(b)
                        \/ SetEnableCalculation(b) \/ SetDisplayFormulaBar(b)
                        \/ Ignored("alerts", b) \/ Ignored("cutCopy", b)
    \/ \E v \in {"on", "off", "text"} : SetStatusBar(v)
    \/ StatusBarRefused
    \/ \E v \in {"automatic", "semiautomatic", "manual", "other"} : SetCalculation(v)
    \/ \E v \in {"arrow", "wait", "default", "other"} : SetCursor(v)
    \/ SetDefaultFilePath("work")

WindowRead(what) ==
    CASE what \in Views -> GetDisplay(what)
      [] what = "caption" -> GetCaption
      [] what = "windowState" -> GetWindowState
      [] what = "visible" -> GetVisible
      [] what \in Rect -> GetPosSize(what)
      [] what = "zoom" -> GetZoom
      [] what = "view" -> GetView
      [] what = "freezePanes" -> GetFreezePanes
      [] what = "split" -> GetSplit
      [] what = "splitColumn" -> GetSplitColumn
      [] what = "splitRow" -> GetSplitRow
      [] what = "scrollRow" -> GetScrollRow
      [] what = "scrollColumn" -> GetScrollColumn
      [] what = "screenUpdating" -> GetScreenUpdating
      [] what = "statusBar" -> GetDisplayStatusBar
      [] what = "calculation" -> GetCalculation
      [] what = "enableCalculation" -> GetEnableCalculation
      [] what = "cursor" -> GetCursor
      [] what = "path" -> GetDefaultFilePath
      [] what = "formulaBar" -> GetDisplayFormulaBar
      [] what = "alerts" -> GetDisplayAlerts
      [] what = "cutCopy" -> GetCutCopyMode

\* What does not come back: the document's name without its extension, a zoom that
\* is not wanted, page breaks, panes that are not to be frozen, rows that 16 bits do
\* not tell from negative ones, and what nothing is done with.
WindowLoses(a) ==
    \/ a.what = "caption" /\ a.value = "book"
    \/ a.what = "zoom" /\ a.value = "off"
    \/ a.what = "view" /\ a.value = "pageBreaks"
    \/ a.what = "freezePanes" /\ a.value = "off"
    \/ a.what = "scrollRow" /\ a.value > 32768
    \/ a.what = "calculation" /\ a.value = "semiautomatic"
    \/ a.what = "alerts" /\ a.value = "off"
    \/ a.what = "cutCopy" /\ a.value = "on"

WindowCall == Ready /\ (SetsWindow \/ Scrolls \/ SetsApplication)

(***************************************************************************)
(* What SetIsRead rests on.                                                *)
(***************************************************************************)
WindowWhats ==
    Views \cup Rect \cup Splits \cup
    {"caption", "windowState", "visible", "zoom", "view", "freezePanes", "scrollRow",
     "scrollColumn", "screenUpdating", "statusBar", "calculation", "enableCalculation",
     "cursor", "path", "formulaBar", "alerts", "cutCopy"}

\* The window is split somewhere, and shows rows and columns that the sheet has.
WindowOK ==
    /\ view \in [Views -> OnOff]
    /\ split \in [mode : {"none", "split", "frozen"}, column : Nat, row : Nat]
    /\ split.mode # "none" => split.column # 0 \/ split.row # 0
    /\ first \in [row : Nat, column : Nat] /\ InSheet(first)
    /\ frame \in [title : {"book", "mine"}, suffix : BOOLEAN,
                  state : {"maximized", "minimized", "normal"}, visible : OnOff,
                  breaks : BOOLEAN, zoom : {"width", "50"}, rect : [Rect -> Int]]
    /\ DOMAIN office = {"locks", "bar", "text", "automatic", "pointer", "path",
                        "formulaBar", "shown"}
    /\ office.locks \in Nat /\ office.formulaBar \in OnOff
WindowAsked == \A a \in asked : a.what \in WindowWhats
=============================================================================
