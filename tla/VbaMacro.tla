------------------------------- MODULE VbaMacro -------------------------------
(***************************************************************************)
(* scratch/sc-vba: a macro that calls the objects of Calc's VBA support.   *)
(* It works on the format of a range, a chart, the documents, the window,  *)
(* the shapes or the controls of a sheet; no call of one of these touches  *)
(* the state of another, so that a macro keeps to one of them.             *)
(*                                                                         *)
(* What a macro relies on, whatever it calls before and after: what it has *)
(* set reads as it was set, and the contents of sheets are not lost but by *)
(* a call that does away with them.                                        *)
(***************************************************************************)
EXTENDS VbaCalls

CONSTANTS MaxDocs, MaxSheets    \* bounds: documents, and sheets of a document

ASSUME BooksAssumption == MaxDocs \in Nat /\ MaxDocs >= 2 /\ MaxSheets \in Nat

VARIABLES
    works,                                                          \* on what
    fmt, mixed, border, valid,                                      \* VbaFormat
    diagram, source, shows, titles, scales, axis, charts, object,   \* VbaChart
    docs, this, front, clip, files, delim, tossed, astray,          \* VbaBooks
    view, split, first, frame, office,                              \* VbaWindow
    shape, pen, brush, page, kinds, list, range,                    \* VbaShapes
    control, items, picks, index, names, sheet, comment             \* VbaControls

Format   == INSTANCE VbaFormat
Chart    == INSTANCE VbaChart
Books    == INSTANCE VbaBooks
Window   == INSTANCE VbaWindow
Shapes   == INSTANCE VbaShapes
Controls == INSTANCE VbaControls

formatVars  == <<fmt, mixed, border, valid>>
chartVars   == <<diagram, source, shows, titles, scales, axis, charts, object>>
bookVars    == <<docs, this, front, clip, files, delim, tossed, astray>>
windowVars  == <<view, split, first, frame, office>>
shapeVars   == <<shape, pen, brush, page, kinds, list, range>>
controlVars == <<control, items, picks, index, names, sheet, comment>>

vars == <<callVars, works, formatVars, chartVars, bookVars, windowVars, shapeVars,
          controlVars>>

Kinds == {"format", "chart", "books", "window", "shapes", "controls"}

\* What the macro does not work on starts in one way only.
Init ==
    /\ CallsInit
    /\ works \in Kinds
    /\ Format!FormatInit
    /\ Chart!ChartInit
    /\ Books!BooksInit
    /\ Window!WindowInit
    /\ Shapes!ShapesInit
    /\ Controls!ControlsInit
    /\ works # "format" => mixed = {}
    /\ works # "chart" => charts = {Chart!Own}
    /\ works # "books" => this = 1 /\ front = 1 /\ ~docs[1].readonly
    /\ works # "shapes" => kinds.rest.kind = "line"
    /\ works # "controls" => index = 0

FormatStep ==
    /\ works = "format"
    /\ Format!FormatCall
    /\ UNCHANGED <<works, chartVars, bookVars, windowVars,
                   shapeVars, controlVars>>
ChartStep ==
    /\ works = "chart"
    /\ Chart!ChartCall
    /\ UNCHANGED <<works, formatVars, bookVars, windowVars,
                   shapeVars, controlVars>>
BooksStep ==
    /\ works = "books"
    /\ Books!BooksCall
    /\ UNCHANGED <<works, formatVars, chartVars, windowVars,
                   shapeVars, controlVars>>
WindowStep ==
    /\ works = "window"
    /\ Window!WindowCall
    /\ UNCHANGED <<works, formatVars, chartVars, bookVars,
                   shapeVars, controlVars>>
ShapesStep ==
    /\ works = "shapes"
    /\ Shapes!ShapesCall
    /\ UNCHANGED <<works, formatVars, chartVars, bookVars,
                   windowVars, controlVars>>
ControlsStep ==
    /\ works = "controls"
    /\ Controls!ControlsCall
    /\ UNCHANGED <<works, formatVars, chartVars, bookVars,
                   windowVars, shapeVars>>

Next == FormatStep \/ ChartStep \/ BooksStep \/ WindowStep \/ ShapesStep \/ ControlsStep

Spec == Init /\ [][Next]_vars

(***************************************************************************)
(* Properties.                                                             *)
(***************************************************************************)

\* What reads the attribute of an observation, and whether it is one of those
\* that are known not to read as they were set.
ReadsOf(what) ==
    CASE works = "format"   -> Format!FormatRead(what)
      [] works = "chart"    -> Chart!ChartRead(what)
      [] works = "window"   -> Window!WindowRead(what)
      [] works = "shapes"   -> Shapes!ShapesRead(what)
      [] works = "controls" -> Controls!ControlsRead(what)
LosesIt(a) ==
    CASE works = "format"   -> Format!FormatLoses(a)
      [] works = "chart"    -> Chart!ChartLoses(a)
      [] works = "window"   -> Window!WindowLoses(a)
      [] works = "shapes"   -> Shapes!ShapesLoses(a)
      [] works = "controls" -> Controls!ControlsLoses(a)

\* What a macro has set reads as it was set, whatever was called between and whichever
\* calls threw: the setters and getters of scratch/sc-vba translate it back and forth,
\* several into the same property of the document.  The exceptions are values that do
\* not come back, which LosesIt names, and calls that change more than they are called
\* for, which are marked WroteAtCost, Clobbers or Spoils where they are and forget what
\* they name.  A call that ignores its argument, or throws before it writes, has set
\* nothing; every call leaves every attribute that it does not name as it was.
SetIsRead == \A a \in asked : LosesIt(a) \/ ReadsOf(a.what) = a.value

\* The contents of every sheet and every file are in an open document or a file, if
\* the macro has not done away with them (Delete, Close without saving, saving over
\* a file), through Move and Copy by way of the clipboard, loads that fail and
\* documents that do not close; what is lost otherwise is lost where "astray" says.
NothingIsLost == Books!Contents \subseteq Books!Kept \cup tossed \cup astray

\* What SetIsRead rests on: each object's properties are such as its setters leave
\* them, and what a macro has set is of the objects it works on, of the axis it has, of
\* a name that is defined, of a shape that there is.
ObjectsOK ==
    /\ works \in Kinds
    /\ works = "format"   => Format!FormatOK /\ Format!FormatAsked
    /\ works = "chart"    => Chart!ChartOK /\ Chart!ChartAsked
    /\ works = "books"    => asked = {}
    /\ works = "window"   => Window!WindowOK /\ Window!WindowAsked
    /\ works = "shapes"   => Shapes!ShapesOK /\ Shapes!ShapesAsked
    /\ works = "controls" => Controls!ControlsOK /\ Controls!ControlsAsked

\* The inductive invariant behind NothingIsLost: the documents, sheets and files of
\* vbaworkbook.cxx and vbaworksheet.cxx are what its calls take them for, the active
\* sheet exists, and so does the document that stands for the current one.
IInv == Books!BooksOK /\ NothingIsLost
=============================================================================
