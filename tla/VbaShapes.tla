------------------------------ MODULE VbaShapes -------------------------------
(***************************************************************************)
(* scratch/sc-vba: the shapes of a sheet and one of them, with its line    *)
(* and its fill, as a macro sees them: vbashapes.cxx, vbashaperange.cxx,   *)
(* vbashape.cxx, vbalineformat.cxx, vbafillformat.cxx, vbacolorformat.cxx, *)
(* vbapictureformat.cxx and vbatextframe.cxx.                              *)
(*                                                                         *)
(* Lengths are kept in hundredths of a millimetre and given in points.     *)
(* The objects for the line and the fill remember things of their own; a   *)
(* macro keeps them, as With does, or asks for new ones.                   *)
(***************************************************************************)
EXTENDS VbaCalls

VARIABLES
    shape,      \* properties of the shape "box"
    pen,        \* the LineFormat the macro has
    brush,      \* the FillFormat the macro has
    page,       \* the shapes of the sheet, from the back to the front
    kinds,      \* what they are, and their names
    list,       \* the Shapes object the macro has: its shapes, the number it has named
    range       \* the ShapeRange the macro has

shapeVars == <<shape, pen, brush, page, kinds, list, range>>

Margins == {"marginBottom", "marginTop", "marginLeft", "marginRight"}
Lengths == {"left", "top", "width", "height"}

NewPen   == [dash |-> "solid", weight |-> 10]
NewBrush == [style |-> "solid", angle |-> 0, color |-> "none", back |-> "black"]

ShapesInit ==
    /\ shape = [at |-> [l \in Lengths \cup Margins |-> 1411], angle |-> 0, grow |-> "off",
                luminance |-> 0, contrast |-> 0,
                lineStyle |-> "solid", dash |-> "dash", weight |-> 0, lineColor |-> "black",
                lineClear |-> 0, arrow |-> "msArrowEnd 5",
                fillStyle |-> "solid", fillColor |-> "white", fillClear |-> 0,
                gradient |-> [start |-> "black", end |-> "white", angle |-> 0]]
    /\ pen = NewPen
    /\ brush = NewBrush
    /\ page = <<"box", "rest">>
    /\ \E kind \in {"line", "oval"} :
          kinds = [box |-> [kind |-> "rectangle", name |-> "box"],
                   rest |-> [kind |-> kind, name |-> "rest"]]
    /\ list = [shapes |-> page, named |-> 0]
    /\ range = <<>>

PutShape(s) == shape' = s /\ UNCHANGED <<pen, brush, page, kinds, list, range>>
PutPage(p)  == page' = p /\ UNCHANGED <<shape, pen, brush, kinds, list, range>>

(***************************************************************************)
(* Lengths                                                                 *)
(***************************************************************************)

\* Millimeter, with a macro's lengths in hundredths of a point: what is below a
\* hundredth of a millimetre is cut off on the way in.
Cut(n, d)     == IF n >= 0 THEN n \div d ELSE -((-n) \div d)
Hundredths(p) == Cut(p * 17639, 50000)
Points(h)     == (h * 50000) \div 17639

SetLength(l, p) == PutShape([shape EXCEPT !.at[l] = Hundredths(p)]) /\ Wrote(l, p)
GetLength(l) == Points(shape.at[l])

\* TextFrame: so are the margins of the text.
SetMargin(m, p) == SetLength(m, p)
GetMargin(m)    == GetLength(m)
SetAutoSize(b) == PutShape([shape EXCEPT !.grow = b]) /\ Wrote("autoSize", b)
GetAutoSize    == shape.grow

\* IncrementLeft, IncrementTop.
Moved(h, d) == Cut(h * 50000 + d * 17639, 50000)

Increment(l, d) ==
    /\ PutShape([shape EXCEPT !.at[l] = Moved(@, d)])
    /\ Wrote(l, GetLength(l) + d)

\* ScaleHeight, ScaleWidth, to the double: the side that is not to move is the first,
\* the last, or none.  Through floating-point numbers a hundredth may get lost.
Scale(l, start, from) ==
    LET h == shape.at[l] IN
    \/ /\ from \in {"topLeft", "bottomRight", "middle"}
       /\ \E size \in {2 * h, 2 * h - 1} :
             PutShape([shape EXCEPT
                         !.at[l]     = size,
                         !.at[start] = @ - CASE from = "topLeft" -> 0
                                             [] from = "bottomRight" -> h
                                             [] from = "middle" -> h \div 2])
       /\ WroteOver(l, 2 * GetLength(l), IF from = "topLeft" THEN {} ELSE {start})
    \/ from = "other" /\ UNCHANGED shapeVars /\ Throws

(***************************************************************************)
(* Shape                                                                   *)
(***************************************************************************)

\* In hundredths of a degree, of which only whole degrees are read.
SetRotation(a) == PutShape([shape EXCEPT !.angle = a]) /\ Wrote("rotation", a)
GetRotation    == (shape.angle \div 100) * 100
IncrementRotation(d) == SetRotation(GetRotation + d)

\* Visible is not implemented.
SetVisible(b) == UNCHANGED shapeVars /\ Wrote("visible", b)
GetVisible    == "on"

Position(id) == CHOOSE i \in DOMAIN page : page[i] = id
On(id)       == id \in {page[i] : i \in DOMAIN page}
Off(id)      == Dropping(page, {id})
At(id, i)    == SubSeq(Off(id), 1, i - 1) \o <<id>> \o SubSeq(Off(id), i, Len(page) - 1)

\* The document takes what is beyond the front for the front.
ZOrder(cmd) ==
    LET old == Position("box")
        new == CASE cmd = "front"    -> Len(page)
                 [] cmd = "back"     -> 1
                 [] cmd = "forward"  -> IF old = Len(page) THEN old ELSE old + 1
                 [] cmd = "backward" -> IF old = 1 THEN old ELSE old - 1
    IN  On("box") /\ PutPage(At("box", new)) /\ Wrote("position", new)
ZOrderRefused    == UNCHANGED shapeVars /\ Throws
GetZOrderPosition == Position("box")

\* PictureFormat: of 100, kept as a number from -100 to 100; 28, 57 and 58 are a little
\* less as floating-point numbers and are kept one lower, half of which is read.
Luminance(n) == 2 * n - 100 - IF n \in {28, 57, 58} THEN 1 ELSE 0
OfHundred(l) == (l + 101) \div 2

SetBrightness(n) ==
    \/ n \in 0..100 /\ PutShape([shape EXCEPT !.luminance = Luminance(n)])
       /\ Wrote("brightness", n)
    \/ n \notin 0..100 /\ UNCHANGED shapeVars /\ Throws
GetBrightness == OfHundred(shape.luminance)
SetContrast(n) ==
    \/ n \in 0..100 /\ PutShape([shape EXCEPT !.contrast = Luminance(n)])
       /\ Wrote("contrast", n)
    \/ n \notin 0..100 /\ UNCHANGED shapeVars /\ Throws
GetContrast == OfHundred(shape.contrast)

\* The brightness is kept in its range; of the contrast the increment is, too late.
Within(n) == IF n < 0 THEN 0 ELSE IF n > 100 THEN 100 ELSE n
IncrementBrightness(d) == SetBrightness(Within(GetBrightness + d))
IncrementContrast(d)   == SetContrast(GetContrast + d)

(***************************************************************************)
(* Line                                                                    *)
(***************************************************************************)
NewLine == /\ pen' = NewPen
           /\ UNCHANGED <<shape, brush, page, kinds, list, range>>
           /\ Answers

Arrows == [none |-> "", stealth |-> "Arrow concave", open |-> "Line Arrow",
           oval |-> "Circle", diamond |-> "Square 45", triangle |-> "Arrow"]

\* Imported arrows have a number behind their names, and are not known by it.
SetArrow(v) ==
    \/ /\ v \in DOMAIN Arrows
       /\ PutShape([shape EXCEPT !.arrow = Arrows[v]])
       /\ Wrote("arrow", v)
    \/ v = "other" /\ UNCHANGED shapeVars /\ Throws
GetArrow ==
    IF \E v \in DOMAIN Arrows : Arrows[v] = shape.arrow
    THEN CHOOSE v \in DOMAIN Arrows : Arrows[v] = shape.arrow ELSE "none"

\* EndArrowheadStyle is ignored; Style is always single; lengths and widths of
\* arrowheads are refused.
IgnoredByLine(what, v) == UNCHANGED shapeVars /\ Wrote(what, v)
GetEndArrow  == "none"
GetLineStyle == "single"
LineRefused  == UNCHANGED shapeVars /\ Throws

\* setDashStyle: round dots are square; what is not supported has been remembered,
\* and the line dashed, when that is found.
Dashes == {"dash", "longDash", "dashDot", "longDashDot", "dashDotDot", "squareDot"}
Dashed(s, v) ==
    IF v = "solid" THEN [s EXCEPT !.lineStyle = "solid"]
    ELSE [s EXCEPT !.lineStyle = "dash",
                   !.dash = IF v = "roundDot" THEN "squareDot"
                            ELSE IF v \in Dashes THEN v ELSE @]

\* getDashStyle: of a line that is not shown, its dashes.
DashOf(s) == IF s.lineStyle = "solid" THEN "solid" ELSE s.dash

PutLine(s, dash, weight) ==
    /\ shape' = s
    /\ pen' = [dash |-> dash, weight |-> weight]
    /\ UNCHANGED <<brush, page, kinds, list, range>>

SetDashStyle(v) ==
    /\ PutLine(Dashed(shape, v), v, pen.weight)
    /\ IF v = "other" THEN Spoils({"line.dash", "line.visible"})
       ELSE WroteAtCost("line.dash", v, {"line.visible"})

\* What is read is remembered.
GetDashStyle  == DashOf(shape)
ReadDashStyle == PutLine(shape, GetDashStyle, pen.weight) /\ Answers

\* In tenths of a point.  The dashes are set to those the object remembers, so that a
\* new object makes the line solid.
SetWeight(n) ==
    LET w == IF n = 0 THEN 5 ELSE n
        s == Dashed([shape EXCEPT !.weight = (w * 35278) \div 10000], pen.dash)
    IN  \/ n < 0 /\ UNCHANGED shapeVars /\ Throws
        \/ /\ n >= 0
           /\ PutLine(s, pen.dash, w)
           /\ IF pen.dash = "other" THEN Spoils({"line.weight", "line.visible", "line.dash"})
              ELSE WroteAtCost("line.weight", n,
                             (IF DashOf(s) = GetDashStyle THEN {} ELSE {"line.dash"})
                             \cup {"line.visible"})
GetWeight == (shape.weight * 10000 + 17639) \div 35278

SetLineVisible(b) ==
    LET shown == b = "on" /\ shape.lineStyle = "none"
    IN  /\ PutShape(IF b = "off" THEN [shape EXCEPT !.lineStyle = "none"]
                    ELSE IF shown THEN Dashed(shape, pen.dash) ELSE shape)
        /\ IF shown /\ pen.dash = "other" THEN Spoils({"line.visible", "line.dash"})
           ELSE WroteAtCost("line.visible", b,
                          IF b = "off" \/ shown THEN {"line.dash"} ELSE {})
GetLineVisible == IF shape.lineStyle = "none" THEN "off" ELSE "on"

\* Transparency, of 100: 29 hundredths are a little less as a floating-point number.
Percent(n) == IF n \in {29, 57, 58} THEN n - 1 ELSE n
SetLineTransparency(n) ==
    PutShape([shape EXCEPT !.lineClear = Percent(n)]) /\ Wrote("line.clear", n)
GetLineTransparency == shape.lineClear

\* ColorFormat: a macro's colours have red and blue swapped.
Colors  == {"red", "blue", "black", "white"}
Swap(c) == CASE c = "red" -> "blue" [] c = "blue" -> "red" [] OTHER -> c

\* BackColor of a line is ignored, and black.
SetLineColor(c) ==
    PutShape([shape EXCEPT !.lineColor = Swap(c)]) /\ Wrote("line.fore", c)
GetLineColor     == Swap(shape.lineColor)
GetLineBackColor == "black"

(***************************************************************************)
(* Fill                                                                    *)
(***************************************************************************)
NewFill == /\ brush' = NewBrush
           /\ UNCHANGED <<shape, pen, page, kinds, list, range>>
           /\ Answers

\* ForeColor, BackColor: one object is both, that which is asked for first.
ColorAsked(b, which) == IF b.color = "none" THEN which ELSE b.color
RGB(s, b)            == IF b.color = "fore" THEN Swap(s.fillColor) ELSE Swap(b.back)

\* setFillStyle: a gradient goes from the colour of that object to the same, and takes
\* the macro's colours for the document's.
PutFill(s, style, b) ==
    LET c == [b EXCEPT !.style = style,
                       !.color = IF style = "solid" THEN @ ELSE ColorAsked(b, "fore")]
    IN  /\ brush' = c
        /\ shape' = [s EXCEPT
                       !.fillStyle = style,
                       !.gradient  = IF style = "solid" THEN @
                                     ELSE [start |-> RGB(s, c), end |-> RGB(s, c),
                                           angle |-> c.angle]]
        /\ UNCHANGED <<pen, page, kinds, list, range>>

\* Setting either colour fills the shape.
PutFillColor(which, c) ==
    LET kind == ColorAsked(brush, which) IN
    IF kind = "fore"
    THEN PutFill([shape EXCEPT !.fillColor = Swap(c)], brush.style,
                 [brush EXCEPT !.color = kind])
    ELSE PutFill(shape, brush.style, [brush EXCEPT !.color = kind, !.back = Swap(c)])

\* What is written is read as ForeColor if that was asked for first, also what a macro
\* sets as BackColor then; the other way round a new object reads neither.
SetFillColor(which, c) ==
    /\ PutFillColor(which, c)
    /\ IF ColorAsked(brush, which) = "fore"
       THEN WroteAtCost("fill.fore", c, {"fill.visible", "fill.scheme"})
       ELSE Clobbers({"fill.visible"})

\* SchemeColor, of 56: the first that is such a colour, or the last.
Scheme == <<"black", "red", "blue", "red", "white">>
SetSchemeColor(i) ==
    /\ PutFillColor("fore", Scheme[i])
    /\ IF ColorAsked(brush, "fore") = "fore"
       THEN WroteAtCost("fill.scheme", i, {"fill.visible", "fill.fore"})
       ELSE Clobbers({"fill.visible"})
GetSchemeColor ==
    CHOOSE i \in DOMAIN Scheme :
        /\ Scheme[i] = Swap(shape.fillColor) \/ i = Len(Scheme)
        /\ \A k \in 1 .. i - 1 : Scheme[k] # Swap(shape.fillColor)

\* As a new object reads it.
GetForeColor == Swap(shape.fillColor)

SetFillVisible(b) ==
    /\ IF b = "on" /\ shape.fillStyle = "none" THEN PutFill(shape, brush.style, brush)
       ELSE PutShape(IF b = "off" THEN [shape EXCEPT !.fillStyle = "none"] ELSE shape)
    /\ Wrote("fill.visible", b)
GetFillVisible == IF shape.fillStyle = "none" THEN "off" ELSE "on"

SetFillTransparency(n) ==
    PutShape([shape EXCEPT !.fillClear = Percent(n)]) /\ Wrote("fill.clear", n)
GetFillTransparency == shape.fillClear

Solid == PutFill(shape, "solid", brush) /\ Changes({"fill.visible"})
Angles == [horizontal |-> 0, vertical |-> 900, diagonalDown |-> 450, diagonalUp |-> 1350]
TwoColorGradient(style) ==
    \/ /\ style \in DOMAIN Angles
       /\ PutFill(shape, "gradient", [brush EXCEPT !.angle = Angles[style]])
       /\ Changes({"fill.visible"})
    \/ style = "other" /\ UNCHANGED shapeVars /\ Answers

(***************************************************************************)
(* Shapes: those of the sheet when the object was made.                    *)
(***************************************************************************)
NewShapes == /\ list' = [shapes |-> page, named |-> 0]
             /\ UNCHANGED <<shape, pen, brush, page, kinds, range>>
             /\ Answers

\* A rectangle, an oval or a line is on the sheet before its properties are set, which
\* the document may refuse; an oval is of no known type, which is found last.
Add(id, kind) ==
    LET name == [kind |-> kind, number |-> list.named + 1] IN
    /\ id \notin DOMAIN kinds
    /\ page' = Append(page, id)
    /\ list' = [list EXCEPT !.named = @ + 1]
    /\ UNCHANGED <<shape, pen, brush, range>>
    /\ \/ /\ kinds' = [k \in DOMAIN kinds \cup {id} |->
                         IF k = id THEN [kind |-> kind, name |-> ""] ELSE kinds[k]]
          /\ Throws
       \/ /\ kinds' = [k \in DOMAIN kinds \cup {id} |->
                         IF k = id THEN [kind |-> kind, name |-> name] ELSE kinds[k]]
          /\ IF kind = "oval" THEN Throws ELSE Wrote(id, "on")

\* AddShape: a rectangle or an oval, or nothing.
AddOther == UNCHANGED shapeVars /\ Answers

Known(id) == kinds[id].kind # "oval"
Listed(s) == {s[i] : i \in DOMAIN s}

\* Item, and Delete: of the sheet; what is not there any more is not removed.
DeleteShape(id) ==
    \/ (id \notin Listed(list.shapes) \/ ~Known(id)) /\ UNCHANGED shapeVars /\ Throws
    \/ /\ id \in Listed(list.shapes) /\ Known(id)
       /\ PutPage(Off(id))
       /\ WroteOver(id, "off", {"position"})

MakeRange(ids) ==
    \/ Listed(ids) \subseteq Listed(list.shapes)
       /\ range' = ids
       /\ UNCHANGED <<shape, pen, brush, page, kinds, list>> /\ Answers
    \/ ~(Listed(ids) \subseteq Listed(list.shapes)) /\ UNCHANGED shapeVars /\ Throws

\* IncrementLeft, IncrementTop and IncrementRotation of the range, one shape after the
\* other until one is of no known type; the one moved here is "box".
IncrementRange(l, d) ==
    LET s     == range
        moved == \E i \in DOMAIN s : s[i] = "box" /\ \A k \in 1..i : Known(s[k])
        fails == \E i \in DOMAIN s : ~Known(s[i])
    IN  \/ moved /\ ~fails /\ Increment(l, d)
        \/ /\ moved /\ fails
           /\ PutShape([shape EXCEPT !.at[l] = Moved(@, d)])
           /\ Spoils({l})
        \/ ~moved /\ fails /\ UNCHANGED shapeVars /\ Throws
        \/ ~moved /\ ~fails /\ UNCHANGED shapeVars /\ Answers

\* Group: one shape in the place of the others, once here.  A group, and a shape of a
\* range, is deleted from the range's own collection: it stays on the sheet.
Group ==
    \/ /\ range # <<>> /\ ~On("group")
       /\ Listed(range) \subseteq Listed(page)
       /\ page' = Dropping(page, Listed(range)) \o <<"group">>
       /\ kinds' = [k \in DOMAIN kinds \cup {"group"} |->
                      IF k = "group" THEN [kind |-> "group", name |-> ""] ELSE kinds[k]]
       /\ UNCHANGED <<shape, pen, brush, list, range>>
       /\ Changes({"position"} \cup Listed(range))
    \/ /\ ~(Listed(range) \subseteq Listed(page)) \/ range = <<>>
       /\ UNCHANGED shapeVars /\ Throws
DeleteOfRange == range # <<>> /\ UNCHANGED shapeVars /\ Answers

(***************************************************************************)
(* The calls.                                                              *)
(***************************************************************************)
SetsShape ==
    \/ \E l \in Lengths : SetLength(l, 1000)
    \/ \E m \in Margins : SetMargin(m, 1000)
    \/ \E l \in {"left", "top"} : Increment(l, 500) \/ Increment(l, -500) \/ IncrementRange(l, 500)
    \/ \E from \in {"topLeft", "bottomRight", "middle", "other"} :
          Scale("height", "top", from) \/ Scale("width", "left", from)
    \/ \E a \in {4550, 9000} : SetRotation(a)
    \/ IncrementRotation(50)
    \/ \E cmd \in {"front", "back", "forward", "backward"} : ZOrder(cmd)
    \/ ZOrderRefused
    \/ \E b \in OnOff : SetVisible(b) \/ SetAutoSize(b)
    \/ \E n \in {40, 58, 101} : SetBrightness(n) \/ SetContrast(n)
    \/ \E d \in {-60, 60} : IncrementBrightness(d) \/ IncrementContrast(d)

SetsLine ==
    \/ NewLine \/ LineRefused \/ ReadDashStyle
    \/ \E v \in DOMAIN Arrows \cup {"other"} : SetArrow(v)
    \/ IgnoredByLine("endArrow", "open") \/ IgnoredByLine("lineStyle", "double")
    \/ IgnoredByLine("line.back", "red")
    \/ \E v \in Dashes \cup {"solid", "roundDot", "other"} : SetDashStyle(v)
    \/ \E n \in {-1, 0, 20} : SetWeight(n)
    \/ \E b \in OnOff : SetLineVisible(b)
    \/ \E n \in {29, 50} : SetLineTransparency(n)
    \/ \E c \in {"red", "white"} : SetLineColor(c)

SetsFill ==
    \/ NewFill \/ Solid
    \/ \E which \in {"fore", "back"}, c \in {"red", "black"} : SetFillColor(which, c)
    \/ \E i \in DOMAIN Scheme : SetSchemeColor(i)
    \/ \E b \in OnOff : SetFillVisible(b)
    \/ \E n \in {29, 50} : SetFillTransparency(n)
    \/ \E v \in DOMAIN Angles \cup {"other"} : TwoColorGradient(v)

SetsShapes ==
    \/ NewShapes \/ AddOther \/ Group \/ DeleteOfRange
    \/ \E id \in {"new", "newer"}, kind \in {"rectangle", "oval", "line"} : Add(id, kind)
    \/ \E id \in DOMAIN kinds \ {"group"} : DeleteShape(id)
    \/ \E ids \in {<<"box">>, <<"box", "rest">>, <<"rest", "box">>, <<"new">>} : MakeRange(ids)

ShapesRead(what) ==
    CASE what \in Lengths -> GetLength(what)
      [] what \in Margins -> GetMargin(what)
      [] what = "rotation"     -> GetRotation
      [] what = "visible"      -> GetVisible
      [] what = "position"     -> GetZOrderPosition
      [] what = "autoSize"     -> GetAutoSize
      [] what = "brightness"   -> GetBrightness
      [] what = "contrast"     -> GetContrast
      [] what = "arrow"        -> GetArrow
      [] what = "endArrow"     -> GetEndArrow
      [] what = "lineStyle"    -> GetLineStyle
      [] what = "line.dash"    -> GetDashStyle
      [] what = "line.weight"  -> GetWeight
      [] what = "line.visible" -> GetLineVisible
      [] what = "line.clear"   -> GetLineTransparency
      [] what = "line.fore"    -> GetLineColor
      [] what = "line.back"    -> GetLineBackColor
      [] what = "fill.fore"    -> GetForeColor
      [] what = "fill.scheme"  -> GetSchemeColor
      [] what = "fill.visible" -> GetFillVisible
      [] what = "fill.clear"   -> GetFillTransparency
      [] OTHER -> IF On(what) THEN "on" ELSE "off"

\* What does not come back: up to 3 hundredths of a point, parts of a degree, what is
\* not implemented, round dots, a line that is to be invisibly thin, a colour that is
\* twice in the scheme, and fractions just below a number.
ShapesLoses(a) ==
    \/ a.what \in Lengths \cup Margins /\ a.value - GetLength(a.what) \in -3..3
    \/ a.what = "rotation" /\ a.value % 100 # 0
    \/ a.what = "visible" /\ a.value = "off"
    \/ a.what \in {"endArrow", "lineStyle", "line.back"}
    \/ a.what = "line.dash" /\ a.value = "roundDot"
    \/ a.what = "line.weight" /\ a.value = 0
    \/ a.what = "fill.scheme" /\ \E k \in 1 .. a.value - 1 : Scheme[k] = Scheme[a.value]
    \/ a.what \in {"line.clear", "fill.clear"} /\ Percent(a.value) # a.value

ShapesCall == Ready /\ (SetsShape \/ SetsLine \/ SetsFill \/ SetsShapes)

(***************************************************************************)
(* What SetIsRead rests on.                                                *)
(***************************************************************************)
ShapesWhats ==
    Lengths \cup Margins \cup
    {"rotation", "visible", "position", "autoSize", "brightness", "contrast", "arrow",
     "endArrow", "lineStyle", "line.dash", "line.weight", "line.visible", "line.clear",
     "line.fore", "line.back", "fill.fore", "fill.scheme", "fill.visible", "fill.clear"}

\* A shape is once on the sheet, and of some kind.
ShapesOK ==
    /\ DOMAIN shape = {"at", "angle", "grow", "luminance", "contrast", "lineStyle", "dash",
                       "weight", "lineColor", "lineClear", "arrow", "fillStyle",
                       "fillColor", "fillClear", "gradient"}
    /\ shape.at \in [Lengths \cup Margins -> Int] /\ shape.angle \in Int
    /\ shape.luminance \in Int /\ shape.contrast \in Int
    /\ shape.lineStyle \in {"none", "solid", "dash"}
    /\ DOMAIN pen = {"dash", "weight"}
    /\ DOMAIN brush = {"style", "angle", "color", "back"}
    /\ brush.style \in {"solid", "gradient"} /\ brush.color \in {"none", "fore", "back"}
    /\ page \in Seq(DOMAIN kinds)
    /\ \A i, k \in DOMAIN page : page[i] = page[k] => i = k
    /\ DOMAIN kinds \subseteq {"box", "rest", "new", "newer", "group"}

\* What has a position is on the sheet.
ShapesAsked ==
    \A a \in asked : /\ a.what \in ShapesWhats \cup (DOMAIN kinds \ {"group"})
                     /\ a.what = "position" => On("box")
=============================================================================
