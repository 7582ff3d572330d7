------------------------------ MODULE VbaChart -------------------------------
(***************************************************************************)
(* scratch/sc-vba: charts as a macro sees them: vbachart.cxx, vbaaxis.cxx, *)
(* vbaaxes.cxx, vbatitle.hxx, vbachartobject(s).cxx and vbacharts.cxx.     *)
(*                                                                         *)
(* A chart type is what tells the Excel types apart; setChartType turns it *)
(* into properties of a diagram, getChartType guesses it from them.        *)
(***************************************************************************)
EXTENDS VbaCalls

VARIABLES
    diagram,    \* properties of the diagram
    source,     \* where the data come from
    shows,      \* what the chart has of title, legend and titles of axes
    titles,     \* text and rotation of the titles
    scales,     \* properties of the axes
    axis,       \* the Axis object that the macro has
    charts,     \* charts on the sheets of the document
    object      \* the ChartObject that the macro has

chartVars == <<diagram, source, shows, titles, scales, axis, charts, object>>

(***************************************************************************)
(* Types.                                                                  *)
(***************************************************************************)
Basic(family) ==
    [family |-> family, solid |-> "rectangle", dir |-> "column", stack |-> "none",
     d3 |-> FALSE, deep |-> FALSE, marks |-> FALSE, lines |-> "none",
     updown |-> FALSE, volume |-> FALSE, variant |-> "plain"]

Stacks == {"none", "stacked", "percent"}
Solids == {"rectangle", "cone", "cylinder", "pyramid"}

Flat(dir, stack) == [Basic("bar") EXCEPT !.dir = dir, !.stack = stack]
Solid(dir, stack, solid) == [Flat(dir, stack) EXCEPT !.d3 = TRUE, !.solid = solid]
Deep(solid)            == [Basic("bar") EXCEPT !.d3 = TRUE, !.deep = TRUE, !.solid = solid]
Line(stack, marks)     == [Basic("line") EXCEPT !.stack = stack, !.marks = marks]
Area(stack, d3)        == [Basic("area") EXCEPT !.stack = stack, !.d3 = d3]
Pie(d3, variant)       == [Basic("pie") EXCEPT !.d3 = d3, !.variant = variant]
Scatter(lines, marks)  == [Basic("xy") EXCEPT !.lines = lines, !.marks = marks]
Marked(variant)        == [Basic("xy") EXCEPT !.marks = TRUE, !.variant = variant]
Stock(updown, volume)  == [Basic("stock") EXCEPT !.updown = updown, !.volume = volume]

BarTypes ==
    {Flat(d, s) : d \in {"column", "bar"}, s \in Stacks}
    \cup {Solid(d, s, f) : d \in {"column", "bar"}, s \in Stacks, f \in Solids}
    \cup {Deep(f) : f \in Solids}
    \cup {[Basic("bar") EXCEPT !.deep = TRUE, !.variant = "surface"]}
LineTypes ==
    {Line(s, b) : s \in Stacks, b \in BOOLEAN}
    \cup {[Basic("line") EXCEPT !.d3 = TRUE]}
    \cup {Area(s, b) : s \in Stacks, b \in BOOLEAN}
RoundTypes ==
    {Pie(b, v) : b \in BOOLEAN, v \in {"plain", "exploded"}}
    \cup {[Basic("pie") EXCEPT !.variant = "of"]}
    \cup {[Basic("donut") EXCEPT !.variant = v] : v \in {"plain", "exploded"}}
    \cup {[Basic("net") EXCEPT !.marks = b] : b \in BOOLEAN}
    \cup {[Basic("net") EXCEPT !.variant = "filled"]}
PointTypes ==
    {Scatter(l, b) : l \in {"straight", "smooth"}, b \in BOOLEAN}
    \cup {Marked(v) : v \in {"plain", "bubble"}}
    \cup {Stock(u, b) : u, b \in BOOLEAN}

ChartTypes == BarTypes \cup LineTypes \cup RoundTypes \cup PointTypes

ColumnClustered == Basic("bar")

\* setChartType makes a new diagram and sets its properties.  3DColumn is missing
\* from the list of vertical types.
DiagramOf(t) ==
    [family   |-> t.family, solid |-> t.solid, deep |-> t.deep, d3 |-> t.d3,
     vertical |-> t.dir = "column" /\ t.family = "bar"
                  /\ ~(t.deep /\ t.d3 /\ t.solid = "rectangle"),
     stacked  |-> t.stack # "none", percent |-> t.stack = "percent",
     symbols  |-> t.marks, lines |-> t.lines = "straight", spline |-> t.lines = "smooth",
     updown   |-> t.updown, volume |-> t.volume]

GetStackedType(d) ==
    IF d.stacked THEN IF d.percent THEN "percent" ELSE "stacked" ELSE "none"

\* The bars of a flat diagram are rectangles, and never deep.
GetSolidType(d) ==
    LET dir == IF d.vertical THEN "column" ELSE "bar"
    IN  IF d.deep
        THEN IF d.d3 THEN Deep(d.solid) ELSE Basic("bar")
        ELSE IF d.d3 THEN Solid(dir, GetStackedType(d), d.solid)
                     ELSE Flat(dir, GetStackedType(d))

GetScatterType(d) ==
    IF d.spline \/ d.lines
    THEN Scatter(IF d.spline THEN "smooth" ELSE "straight", d.symbols)
    ELSE Marked("plain")

GetChartType ==
    LET d == diagram IN
    CASE d.family = "bar"   -> GetSolidType(d)
      [] d.family = "area"  -> Area(GetStackedType(d), d.d3)
      [] d.family = "pie"   -> Pie(d.d3, "plain")
      [] d.family = "donut" -> Basic("donut")
      [] d.family = "net"   -> [Basic("net") EXCEPT !.marks = d.symbols]
      [] d.family = "stock" -> Stock(d.updown, d.volume)
      [] d.family = "xy"    -> GetScatterType(d)
      [] d.family = "line" /\ d.d3  -> [Basic("line") EXCEPT !.d3 = TRUE]
      [] d.family = "line" /\ ~d.d3 -> Line(GetStackedType(d), d.symbols)

(***************************************************************************)
(* The rest of a chart.                                                    *)
(***************************************************************************)
Titles == {"main", "x", "y", "z"}
Scales == {"x", "y", "z", "x2", "y2"}
Auto   == -1

\* What the document computes for a scale that is automatic.
Computed == [origin |-> 0, min |-> 0, max |-> 10, minor |-> 1, major |-> 2]
AutoScale == [origin |-> Auto, min |-> Auto, max |-> Auto, minor |-> Auto, major |-> Auto,
              log |-> FALSE]

NoAxis   == [type |-> "none", group |-> "primary", custom |-> FALSE]
NoObject == 0
Own      == [sheet |-> "s1", persist |-> 1, name |-> "persist"]

ChartInit ==
    /\ diagram = DiagramOf(ColumnClustered)
    /\ source = [rows |-> "columns", rowHeads |-> FALSE, colHeads |-> FALSE]
    /\ shows = {}
    /\ titles = [t \in Titles |-> [text |-> "", angle |-> 0]]
    /\ scales = [s \in Scales |-> AutoScale]
    /\ axis = NoAxis
    /\ charts \in {{Own}, {Own, [Own EXCEPT !.sheet = "s2", !.persist = 2]}}
    /\ object = NoObject

AxisWhats == {"crosses", "crossesAt", "max", "min", "minor", "major", "maxAuto", "minAuto",
              "minorAuto", "majorAuto", "scaleType", "axis.hasTitle", "axis.text"}

\* What a document keeps of a diagram that is replaced is its own affair.
Replaced(t) ==
    /\ diagram' = DiagramOf(t)
    /\ \/ UNCHANGED <<source, shows, scales>>
       \/ /\ source' = [source EXCEPT !.rows = "columns"]
          /\ shows' = shows \cap {"main", "legend"}
          /\ scales' = [s \in Scales |-> AutoScale]
    /\ UNCHANGED <<titles, axis, charts, object>>

SetChartType(t) ==
    /\ Replaced(t)
    /\ WroteAtCost("type", t, AxisWhats \cup {"plotBy"})
SetChartTypeUnknown == UNCHANGED chartVars /\ Throws

PutSource(s) ==
    /\ source' = s
    /\ UNCHANGED <<diagram, shows, titles, scales, axis, charts, object>>

SetPlotBy(v) ==
    \/ v \in {"rows", "columns"} /\ PutSource([source EXCEPT !.rows = v]) /\ Wrote("plotBy", v)
    \/ v = "other" /\ UNCHANGED chartVars /\ Throws
GetPlotBy == IF source.rows = "columns" THEN "columns" ELSE "rows"

\* setSourceData: range and headings are set before an unknown direction throws;
\* without a direction the longer side of the range has the series.
SetSourceData(tall, rowHeads, colHeads, by) ==
    LET s == [source EXCEPT !.rowHeads = rowHeads, !.colHeads = colHeads]
    IN  \/ by = "other" /\ PutSource(s) /\ Throws
        \/ by \in {"rows", "columns"} /\ PutSource([s EXCEPT !.rows = by]) /\ Wrote("plotBy", by)
        \/ /\ by = "none"
           /\ PutSource([s EXCEPT !.rows = IF tall THEN "columns" ELSE "rows"])
           /\ Changes({"plotBy"})

\* isSeriesIndexValid looks at the data only when there are none.
SeriesIndexValid(i) == FALSE
SeriesCall(i) == ~SeriesIndexValid(i) /\ UNCHANGED chartVars /\ Throws

Show(what, b) ==
    /\ shows' = IF b = "on" THEN shows \cup {what} ELSE shows \ {what}
    /\ UNCHANGED <<diagram, source, titles, scales, axis, charts, object>>
SetHasTitle(b)  == Show("main", b) /\ Wrote("hasTitle", b)
SetHasLegend(b) == Show("legend", b) /\ Wrote("hasLegend", b)
Shown(what) == IF what \in shows THEN "on" ELSE "off"
GetHasTitle  == Shown("main")
GetHasLegend == Shown("legend")

PutTitle(t, title) ==
    /\ titles' = [titles EXCEPT ![t] = title]
    /\ UNCHANGED <<diagram, source, shows, scales, axis, charts, object>>
SetText(s) == PutTitle("main", [titles["main"] EXCEPT !.text = s]) /\ Wrote("text", s)
GetText    == titles["main"].text
\* In hundredths of a degree.
SetOrientation(n) ==
    PutTitle("main", [titles["main"] EXCEPT !.angle = n * 100]) /\ Wrote("orientation", n)
GetOrientation == titles["main"].angle \div 100

(***************************************************************************)
(* Axes.                                                                   *)
(***************************************************************************)

\* getAxisPropertySet: the series have one axis, whatever the group.
ScaleOf(type, group) ==
    CASE type = "category" -> IF group = "primary" THEN "x" ELSE "x2"
      [] type = "value"    -> IF group = "primary" THEN "y" ELSE "y2"
      [] type = "series"   -> "z"
TitleOf(type) == CASE type = "category" -> "x" [] type = "value" -> "y" [] type = "series" -> "z"

Held  == ScaleOf(axis.type, axis.group)
Named == TitleOf(axis.type)

PutScale(s) ==
    /\ scales' = [scales EXCEPT ![Held] = s]
    /\ UNCHANGED <<diagram, source, shows, titles, charts, object>>

\* Making the object sets the crossing to automatic.
MakeAxis(type, group) ==
    LET s == ScaleOf(type, group)
    IN  /\ axis' = [type |-> type, group |-> group, custom |-> FALSE]
        /\ scales' = [scales EXCEPT ![s].origin = Auto]
        /\ UNCHANGED <<diagram, source, shows, titles, charts, object>>
        /\ IF axis.type # "none" /\ s = Held
           THEN Clobbers({"crosses", "crossesAt"}) ELSE Changes(AxisWhats)

CreateAxis(type, group) ==
    \/ /\ type \in {"category", "value", "series"}
       /\ group \in {"primary", "secondary"}
       /\ MakeAxis(type, group)
    \/ /\ type = "other" \/ group = "other" \/ (type = "series" /\ ~diagram.d3)
       /\ UNCHANGED chartVars
       /\ Throws

\* For Each over the axes: the vertical one is taken for that of the series, and
\* there is a value axis in three dimensions only.
AxisIndex == <<"category", "series">> \o IF diagram.d3 THEN <<"value">> ELSE <<>>
EnumerateAxes == \E i \in DOMAIN AxisIndex : CreateAxis(AxisIndex[i], "primary")

HasAxis == axis.type # "none"
IsValueAxis == axis.type # "category"

\* DisplayUnit, ReversePlotOrder; isValueAxis throws for a category axis.
AxisRefused == HasAxis /\ UNCHANGED chartVars /\ Throws

AutoName == [max |-> "maxAuto", min |-> "minAuto", minor |-> "minorAuto", major |-> "majorAuto"]
ScaleRead(p) == IF scales[Held][p] = Auto THEN Computed[p] ELSE scales[Held][p]

\* MaximumScale, MinimumScale, MajorUnit, MinorUnit and whether they are automatic.
SetScale(p, n) ==
    /\ HasAxis /\ IsValueAxis
    /\ PutScale([scales[Held] EXCEPT ![p] = n])
    /\ UNCHANGED axis
    /\ WroteOver(p, n, {AutoName[p]})
SetScaleIsAuto(p, b) ==
    /\ HasAxis /\ IsValueAxis
    /\ PutScale([scales[Held] EXCEPT ![p] = IF b = "on" THEN Auto ELSE ScaleRead(p)])
    /\ UNCHANGED axis
    /\ WroteOver(AutoName[p], b, IF b = "on" THEN {p} ELSE {})
GetScaleIsAuto(p) == IF scales[Held][p] = Auto THEN "on" ELSE "off"

SetScaleType(v) ==
    /\ HasAxis /\ IsValueAxis
    /\ UNCHANGED axis
    /\ \/ /\ v \in {"linear", "logarithmic"}
          /\ PutScale([scales[Held] EXCEPT !.log = v = "logarithmic"])
          /\ Wrote("scaleType", v)
       \/ v = "other" /\ PutScale(scales[Held]) /\ Answers
GetScaleType == IF scales[Held].log THEN "logarithmic" ELSE "linear"

\* setCrossesAt fixes the ends of the axis as well.
CrossingAt(n) ==
    [scales[Held] EXCEPT !.origin = n, !.max = ScaleRead("max"), !.min = ScaleRead("min")]
SetCrossesAt(n) ==
    /\ HasAxis /\ IsValueAxis
    /\ PutScale(CrossingAt(n))
    /\ UNCHANGED axis
    /\ WroteAtCost("crossesAt", n, {"crosses", "maxAuto", "minAuto"})
GetCrossesAt == ScaleRead("origin")

\* setCrosses: the names of the ends are that of the flag AutoOrigin, which gives
\* no number; zero it is.
SetCrosses(v) ==
    /\ HasAxis
    /\ \/ /\ v = "automatic"
          /\ PutScale([scales[Held] EXCEPT !.origin = Auto])
          /\ axis' = [axis EXCEPT !.custom = FALSE]
          /\ WroteOver("crosses", v, {"crossesAt"})
       \/ /\ v \in {"minimum", "maximum"} /\ IsValueAxis
          /\ PutScale(CrossingAt(0))
          /\ axis' = [axis EXCEPT !.custom = FALSE]
          /\ WroteAtCost("crosses", v, {"crossesAt", "maxAuto", "minAuto"})
       \/ /\ v = "custom"
          /\ PutScale([scales[Held] EXCEPT !.origin = ScaleRead("origin")])
          /\ axis' = [axis EXCEPT !.custom = TRUE]
          /\ Wrote("crosses", v)
GetCrosses ==
    CASE scales[Held].origin = Auto -> "automatic"
      [] scales[Held].origin # Auto /\ axis.custom -> "custom"
      [] OTHER -> IF scales[Held].origin = 0 THEN "minimum" ELSE "maximum"

\* The title of a secondary axis is that of the primary one.
SetAxisHasTitle(b) ==
    HasAxis /\ Show(Named, b) /\ WroteOver("axis.hasTitle", b, {"axis.text"})
GetAxisHasTitle == Shown(Named)
SetAxisText(s) ==
    /\ HasAxis
    /\ \/ /\ Named \in shows
          /\ PutTitle(Named, [titles[Named] EXCEPT !.text = s])
          /\ Wrote("axis.text", s)
       \/ Named \notin shows /\ UNCHANGED chartVars /\ Throws
GetAxisText == IF Named \in shows THEN titles[Named].text ELSE "null"

DeleteAxis ==
    /\ HasAxis
    /\ axis' = NoAxis
    /\ UNCHANGED <<diagram, source, shows, titles, scales, charts, object>>
    /\ Changes(AxisWhats)

(***************************************************************************)
(* ChartObjects of the sheet s1, Charts of the document.                   *)
(***************************************************************************)
PutCharts(set, held) ==
    /\ charts' = set
    /\ object' = held
    /\ UNCHANGED <<diagram, source, shows, titles, scales, axis>>

\* Mutant: by their number on the sheet.
FreeNameOfSheet == Cardinality({c \in charts : c.sheet = "s1"}) + 1

FreeName == CHOOSE n \in 1..(Cardinality(charts) + 1) :
                /\ \A c \in charts : c.persist # n
                /\ \A k \in 1..(n - 1) : \E c \in charts : c.persist = k

\* What goes wrong in Add is swallowed: the macro gets nothing.
AddObject ==
    \/ /\ PutCharts(charts \cup {[Own EXCEPT !.persist = FreeName]}, FreeName)
       /\ Changes({"name"})
    \/ /\ \/ PutCharts(charts \cup {[Own EXCEPT !.persist = FreeName]}, NoObject)
          \/ PutCharts(charts, NoObject)
       /\ Changes({"name"})

\* Making the object gives the shape the name it is stored under.
GetObject(n) ==
    \/ \E c \in charts :
          /\ c.sheet = "s1" /\ c.persist = n
          /\ PutCharts((charts \ {c}) \cup {[c EXCEPT !.name = "persist"]}, n)
          /\ Clobbers({"name"})
    \/ /\ ~\E c \in charts : c.sheet = "s1" /\ c.persist = n
       /\ UNCHANGED chartVars
       /\ Throws

TheObject == CHOOSE c \in charts : c.persist = object
HasObject == \E c \in charts : c.persist = object

SetObjectName(s) ==
    /\ HasObject
    /\ PutCharts((charts \ {TheObject}) \cup {[TheObject EXCEPT !.name = s]}, object)
    /\ Wrote("name", s)
GetObjectName == TheObject.name

DeleteObject ==
    /\ HasObject
    /\ PutCharts(charts \ {TheObject}, NoObject)
    /\ Changes({"name"})
DeleteObjects ==
    /\ PutCharts({c \in charts : c.sheet # "s1"}, NoObject)
    /\ Changes({"name"})

\* Activate selects the shape; Charts are not made, and not enumerated.
ActivateObject == HasObject /\ UNCHANGED chartVars /\ Answers
ChartsRefused  == UNCHANGED chartVars /\ Throws

\* =+ : the charts of the last sheet.
ChartsCount == Cardinality({c \in charts : c.sheet = "s2"})

(***************************************************************************)
(* The calls.                                                              *)
(***************************************************************************)
SetsChart ==
    \/ \E t \in ChartTypes : SetChartType(t)
    \/ SetChartTypeUnknown
    \/ \E v \in {"rows", "columns", "other"} : SetPlotBy(v)
    \/ \E tall, r, c \in BOOLEAN, by \in {"none", "rows", "other"} : SetSourceData(tall, r, c, by)
    \/ SeriesCall(0)
    \/ \E b \in OnOff : SetHasTitle(b) \/ SetHasLegend(b)
    \/ SetText("t") \/ SetOrientation(45)

SetsAxis ==
    \/ \E type \in {"category", "value", "series", "other"},
          group \in {"primary", "secondary", "other"} : CreateAxis(type, group)
    \/ EnumerateAxes \/ AxisRefused \/ DeleteAxis
    \/ \E p \in DOMAIN AutoName : SetScale(p, 5) \/ \E b \in OnOff : SetScaleIsAuto(p, b)
    \/ \E v \in {"linear", "logarithmic", "other"} : SetScaleType(v)
    \/ \E v \in {"automatic", "minimum", "maximum", "custom"} : SetCrosses(v)
    \/ SetCrossesAt(5)
    \/ \E b \in OnOff : SetAxisHasTitle(b)
    \/ SetAxisText("t")

SetsObjects ==
    \/ AddObject \/ GetObject(1) \/ GetObject(2) \/ SetObjectName("mine")
    \/ DeleteObject \/ DeleteObjects \/ ActivateObject \/ ChartsRefused

ChartRead(what) ==
    CASE what = "type"        -> GetChartType
      [] what = "plotBy"      -> GetPlotBy
      [] what = "hasTitle"    -> GetHasTitle
      [] what = "hasLegend"   -> GetHasLegend
      [] what = "text"        -> GetText
      [] what = "orientation" -> GetOrientation
      [] what = "crosses"     -> GetCrosses
      [] what = "crossesAt"   -> GetCrossesAt
      [] what \in {"max", "min", "minor", "major"} -> ScaleRead(what)
      [] what = "maxAuto"     -> GetScaleIsAuto("max")
      [] what = "minAuto"     -> GetScaleIsAuto("min")
      [] what = "minorAuto"   -> GetScaleIsAuto("minor")
      [] what = "majorAuto"   -> GetScaleIsAuto("major")
      [] what = "scaleType"   -> GetScaleType
      [] what = "axis.hasTitle" -> GetAxisHasTitle
      [] what = "axis.text"   -> GetAxisText
      [] what = "name"        -> GetObjectName

\* Variants Excel has and the office has not; an axis that crosses at its maximum,
\* which reads as minimum.
ChartLoses(a) ==
    \/ a.what = "type" /\ a.value.variant # "plain"
    \/ a.what = "crosses" /\ a.value = "maximum"

ChartCall == Ready /\ (SetsChart \/ SetsAxis \/ SetsObjects)

(***************************************************************************)
(* What SetIsRead rests on.                                                *)
(***************************************************************************)
ChartWhats ==
    AxisWhats \cup {"type", "plotBy", "hasTitle", "hasLegend", "text", "orientation", "name"}

\* The charts of the document differ in the names they are stored under.
ChartOK ==
    /\ source \in [rows : {"rows", "columns"}, rowHeads : BOOLEAN, colHeads : BOOLEAN]
    /\ DOMAIN titles = Titles
    /\ \A t \in Titles : DOMAIN titles[t] = {"text", "angle"}
    /\ scales \in [Scales -> [origin : Int, min : Int, max : Int, minor : Int, major : Int,
                              log : BOOLEAN]]
    /\ axis = NoAxis \/ axis \in [type : {"category", "value", "series"},
                                  group : {"primary", "secondary"}, custom : BOOLEAN]
    /\ IsFiniteSet(charts)
    /\ \A c \in charts : c \in [sheet : {"s1", "s2"}, persist : Nat, name : {"persist", "mine"}]
    /\ \A c, d \in charts : c.persist = d.persist => c = d

\* What is set of an axis is set of the one the macro has.
ChartAsked ==
    \A a \in asked : /\ a.what \in ChartWhats
                     /\ a.what \in AxisWhats => HasAxis
=============================================================================
