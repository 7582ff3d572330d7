------------------------------ MODULE VbaFormat -------------------------------
(***************************************************************************)
(* scratch/sc-vba: the format of a range of several cells, as a macro sees *)
(* it: vbaformat.cxx, vbafont.cxx, vbaborders.cxx, vbainterior.cxx and     *)
(* vbavalidation.cxx.  Every object reads and writes properties of the     *)
(* range; an attribute in which the cells differ is ambiguous until it is  *)
(* set.                                                                    *)
(***************************************************************************)
EXTENDS VbaCalls

VARIABLES
    fmt,        \* properties of the cells
    mixed,      \* those in which the cells differ
    border,     \* the lines of TableBorder
    valid       \* the validation of the cells

formatVars == <<fmt, mixed, border, valid>>

(***************************************************************************)
(* The document.                                                           *)
(***************************************************************************)

\* The palette has some colours twice (navy is 11 and 25 of 56).
Palette == <<"black", "white", "red", "navy", "navy">>

Protection == [locked : OnOff, hidden : OnOff]
Protected  == [locked |-> "on", hidden |-> "off"]

Lines   == {"left", "top", "right", "bottom", "vertical", "horizontal"}
NoLine  == [color |-> "black", width |-> 0]

Formats == [vert |-> "standard", hori |-> "standard", orient |-> "standard",
            angle |-> "level", wrap |-> "off", number |-> "General", indent |-> 0,
            protection |-> Protected, shrink |-> "off", mode |-> "lr",
            escapement |-> "normal", size |-> "10", color |-> "black", bold |-> "off",
            underline |-> "none", strike |-> "off", shadow |-> "off", italic |-> "off",
            name |-> "Arial", back |-> "white"]

NoValidation == [type |-> "any", blank |-> "on", input |-> "on", error |-> "on",
                 list |-> "on", errorTitle |-> "", inputTitle |-> "", inputText |-> "",
                 errorText |-> "", alert |-> "stop", formula |-> ""]

\* Cells that differ in nothing, or in everything.
FormatInit ==
    /\ fmt = Formats
    /\ mixed \in {{}, DOMAIN Formats \cup Lines}
    /\ border = [l \in Lines |-> NoLine]
    /\ valid = NoValidation

Put(p, v) == /\ fmt' = [fmt EXCEPT ![p] = v]
             /\ mixed' = mixed \ {p}
             /\ UNCHANGED <<border, valid>>
Plain(p)  == IF p \in mixed THEN "null" ELSE fmt[p]

(***************************************************************************)
(* vbaformat.cxx                                                           *)
(***************************************************************************)
SetVerticalAlignment(v) ==
    /\ Put("vert", IF v \in {"top", "center", "bottom"} THEN v ELSE "standard")
    /\ Wrote("vert", v)
GetVerticalAlignment ==
    IF Plain("vert") = "standard" THEN "bottom" ELSE Plain("vert")

\* An alignment that is not known is ignored.
SetHorizontalAlignment(v) ==
    \/ /\ v \in {"left", "center", "right", "justify", "distributed"}
       /\ Put("hori", IF v \in {"justify", "distributed"} THEN "block" ELSE v)
       /\ Wrote("hori", v)
    \/ v = "general" /\ UNCHANGED formatVars /\ Answers
GetHorizontalAlignment ==
    CASE Plain("hori") = "block"    -> "justify"
      [] Plain("hori") = "standard" -> "null"
      [] OTHER -> Plain("hori")

\* Only "horizontal" takes back a rotation.
SetOrientation(v) ==
    /\ fmt' = [fmt EXCEPT !.orient = IF v = "horizontal" THEN "standard" ELSE v,
                          !.angle  = IF v = "horizontal" THEN "level" ELSE @]
    /\ mixed' = mixed \ ({"orient"} \cup IF v = "horizontal" THEN {"angle"} ELSE {})
    /\ UNCHANGED <<border, valid>>
    /\ Wrote("orient", v)
GetOrientation == IF Plain("orient") = "standard" THEN "horizontal" ELSE Plain("orient")

SetWrapText(v) == Put("wrap", v) /\ Wrote("wrap", v)
GetWrapText    == Plain("wrap")

\* A format is looked up, and shown, in its own spelling.
SetNumberFormat(v) ==
    /\ Put("number", IF v = "general" THEN "General" ELSE v)
    /\ WroteOver("number", v, {"numberLocal"})
SetNumberFormatLocal(v) ==
    /\ Put("number", IF v = "general" THEN "General" ELSE v)
    /\ WroteOver("numberLocal", v, {"number"})
GetNumberFormat      == Plain("number")
GetNumberFormatLocal ==
    CASE Plain("number") = "General" -> "general"
      [] Plain("number") = "null" -> ""
      [] OTHER -> Plain("number")

\* In hundredths of a millimetre.  What is not aligned becomes left-aligned; of
\* cells that differ the document answers that they are not aligned.
SetIndentLevel(n) ==
    LET aligns == "hori" \in mixed \/ fmt.hori = "standard"
    IN  /\ fmt' = [fmt EXCEPT !.hori   = IF aligns THEN "left" ELSE @,
                              !.indent = (n * 3528) \div 10]
        /\ mixed' = mixed \ ({"indent"} \cup IF aligns THEN {"hori"} ELSE {})
        /\ UNCHANGED <<border, valid>>
        /\ Wrote("indent", n)
GetIndentLevel == IF "indent" \in mixed THEN -1 ELSE (fmt.indent * 10 + 1764) \div 3528

\* One property has both flags; of cells that differ it has the usual ones.
ProtectionRead == IF "protection" \in mixed THEN Protected ELSE fmt.protection
SetLocked(v) ==
    /\ Put("protection", [ProtectionRead EXCEPT !.locked = v])
    /\ Wrote("locked", v)
SetFormulaHidden(v) ==
    /\ Put("protection", [ProtectionRead EXCEPT !.hidden = v])
    /\ Wrote("hidden", v)
GetLocked        == IF "protection" \in mixed THEN "null" ELSE fmt.protection.locked
GetFormulaHidden == IF "protection" \in mixed THEN "null" ELSE fmt.protection.hidden

SetShrinkToFit(v) == Put("shrink", v) /\ Wrote("shrink", v)
GetShrinkToFit    == Plain("shrink")

SetReadingOrder(v) ==
    \/ v \in {"lr", "rl"} /\ Put("mode", v) /\ Wrote("mode", v)
    \/ v = "context" /\ UNCHANGED formatVars /\ Throws
GetReadingOrder == Plain("mode")

(***************************************************************************)
(* vbafont.cxx                                                             *)
(***************************************************************************)

\* "off" makes the text normal, whether it was raised or lowered.
SetSuperscript(v) ==
    /\ Put("escapement", IF v = "on" THEN "super" ELSE "normal")
    /\ WroteAtCost("super", v, {"sub"})
SetSubscript(v) ==
    /\ Put("escapement", IF v = "on" THEN "sub" ELSE "normal")
    /\ WroteAtCost("sub", v, {"super"})
\* Of cells that differ the document answers that they are normal.
GetSuperscript == IF Plain("escapement") = "super" THEN "on" ELSE "off"
GetSubscript   == IF Plain("escapement") = "sub" THEN "on" ELSE "off"

SetSize(v) == Put("size", v) /\ Wrote("size", v)
GetSize    == Plain("size")

\* setColorIndex: nothing, and "automatic", is the first colour of the palette.
IndexOr(n, default) == IF n = 0 THEN default ELSE n
FirstIndex(c) ==
    LET S == {n \in DOMAIN Palette : Palette[n] = c}
    IN  IF S = {} THEN -1 ELSE CHOOSE n \in S : \A k \in S : n <= k

SetFontColor(c) == Put("color", c) /\ WroteOver("color", c, {"colorIndex"})
GetFontColor    == IF "color" \in mixed THEN "black" ELSE fmt.color
SetFontColorIndex(n) ==
    /\ Put("color", Palette[IndexOr(n, 1)])
    /\ WroteOver("colorIndex", n, {"color"})
GetFontColorIndex == IF "color" \in mixed THEN -2 ELSE FirstIndex(fmt.color)

SetBold(v) == Put("bold", v) /\ Wrote("bold", v)
GetBold    == Plain("bold")

\* What accountants use is not told apart.
SetUnderline(v) ==
    \/ /\ v \in {"none", "single", "double", "singleAccounting"}
       /\ Put("underline", IF v = "singleAccounting" THEN "single" ELSE v)
       /\ Wrote("underline", v)
    \/ v = "unknown" /\ UNCHANGED formatVars /\ Throws
GetUnderline == Plain("underline")

SetStrikethrough(v) == Put("strike", v) /\ Wrote("strike", v)
GetStrikethrough    == Plain("strike")
SetShadow(v)        == Put("shadow", v) /\ Wrote("shadow", v)
GetShadow           == Plain("shadow")
SetItalic(v)        == Put("italic", v) /\ Wrote("italic", v)
GetItalic           == Plain("italic")
SetName(v)          == Put("name", v) /\ Wrote("name", v)
GetName             == Plain("name")

\* FontStyle, StandardFont and StandardFontSize are refused.
FontRefused == UNCHANGED formatVars /\ Throws

(***************************************************************************)
(* vbainterior.cxx                                                         *)
(***************************************************************************)
SetBackColor(c) == Put("back", c) /\ WroteOver("back", c, {"backIndex"})
GetBackColor    == IF "back" \in mixed THEN "white" ELSE fmt.back
SetBackColorIndex(n) ==
    /\ Put("back", Palette[IndexOr(n, 2)])
    /\ WroteOver("backIndex", n, {"back"})
GetBackColorIndex == FirstIndex(GetBackColor)

(***************************************************************************)
(* vbaborders.cxx                                                          *)
(***************************************************************************)

\* getBorderLine: lines that differ look like no line; a diagonal has none.
LineRead(l) == IF l \in Lines /\ l \notin mixed THEN border[l] ELSE NoLine

\* setBorderLine: the whole line is written, and not for a diagonal.
PutLine(l, line) ==
    /\ border' = [k \in Lines |-> IF k = l THEN line ELSE border[k]]
    /\ mixed' = mixed \ {l}
    /\ UNCHANGED <<fmt, valid>>

Widths == [thin |-> 35, medium |-> 88, thick |-> 141, hairline |-> 2]
WeightOf(w) == CASE w \in {0, 35} -> "thin" [] w = 88 -> "medium"
                 [] w = 141 -> "thick" [] w = 2 -> "hairline"

ColorsOfAll == {"borders.color", "borders.colorIndex"}
ColorsOfOne == {"left.color", "left.colorIndex"}

SetLineColor(c) ==
    /\ PutLine("left", [LineRead("left") EXCEPT !.color = c])
    /\ WroteOver("left.color", c, ColorsOfAll \cup ColorsOfOne)
GetLineColor == LineRead("left").color

SetLineColorIndex(n) ==
    /\ PutLine("left", [LineRead("left") EXCEPT !.color = Palette[IndexOr(n, 1)]])
    /\ WroteOver("left.colorIndex", n, ColorsOfAll \cup ColorsOfOne)
GetLineColorIndex == FirstIndex(GetLineColor)

SetLineWeight(w) ==
    \/ /\ w \in DOMAIN Widths
       /\ PutLine("left", [LineRead("left") EXCEPT !.width = Widths[w]])
       /\ WroteOver("left.weight", w, {"borders.weight"})
    \/ w = "other" /\ UNCHANGED formatVars /\ Throws
GetLineWeight == WeightOf(LineRead("left").width)

\* The style is not looked at; writing the line makes it the same for all cells.
SetLineStyle ==
    /\ PutLine("left", LineRead("left"))
    /\ Answers
SetLineStyleUnknown == UNCHANGED formatVars /\ Throws

SetDiagonal == UNCHANGED formatVars /\ Answers

\* The borders one after the other.
PutLines(lines) ==
    /\ border' = lines
    /\ mixed' = mixed \ Lines
    /\ UNCHANGED <<fmt, valid>>
SetAllColor(c) ==
    /\ PutLines([l \in Lines |-> [LineRead(l) EXCEPT !.color = c]])
    /\ WroteOver("borders.color", c, ColorsOfAll \cup ColorsOfOne)
SetAllColorIndex(n) ==
    /\ PutLines([l \in Lines |-> [LineRead(l) EXCEPT !.color = Palette[IndexOr(n, 1)]]])
    /\ WroteOver("borders.colorIndex", n, ColorsOfAll \cup ColorsOfOne)
SetAllWeight(w) ==
    \/ /\ w \in DOMAIN Widths
       /\ PutLines([l \in Lines |-> [LineRead(l) EXCEPT !.width = Widths[w]]])
       /\ WroteOver("borders.weight", w, {"left.weight"})
    \/ w = "other" /\ UNCHANGED formatVars /\ Throws
SetAllLineStyle ==
    /\ PutLines([l \in Lines |-> LineRead(l)])
    /\ Answers

Same(S) == IF Cardinality(S) = 1 THEN CHOOSE x \in S : TRUE ELSE "null"
GetAllColor  == Same({LineRead(l).color : l \in Lines})
GetAllColorIndex ==
    LET S == {FirstIndex(LineRead(l).color) : l \in Lines}
    IN  IF Cardinality(S) = 1 THEN CHOOSE n \in S : TRUE ELSE -2
GetAllWeight == Same({WeightOf(LineRead(l).width) : l \in Lines})

\* For Each asks for the borders by position, which are no names of borders.
EnumerateBorders == UNCHANGED formatVars /\ Throws

(***************************************************************************)
(* vbavalidation.cxx                                                       *)
(***************************************************************************)
PutValidation(v) == valid' = v /\ UNCHANGED <<fmt, mixed, border>>

SetIgnoreBlank(v) ==
    PutValidation([valid EXCEPT !.blank = v]) /\ Wrote("blank", v)
GetIgnoreBlank == valid.blank

SetInCellDropdown(v) ==
    PutValidation([valid EXCEPT !.list = v]) /\ Wrote("list", v)
GetInCellDropdown == valid.list

\* setShowInput writes the property of IgnoreBlank.
SetShowInput(v) ==
    PutValidation([valid EXCEPT !.blank = v]) /\ WroteAtCost("input", v, {"blank"})
GetShowInput == valid.input

SetShowError(v) ==
    PutValidation([valid EXCEPT !.error = v]) /\ Wrote("error", v)
GetShowError == valid.error

SetErrorTitle(v) ==
    PutValidation([valid EXCEPT !.errorTitle = v]) /\ Wrote("errorTitle", v)
GetErrorTitle == valid.errorTitle
SetInputMessage(v) ==
    PutValidation([valid EXCEPT !.inputText = v]) /\ Wrote("inputText", v)
GetInputMessage == valid.inputText
SetInputTitle(v) ==
    PutValidation([valid EXCEPT !.inputTitle = v]) /\ Wrote("inputTitle", v)
GetInputTitle == valid.inputTitle
SetErrorMessage(v) ==
    PutValidation([valid EXCEPT !.errorText = v]) /\ Wrote("errorText", v)
GetErrorMessage == valid.errorText

\* Delete leaves the list, the title of the input and the text of the error.
Deleted(v) ==
    [v EXCEPT !.blank = "on", !.input = "on", !.error = "on", !.errorTitle = "",
              !.inputText = "", !.alert = "stop", !.type = "any", !.formula = ""]
ResetByDelete == {"blank", "input", "error", "errorTitle", "inputText", "formula"}
DeleteValidation ==
    /\ PutValidation(Deleted(valid))
    /\ Changes(ResetByDelete)

\* Add: a validation that there is, and a missing type, are found before the settings
\* are deleted; what else is wrong, after that.
Complete(type, alert, formula) ==
    /\ type \in {"list", "whole"}
    /\ type = "list" => formula # "missing"
    /\ alert # "unknown"

\* Mutant: the settings are fetched when they have been deleted.
AddValidationAnew(type, alert, formula) ==
    /\ valid.type = "any" /\ Complete(type, alert, formula)
    /\ PutValidation([Deleted(valid) EXCEPT !.type = type, !.alert = alert, !.formula = formula])
    /\ IF formula \in {"", "missing"} THEN Answers ELSE Wrote("formula", formula)

\* If all is well the settings that were there before are written back with the new
\* ones, and without a formula the old one stays.
AddValidation(type, alert, formula) ==
    \/ /\ valid.type # "any" \/ type = "missing"
       /\ UNCHANGED formatVars
       /\ Throws
    \/ /\ valid.type = "any" /\ type # "missing" /\ ~Complete(type, alert, formula)
       /\ PutValidation(Deleted(valid))
       /\ Spoils(ResetByDelete)
    \/ /\ valid.type = "any" /\ Complete(type, alert, formula)
       /\ PutValidation([valid EXCEPT
                           !.type = type, !.alert = alert,
                           !.formula = IF formula \in {"", "missing"} THEN @ ELSE formula])
       /\ IF formula \in {"", "missing"} THEN Answers ELSE Wrote("formula", formula)
GetFormula1 == valid.formula

(***************************************************************************)
(* The calls.                                                              *)
(***************************************************************************)
SetsCell ==
    \/ \E v \in {"top", "center", "bottom", "justify"} : SetVerticalAlignment(v)
    \/ \E v \in {"left", "right", "justify", "distributed", "general"} : SetHorizontalAlignment(v)
    \/ \E v \in {"horizontal", "up", "stacked"} : SetOrientation(v)
    \/ \E v \in {"general", "0.00"} : SetNumberFormat(v) \/ SetNumberFormatLocal(v)
    \/ \E n \in {0, 1, 15} : SetIndentLevel(n)
    \/ \E v \in OnOff : \/ SetWrapText(v) \/ SetShrinkToFit(v)
                        \/ SetLocked(v) \/ SetFormulaHidden(v)
    \/ \E v \in {"lr", "rl", "context"} : SetReadingOrder(v)

SetsFont ==
    \/ \E v \in OnOff : \/ SetSuperscript(v) \/ SetSubscript(v) \/ SetBold(v) \/ SetItalic(v)
                        \/ SetStrikethrough(v) \/ SetShadow(v)
    \/ SetSize("12") \/ SetName("Courier") \/ FontRefused
    \/ \E c \in {"red", "navy", "olive"} : SetFontColor(c) \/ SetBackColor(c)
    \/ \E n \in 0..Len(Palette) : SetFontColorIndex(n) \/ SetBackColorIndex(n)
    \/ \E v \in {"none", "double", "singleAccounting", "unknown"} : SetUnderline(v)

SetsBorder ==
    \/ \E c \in {"red", "olive"} : SetLineColor(c) \/ SetAllColor(c)
    \/ \E n \in {0, Len(Palette)} : SetLineColorIndex(n) \/ SetAllColorIndex(n)
    \/ \E w \in DOMAIN Widths \cup {"other"} : SetLineWeight(w) \/ SetAllWeight(w)
    \/ SetLineStyle \/ SetLineStyleUnknown \/ SetAllLineStyle \/ SetDiagonal \/ EnumerateBorders

SetsValidation ==
    \/ \E v \in OnOff : \/ SetIgnoreBlank(v) \/ SetInCellDropdown(v)
                        \/ SetShowInput(v) \/ SetShowError(v)
    \/ SetErrorTitle("text") \/ SetInputMessage("text")
    \/ SetInputTitle("text") \/ SetErrorMessage("text")
    \/ DeleteValidation
    \/ \E type \in {"list", "whole", "other", "missing"}, alert \in {"stop", "info", "unknown"},
          formula \in {"missing", "", "1"} : AddValidation(type, alert, formula)

\* What is read of an attribute, for the setters above.
FormatRead(what) ==
    CASE what = "vert"   -> GetVerticalAlignment
      [] what = "hori"   -> GetHorizontalAlignment
      [] what = "orient" -> GetOrientation
      [] what = "wrap"   -> GetWrapText
      [] what = "number" -> GetNumberFormat
      [] what = "numberLocal" -> GetNumberFormatLocal
      [] what = "indent" -> GetIndentLevel
      [] what = "locked" -> GetLocked
      [] what = "hidden" -> GetFormulaHidden
      [] what = "shrink" -> GetShrinkToFit
      [] what = "mode"   -> GetReadingOrder
      [] what = "super"  -> GetSuperscript
      [] what = "sub"    -> GetSubscript
      [] what = "size"   -> GetSize
      [] what = "color"  -> GetFontColor
      [] what = "colorIndex" -> GetFontColorIndex
      [] what = "bold"   -> GetBold
      [] what = "underline" -> GetUnderline
      [] what = "strike" -> GetStrikethrough
      [] what = "shadow" -> GetShadow
      [] what = "italic" -> GetItalic
      [] what = "name"   -> GetName
      [] what = "back"   -> GetBackColor
      [] what = "backIndex" -> GetBackColorIndex
      [] what = "left.color" -> GetLineColor
      [] what = "left.colorIndex" -> GetLineColorIndex
      [] what = "left.weight" -> GetLineWeight
      [] what = "borders.color" -> GetAllColor
      [] what = "borders.colorIndex" -> GetAllColorIndex
      [] what = "borders.weight" -> GetAllWeight
      [] what = "blank"  -> GetIgnoreBlank
      [] what = "list"   -> GetInCellDropdown
      [] what = "input"  -> GetShowInput
      [] what = "error"  -> GetShowError
      [] what = "errorTitle" -> GetErrorTitle
      [] what = "inputText"  -> GetInputMessage
      [] what = "inputTitle" -> GetInputTitle
      [] what = "errorText"  -> GetErrorMessage
      [] what = "formula" -> GetFormula1

FormatWhats ==
    {"vert", "hori", "orient", "wrap", "number", "numberLocal", "indent", "locked", "hidden",
     "shrink", "mode", "super", "sub", "size", "color", "colorIndex", "bold", "underline",
     "strike", "shadow", "italic", "name", "back", "backIndex", "left.color",
     "left.colorIndex", "left.weight", "borders.color", "borders.colorIndex",
     "borders.weight", "blank", "list", "input", "error", "errorTitle", "inputText",
     "inputTitle", "errorText", "formula"}

\* What does not come back: "justify" is kept as the usual alignment,
\* "distributed" as justified, the format "general" is shown as "General", an index of
\* the palette is that of the first such colour, and ShowInput is never off.
FormatLoses(a) ==
    \/ a.what = "vert" /\ a.value = "justify"
    \/ a.what = "hori" /\ a.value = "distributed"
    \/ a.what = "number" /\ a.value = "general"
    \/ a.what = "underline" /\ a.value = "singleAccounting"
    \/ a.what = "input" /\ a.value = "off"
    \/ /\ a.what \in {"colorIndex", "backIndex", "left.colorIndex", "borders.colorIndex"}
       /\ a.value = 0 \/ FirstIndex(Palette[a.value]) # a.value

FormatCall == Ready /\ (SetsCell \/ SetsFont \/ SetsBorder \/ SetsValidation)

(***************************************************************************)
(* What SetIsRead rests on.                                                *)
(***************************************************************************)
FormatOK ==
    /\ DOMAIN fmt = DOMAIN Formats
    /\ fmt.protection \in Protection
    /\ DOMAIN border = Lines
    /\ \A l \in Lines : DOMAIN border[l] = {"color", "width"}
    /\ DOMAIN valid = DOMAIN NoValidation
    /\ valid.input = "on"

\* "null" is read of cells that differ, and never set.
FormatAsked ==
    \A a \in asked : /\ a.what \in FormatWhats
                     /\ a.what \in {"hori", "locked", "hidden"} => a.value # "null"
=============================================================================
