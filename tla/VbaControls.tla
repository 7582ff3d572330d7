----------------------------- MODULE VbaControls ------------------------------
(***************************************************************************)
(* scratch/sc-vba: controls of a sheet, names of ranges and comments of    *)
(* cells as a macro sees them: vbacontrol.cxx, vbalistbox.cxx,             *)
(* vbacombobox.cxx, vbatextbox.cxx, vbaradiobutton.cxx, vbapropvalue.cxx,  *)
(* vbaoleobject.cxx, vbaname.cxx, vbanames.cxx and vbacomment.cxx.         *)
(***************************************************************************)
EXTENDS VbaCalls

VARIABLES
    control,    \* properties of a control
    items,      \* of a list or a combo box
    picks,      \* the indices that are selected, from 0
    index,      \* the index of the last Selected, of the list box object
    names,      \* names of ranges: the sheet they are in
    sheet,      \* the active sheet
    comment     \* of a cell, if there is one

controlVars == <<control, items, picks, index, names, sheet, comment>>

Sides   == {"left", "top", "width", "height"}
Sheets  == {"s1", "s2"}
NoSheet == "none"
NoComment == [there |-> FALSE, visible |-> "off", text |-> <<>>]

ControlsInit ==
    /\ control = [at |-> [l \in Sides |-> 10], enabled |-> "on", live |-> "on",
                  visible |-> "on", text |-> "", max |-> 0, lines |-> "off", label |-> "", state |-> 0,
                  many |-> "off", combo |-> ""]
    /\ items = <<"a", "b">>
    /\ picks = <<>>
    /\ index \in {0, 1}         \* not initialized
    /\ names = [one |-> "s1", two |-> NoSheet]
    /\ sheet = "s1"
    /\ comment = [there |-> TRUE, visible |-> "off", text |-> <<"x", "y", "z">>]

Put(c) == control' = c /\ UNCHANGED <<items, picks, index, names, sheet, comment>>
Same   == UNCHANGED controlVars

(***************************************************************************)
(* Control                                                                 *)
(***************************************************************************)

\* pt2mm, mm2pt: whole millimetres.
Millimeters(points) == (points * 3528) \div 10000
InPoints(mm)        == (mm * 28345 + 5000) \div 10000

SetSide(l, points) ==
    Put([control EXCEPT !.at[l] = Millimeters(points)]) /\ Wrote(l, points)
GetSide(l) == InPoints(control.at[l])

\* Of the model, which its window follows.
SetEnabled(b) ==
    Put([control EXCEPT !.enabled = b, !.live = b]) /\ WroteOver("enabled", b, {"live"})
GetEnabled == control.enabled

\* Of the window, which there is when the control is shown somewhere.
SetVisible(b) ==
    \/ Put([control EXCEPT !.visible = b]) /\ Wrote("visible", b)
    \/ Same /\ Throws
GetVisible == control.visible

\* OLEObject: another object for the same control, with the window it had when it was
\* made; what is set there the model does not know.
SetObjectEnabled(b) == Put([control EXCEPT !.live = b]) /\ Wrote("live", b)
GetObjectEnabled    == control.live
SetObjectVisible(b) == Put([control EXCEPT !.visible = b]) /\ Wrote("visible", b)
SetObjectSide(l, points) == SetSide(l, points)

\* TextBox
SetText(v) == Put([control EXCEPT !.text = v]) /\ Wrote("text", v)
GetText    == control.text
SetMaxLength(n) == Put([control EXCEPT !.max = n]) /\ Wrote("maxLength", n)
GetMaxLength    == control.max
SetMultiline(b) == Put([control EXCEPT !.lines = b]) /\ Wrote("multiline", b)
GetMultiline    == control.lines

\* Label, Button, RadioButton: what is neither off nor on counts as on.
SetCaption(v) == Put([control EXCEPT !.label = v]) /\ Wrote("caption", v)
GetCaption    == control.label
SetState(b)   == Put([control EXCEPT !.state = IF b = "on" THEN 1 ELSE 0]) /\ Wrote("state", b)
GetState      == IF control.state = 0 THEN "off" ELSE "on"

(***************************************************************************)
(* ListBox and ComboBox                                                    *)
(***************************************************************************)
Picked       == {picks[i] : i \in DOMAIN picks}
Pick(p)      == picks' = p /\ UNCHANGED <<control, items, index, names, sheet, comment>>
FirstItem(v) == CHOOSE i \in DOMAIN items : items[i] = v /\ \A k \in 1 .. i - 1 : items[k] # v
Selections   == {"value", "selected0", "selected1"}

SetMultiSelect(b) ==
    /\ Put([control EXCEPT !.many = b])
    /\ WroteOver("multiSelect", b, IF b = "on" THEN {"value"} ELSE {})
GetMultiSelect    == control.many

\* Value: the first item that is the value; not when many can be selected.
SetValue(v) ==
    LET found == v \in {items[i] : i \in DOMAIN items}
    IN  \/ /\ control.many = "off" /\ found
           /\ Pick(<<FirstItem(v) - 1>>)
           /\ WroteOver("value", v, Selections)
        \/ (control.many = "on" \/ ~found) /\ Same /\ Throws
GetValue ==
    CASE control.many = "on" -> "threw"
      [] control.many = "off" /\ picks = <<>> -> "null"
      [] OTHER -> items[picks[1] + 1]

\* Selected: the object remembers the index, whoever asks for the value later; it is
\* not compared with the items.
Selected(i) == index' = i /\ UNCHANGED <<control, items, picks, names, sheet, comment>> /\ Answers

\* setValueEvent, of the value that was got for the item i.
SetSelected(i, b) ==
    /\ Pick(CASE b = "on" /\ index \in Picked -> picks
              [] b = "off" -> Dropping(picks, {index})
              [] OTHER -> IF control.many = "on" THEN Append(picks, index) ELSE <<index>>)
    /\ IF index = i THEN WroteOver(IF i = 0 THEN "selected0" ELSE "selected1", b, Selections)
       ELSE Clobbers(Selections)
GetSelected(i) == IF i \in Picked THEN "on" ELSE "off"

\* AddItem, Clear: whether what is selected stays so is the list's affair; an index
\* beyond the list is not compared with it either and not modelled.
SetItems(s) ==
    /\ items' = s
    /\ picks' \in {<<>>, Dropping(picks, {k \in Picked : k >= Len(s)})}
    /\ UNCHANGED <<control, index, names, sheet, comment>>
    /\ Clobbers(Selections)
AddItem(v, i) == SetItems(SubSeq(items, 1, i) \o <<v>> \o SubSeq(items, i + 1, Len(items)))
ClearList     == SetItems(<<>>)

\* A combo box has a text, which goes with its items.
SetCombo(v) == Put([control EXCEPT !.combo = v]) /\ Wrote("combo", v)
GetCombo    == control.combo
ClearCombo ==
    /\ control' = [control EXCEPT !.combo = ""]
    /\ items' = <<>> /\ picks' = <<>>
    /\ UNCHANGED <<index, names, sheet, comment>>
    /\ Changes({"combo"} \cup Selections)

(***************************************************************************)
(* Names                                                                   *)
(***************************************************************************)
Defined(n)  == names[n] # NoSheet
PutNames(f) == names' = f /\ UNCHANGED <<control, items, picks, index, sheet, comment>>

\* Add: a name may have a sheet before it, which is cut off; without a range nothing
\* is added; one that exists is replaced.
AddName(n, s) == PutNames([names EXCEPT ![n] = s]) /\ Wrote(n, s)
AddNoRange    == Same /\ Answers
AddInvalid    == Same /\ Throws

\* RefersTo and the other five: as many characters as the active sheet and its "!" have
\* are taken for them, going in and coming out.
SetRefersTo(n, s) ==
    Defined(n) /\ PutNames([names EXCEPT ![n] = sheet]) /\ Wrote(n, s)
GetRefersTo(n) == IF Defined(n) THEN sheet ELSE NoSheet

DeleteName(n) ==
    \/ Defined(n) /\ PutNames([names EXCEPT ![n] = NoSheet]) /\ Changes({n})
    \/ ~Defined(n) /\ Same /\ Throws

\* Name: the sheet before it is the active one.  Its new name may be taken.
Rename(n, m) ==
    /\ Defined(n)
    /\ \/ ~Defined(m) /\ PutNames([names EXCEPT ![n] = NoSheet, ![m] = names[n]])
          /\ Changes({n, m})
       \/ Defined(m) /\ Same /\ (Throws \/ Answers)

\* What Visible and RefersToRange are set to is ignored.
SetNameVisible(b) == Same /\ Wrote("name.visible", b)
GetNameVisible    == "on"

ActivateSheet(s) ==
    sheet' = s /\ UNCHANGED <<control, items, picks, index, names, comment>> /\ Answers

(***************************************************************************)
(* Comments                                                                *)
(***************************************************************************)
PutComment(c) == comment' = c /\ UNCHANGED <<control, items, picks, index, names, sheet>>

SetAuthor(v) == Same /\ Wrote("author", v)
GetAuthor    == "user"
SetCommentVisible(b) ==
    PutComment([comment EXCEPT !.visible = b]) /\ Wrote("comment.visible", b)
GetCommentVisible == comment.visible

\* Text: from a start it takes the place of all the rest, or comes after what is
\* before it; without a start, of everything.
SetCommentText(t) == PutComment([comment EXCEPT !.text = t]) /\ Wrote("comment.text", t)
CommentTextAt(t, start, overwrite) ==
    LET before == SubSeq(comment.text, 1, start - 1)
        after  == SubSeq(comment.text, start, Len(comment.text))
        new    == before \o t \o (IF overwrite THEN <<>> ELSE after)
    IN  PutComment([comment EXCEPT !.text = new]) /\ Wrote("comment.text", new)
GetCommentText == comment.text
TextRefused    == Same /\ Throws

DeleteComment == PutComment(NoComment) /\ Changes({"comment.visible", "comment.text"})

(***************************************************************************)
(* The calls.                                                              *)
(***************************************************************************)
SetsControl ==
    \/ \E l \in Sides, n \in {0, 34} : SetSide(l, n) \/ SetObjectSide(l, n)
    \/ \E b \in OnOff : SetEnabled(b) \/ SetVisible(b) \/ SetObjectEnabled(b)
                        \/ SetObjectVisible(b) \/ SetMultiline(b) \/ SetState(b)
    \/ SetText("t") \/ SetCaption("t") \/ SetMaxLength(5)

SetsList ==
    \/ \E b \in OnOff : SetMultiSelect(b) \/ \E i \in {0, 1} : SetSelected(i, b)
    \/ \E v \in {"a", "b", "c"} : SetValue(v) \/ \E i \in 0..Len(items) : AddItem(v, i)
    \/ Selected(0) \/ Selected(1) \/ ClearList
    \/ SetCombo("t") \/ ClearCombo

SetsName ==
    \/ \E n \in DOMAIN names, s \in Sheets : AddName(n, s) \/ SetRefersTo(n, s)
    \/ AddNoRange \/ AddInvalid
    \/ \E n \in DOMAIN names : DeleteName(n)
    \/ Rename("one", "two") \/ Rename("two", "one")
    \/ \E b \in OnOff : SetNameVisible(b)
    \/ \E s \in Sheets : ActivateSheet(s)

SetsComment ==
    \/ SetAuthor("me")
    \/ /\ comment.there
       /\ \/ \E b \in OnOff : SetCommentVisible(b)
          \/ SetCommentText(<<"t">>)
          \/ \E start \in {1, 2}, b \in BOOLEAN : CommentTextAt(<<"t">>, start, b)
          \/ DeleteComment
    \/ TextRefused

ControlsRead(what) ==
    CASE what \in Sides -> GetSide(what)
      [] what \in DOMAIN names -> GetRefersTo(what)
      [] what = "enabled"      -> GetEnabled
      [] what = "live"         -> GetObjectEnabled
      [] what = "visible"      -> GetVisible
      [] what = "text"         -> GetText
      [] what = "maxLength"    -> GetMaxLength
      [] what = "multiline"    -> GetMultiline
      [] what = "caption"      -> GetCaption
      [] what = "state"        -> GetState
      [] what = "multiSelect"  -> GetMultiSelect
      [] what = "value"        -> GetValue
      [] what = "selected0"    -> GetSelected(0)
      [] what = "selected1"    -> GetSelected(1)
      [] what = "combo"        -> GetCombo
      [] what = "name.visible" -> GetNameVisible
      [] what = "author"       -> GetAuthor
      [] what = "comment.visible" -> GetCommentVisible
      [] what = "comment.text" -> GetCommentText

\* What does not come back: up to a millimetre (3 points), a name that is not in the
\* active sheet, and what is ignored.
ControlsLoses(a) ==
    \/ a.what \in Sides /\ a.value - GetSide(a.what) \in 0..3
    \/ a.what \in DOMAIN names /\ a.value # sheet
    \/ a.what = "name.visible" /\ a.value = "off"
    \/ a.what = "author"

ControlsCall == Ready /\ (SetsControl \/ SetsList \/ SetsName \/ SetsComment)

(***************************************************************************)
(* What SetIsRead rests on.                                                *)
(***************************************************************************)
ControlsWhats ==
    Sides \cup DOMAIN names \cup Selections \cup
    {"enabled", "live", "visible", "text", "maxLength", "multiline", "caption", "state",
     "multiSelect", "combo", "name.visible", "author", "comment.visible", "comment.text"}

ControlsOK ==
    /\ DOMAIN control = {"at", "enabled", "live", "visible", "text", "max", "lines",
                         "label", "state", "many", "combo"}
    /\ control.at \in [Sides -> Int] /\ control.many \in OnOff
    /\ items \in Seq({"a", "b", "c"})
    /\ picks \in Seq(Nat)
    /\ index \in {0, 1}
    /\ names \in [one : Sheets \cup {NoSheet}, two : Sheets \cup {NoSheet}]
    /\ sheet \in Sheets
    /\ DOMAIN comment = {"there", "visible", "text"}

\* A name that was given a range is defined; a value was set in a list of which one
\* item is selected.
ControlsAsked ==
    \A a \in asked : /\ a.what \in ControlsWhats
                     /\ a.what \in DOMAIN names => Defined(a.what)
                     /\ a.what = "value" => control.many = "off"
=============================================================================
