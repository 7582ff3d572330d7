-------------------------- MODULE VbaFormatProofs ---------------------------
(***************************************************************************)
(* Proofs about VbaMacro: what a macro has set of the window and the       *)
(* application, of the format of a range, and of charts reads as it was set *)
(* after any call of theirs.                                               *)
(***************************************************************************)
EXTENDS VbaMacro, TLAPS, WellFoundedInduction, FiniteSetTheorems, SequenceTheorems

-----------------------------------------------------------------------------
(* Numbers *)

\* A set of naturals has a least element.
LEMMA LeastOfNat ==
    ASSUME NEW T, T \subseteq Nat, T # {}
    PROVE  \E x \in T : \A y \in T : x <= y
<1> DEFINE R == {ss \in Nat \X Nat : ss[1] < ss[2]}
<1>1. IsWellFoundedOn(R, Nat)
  BY NatLessThanWellFounded DEF OpToRel
<1>2. \E x \in T : \A y \in T : ~ (<<y, x>> \in R)
  <2> HIDE DEF R
  <2>1. QED
    BY <1>1, WFMin
<1>3. PICK x \in T : \A y \in T : ~ (<<y, x>> \in R)
  BY <1>2
<1>4. ASSUME NEW y \in T PROVE x <= y
  <2>1. x \in Nat /\ y \in Nat /\ <<y, x>> \in Nat \X Nat
    OBVIOUS
  <2>2. <<y, x>> \in R <=> y < x
    BY <2>1
  <2>3. QED
    BY <1>3, <2>1, <2>2
<1>5. QED
  BY <1>4

-----------------------------------------------------------------------------
(* The window and the application *)

\* What each attribute of the window and the application reads.
LEMMA WindowReads ==
    /\ \A v \in Window!Views : Window!WindowRead(v) = view[v]
    /\ \A p \in Window!Rect : Window!WindowRead(p) = frame.rect[p]
    /\ Window!WindowRead("caption") = Window!GetCaption
    /\ Window!WindowRead("windowState") = frame.state
    /\ Window!WindowRead("visible") = frame.visible
    /\ Window!WindowRead("zoom") = Window!GetZoom
    /\ Window!WindowRead("view") = "normal"
    /\ Window!WindowRead("freezePanes") = Window!GetFreezePanes
    /\ Window!WindowRead("split") = Window!GetSplit
    /\ Window!WindowRead("splitColumn") = split.column
    /\ Window!WindowRead("splitRow") = split.row
    /\ Window!WindowRead("scrollRow") = first.row + 1
    /\ Window!WindowRead("scrollColumn") = first.column + 1
    /\ Window!WindowRead("screenUpdating") = Window!GetScreenUpdating
    /\ Window!WindowRead("statusBar") = office.bar
    /\ Window!WindowRead("calculation") = Window!GetCalculation
    /\ Window!WindowRead("enableCalculation") = office.automatic
    /\ Window!WindowRead("cursor") = office.pointer
    /\ Window!WindowRead("path") = office.path
    /\ Window!WindowRead("formulaBar") = office.formulaBar
    /\ Window!WindowRead("alerts") = "on"
    /\ Window!WindowRead("cutCopy") = "off"
  BY DEF Window!WindowRead, Window!Views, Window!Rect, Window!GetDisplay, Window!GetPosSize,
         Window!GetWindowState, Window!GetVisible, Window!GetView, Window!GetSplitColumn,
         Window!GetSplitRow, Window!GetScrollRow, Window!GetScrollColumn,
         Window!GetDisplayStatusBar,
         Window!GetEnableCalculation, Window!GetCursor, Window!GetDefaultFilePath,
         Window!GetDisplayFormulaBar, Window!GetDisplayAlerts, Window!GetCutCopyMode

LEMMA WindowReadsNext == WindowReads!:'
  BY WindowReads, PTL

\* A macro's window: what has been set reads as it was set.
WindowFine ==
    /\ Window!WindowOK /\ Window!WindowAsked
    /\ \A a \in asked : Window!WindowLoses(a) \/ Window!WindowRead(a.what) = a.value

\* A call that leaves the attributes it does not name, and what it sets is read.
LEMMA WindowSet ==
    ASSUME WindowFine, Window!WindowOK', NEW C, NEW w \in Window!WindowWhats, NEW v,
           asked' = {a \in asked : a.what \notin C} \cup {[what |-> w, value |-> v]},
           \A u \in Window!WindowWhats \ C : Window!WindowRead(u)' = Window!WindowRead(u),
           Window!WindowLoses([what |-> w, value |-> v]) \/ Window!WindowRead(w)' = v
    PROVE  WindowFine'
<1>1. \A a \in asked' : a.what \in Window!WindowWhats
  BY DEF WindowFine, Window!WindowAsked
<1>2. ASSUME NEW a \in asked' PROVE Window!WindowLoses(a) \/ Window!WindowRead(a.what)' = a.value
  <2>1. CASE a \in asked /\ a.what \notin C
    BY <1>1, <2>1 DEF WindowFine
  <2>2. CASE a = [what |-> w, value |-> v]
    BY <2>2
  <2>3. QED
    BY <2>1, <2>2
<1>3. \A a \in asked' : Window!WindowLoses(a)' = Window!WindowLoses(a)
  BY DEF Window!WindowLoses
<1>4. QED
  BY <1>1, <1>2, <1>3 DEF WindowFine, Window!WindowAsked, Window!WindowWhats, Window!Views,
     Window!Rect, Window!Splits

\* A call that sets nothing, and leaves the attributes it does not name.
LEMMA WindowOther ==
    ASSUME WindowFine, Window!WindowOK', NEW C, asked' = {a \in asked : a.what \notin C},
           \A u \in Window!WindowWhats \ C : Window!WindowRead(u)' = Window!WindowRead(u)
    PROVE  WindowFine'
<1>1. \A a \in asked' : a \in asked /\ a.what \in Window!WindowWhats \ C
  BY DEF WindowFine, Window!WindowAsked
<1>2. \A a \in asked' : Window!WindowLoses(a) \/ Window!WindowRead(a.what)' = a.value
  BY <1>1 DEF WindowFine
<1>3. \A a \in asked' : Window!WindowLoses(a)' = Window!WindowLoses(a)
  BY DEF Window!WindowLoses
<1>4. QED
  BY <1>1, <1>2, <1>3 DEF WindowFine, Window!WindowAsked, Window!WindowWhats, Window!Views,
     Window!Rect, Window!Splits

LEMMA WindowSame ==
    ASSUME WindowFine, UNCHANGED windowVars
    PROVE  /\ Window!WindowOK'
           /\ \A u \in Window!WindowWhats : Window!WindowRead(u)' = Window!WindowRead(u)
  BY WindowReads, WindowReadsNext
     DEF WindowFine, windowVars, Window!WindowOK, Window!WindowWhats, Window!Views, Window!Rect,
        Window!Splits,
         Window!GetCaption, Window!GetZoom, Window!GetFreezePanes, Window!GetSplit,
         Window!GetScreenUpdating,
         Window!GetCalculation

LEMMA WindowRefused ==
    ASSUME WindowFine, UNCHANGED windowVars, UNCHANGED asked
    PROVE  WindowFine'
<1> DEFINE C == {}
<1>1. asked' = {a \in asked : a.what \notin C}
  OBVIOUS
<1>2. Window!WindowOK' /\ \A u \in Window!WindowWhats \ C :
        Window!WindowRead(u)' = Window!WindowRead(u)
  BY WindowSame
<1> HIDE DEF C
<1>3. QED
  BY <1>1, <1>2, WindowOther

LEMMA ViewSetKeeps ==
    ASSUME WindowFine, NEW v \in Window!Views, NEW b \in Window!OnOff, Window!SetDisplay(v, b)
    PROVE  WindowFine'
<1> USE DEF WindowFine, Window!WindowOK, Window!SetDisplay, Window!PutView
<1>1. Window!WindowOK'
  BY DEF Window!OnOff, Window!Rect
<1>2. asked' = {a \in asked : a.what \notin {v} \cup {}} \cup {[what |-> v, value |-> b]}
  BY DEF Window!Wrote, Window!WroteOver, Window!Except
<1>3. \A u \in Window!WindowWhats \ ({v} \cup {}) : Window!WindowRead(u)' = Window!WindowRead(u)
  BY WindowReads, WindowReadsNext
     DEF Window!WindowWhats, Window!Views, Window!Rect, Window!Splits, Window!GetCaption,
         Window!GetZoom, Window!GetFreezePanes, Window!GetSplit, Window!GetScreenUpdating,
         Window!GetCalculation
<1>4. v \in Window!WindowWhats
  BY DEF Window!WindowWhats
<1>5. Window!WindowLoses([what |-> v, value |-> b]) \/ Window!WindowRead(v)' = b
  BY WindowReadsNext
     DEF Window!WindowLoses, Window!OnOff, Window!GetCaption, Window!GetZoom, Window!GetFreezePanes,
         Window!GetSplit, Window!GetScreenUpdating, Window!GetCalculation
<1>6. QED
  BY <1>1, <1>2, <1>3, <1>4, <1>5, WindowSet

LEMMA CaptionSetKeeps ==
    ASSUME WindowFine, NEW t \in {"book", "mine"}, NEW s \in BOOLEAN, Window!SetCaption(t, s)
    PROVE  WindowFine'
<1> USE DEF WindowFine, Window!WindowOK, Window!SetCaption, Window!PutFrame
<1>1. Window!WindowOK'
  BY DEF Window!OnOff, Window!Rect
<1>2. asked' = {a \in asked : a.what \notin {"caption"} \cup {}}
        \cup {[what |-> "caption", value |-> t]}
  BY DEF Window!Wrote, Window!WroteOver, Window!Except
<1>3. \A u \in Window!WindowWhats \ ({"caption"} \cup {}) :
        Window!WindowRead(u)' = Window!WindowRead(u)
  BY WindowReads, WindowReadsNext
     DEF Window!WindowWhats, Window!Views, Window!Rect, Window!Splits, Window!GetCaption,
         Window!GetZoom, Window!GetFreezePanes, Window!GetSplit, Window!GetScreenUpdating,
         Window!GetCalculation
<1>4. "caption" \in Window!WindowWhats
  BY DEF Window!WindowWhats
<1>5. Window!WindowLoses([what |-> "caption", value |-> t]) \/ Window!WindowRead("caption")' = t
  BY WindowReadsNext
     DEF Window!WindowLoses, Window!OnOff, Window!GetCaption, Window!GetZoom, Window!GetFreezePanes,
         Window!GetSplit, Window!GetScreenUpdating, Window!GetCalculation
<1>6. QED
  BY <1>1, <1>2, <1>3, <1>4, <1>5, WindowSet

LEMMA StateSetKeeps ==
    ASSUME WindowFine, NEW v \in {"maximized", "minimized", "normal"}, Window!SetWindowState(v)
    PROVE  WindowFine'
<1> USE DEF WindowFine, Window!WindowOK, Window!SetWindowState, Window!PutFrame
<1>1. Window!WindowOK'
  BY DEF Window!OnOff, Window!Rect
<1>2. asked' = {a \in asked : a.what \notin {"windowState"} \cup {}}
        \cup {[what |-> "windowState", value |-> v]}
  BY DEF Window!Wrote, Window!WroteOver, Window!Except
<1>3. \A u \in Window!WindowWhats \ ({"windowState"} \cup {}) :
        Window!WindowRead(u)' = Window!WindowRead(u)
  BY WindowReads, WindowReadsNext
     DEF Window!WindowWhats, Window!Views, Window!Rect, Window!Splits, Window!GetCaption,
         Window!GetZoom, Window!GetFreezePanes, Window!GetSplit, Window!GetScreenUpdating,
         Window!GetCalculation
<1>4. "windowState" \in Window!WindowWhats
  BY DEF Window!WindowWhats
<1>5. Window!WindowLoses([what |-> "windowState", value |-> v])
        \/ Window!WindowRead("windowState")' = v
  BY WindowReadsNext
     DEF Window!WindowLoses, Window!OnOff, Window!GetCaption, Window!GetZoom, Window!GetFreezePanes,
         Window!GetSplit, Window!GetScreenUpdating, Window!GetCalculation
<1>6. QED
  BY <1>1, <1>2, <1>3, <1>4, <1>5, WindowSet

LEMMA VisibleSetKeeps ==
    ASSUME WindowFine, NEW b \in Window!OnOff, Window!SetVisible(b)
    PROVE  WindowFine'
<1> USE DEF WindowFine, Window!WindowOK, Window!SetVisible, Window!PutFrame
<1>1. Window!WindowOK'
  BY DEF Window!OnOff, Window!Rect
<1>2. asked' = {a \in asked : a.what \notin {"visible"} \cup {}}
        \cup {[what |-> "visible", value |-> b]}
  BY DEF Window!Wrote, Window!WroteOver, Window!Except
<1>3. \A u \in Window!WindowWhats \ ({"visible"} \cup {}) :
        Window!WindowRead(u)' = Window!WindowRead(u)
  BY WindowReads, WindowReadsNext
     DEF Window!WindowWhats, Window!Views, Window!Rect, Window!Splits, Window!GetCaption,
         Window!GetZoom, Window!GetFreezePanes, Window!GetSplit, Window!GetScreenUpdating,
         Window!GetCalculation
<1>4. "visible" \in Window!WindowWhats
  BY DEF Window!WindowWhats
<1>5. Window!WindowLoses([what |-> "visible", value |-> b]) \/ Window!WindowRead("visible")' = b
  BY WindowReadsNext
     DEF Window!WindowLoses, Window!OnOff, Window!GetCaption, Window!GetZoom, Window!GetFreezePanes,
         Window!GetSplit, Window!GetScreenUpdating, Window!GetCalculation
<1>6. QED
  BY <1>1, <1>2, <1>3, <1>4, <1>5, WindowSet

LEMMA PosSizeSetKeeps ==
    ASSUME WindowFine, NEW p \in Window!Rect, NEW n \in Int, Window!SetPosSize(p, n)
    PROVE  WindowFine'
<1> USE DEF WindowFine, Window!WindowOK, Window!SetPosSize, Window!PutFrame
<1>1. Window!WindowOK'
  BY DEF Window!OnOff, Window!Rect
<1>2. asked' = {a \in asked : a.what \notin {p} \cup {}} \cup {[what |-> p, value |-> n]}
  BY DEF Window!Wrote, Window!WroteOver, Window!Except
<1>3. \A u \in Window!WindowWhats \ ({p} \cup {}) : Window!WindowRead(u)' = Window!WindowRead(u)
  BY WindowReads, WindowReadsNext
     DEF Window!WindowWhats, Window!Views, Window!Rect, Window!Splits, Window!GetCaption,
         Window!GetZoom, Window!GetFreezePanes, Window!GetSplit, Window!GetScreenUpdating,
         Window!GetCalculation
<1>4. p \in Window!WindowWhats
  BY DEF Window!WindowWhats
<1>5. Window!WindowLoses([what |-> p, value |-> n]) \/ Window!WindowRead(p)' = n
  BY WindowReadsNext
     DEF Window!WindowLoses, Window!OnOff, Window!GetCaption, Window!GetZoom, Window!GetFreezePanes,
         Window!GetSplit, Window!GetScreenUpdating, Window!GetCalculation
<1>6. QED
  BY <1>1, <1>2, <1>3, <1>4, <1>5, WindowSet

LEMMA ZoomSetKeeps ==
    ASSUME WindowFine, NEW v \in {"on", "off", "50"}, Window!SetZoom(v)
    PROVE  WindowFine'
<1> USE DEF WindowFine, Window!WindowOK, Window!SetZoom, Window!PutFrame
<1>1. Window!WindowOK'
  BY DEF Window!OnOff, Window!Rect
<1>2. asked' = {a \in asked : a.what \notin {"zoom"} \cup {}} \cup {[what |-> "zoom", value |-> v]}
  BY DEF Window!Wrote, Window!WroteOver, Window!Except
<1>3. \A u \in Window!WindowWhats \ ({"zoom"} \cup {}) :
        Window!WindowRead(u)' = Window!WindowRead(u)
  BY WindowReads, WindowReadsNext
     DEF Window!WindowWhats, Window!Views, Window!Rect, Window!Splits, Window!GetCaption,
         Window!GetZoom, Window!GetFreezePanes, Window!GetSplit, Window!GetScreenUpdating,
         Window!GetCalculation
<1>4. "zoom" \in Window!WindowWhats
  BY DEF Window!WindowWhats
<1>5. Window!WindowLoses([what |-> "zoom", value |-> v]) \/ Window!WindowRead("zoom")' = v
  BY WindowReadsNext
     DEF Window!WindowLoses, Window!OnOff, Window!GetCaption, Window!GetZoom, Window!GetFreezePanes,
         Window!GetSplit, Window!GetScreenUpdating, Window!GetCalculation
<1>6. QED
  BY <1>1, <1>2, <1>3, <1>4, <1>5, WindowSet

LEMMA ShownSetKeeps ==
    ASSUME WindowFine, NEW v \in {"normal", "pageBreaks"}, Window!SetView(v)
    PROVE  WindowFine'
<1> USE DEF WindowFine, Window!WindowOK, Window!SetView, Window!PutFrame
<1>1. Window!WindowOK'
  BY DEF Window!OnOff, Window!Rect
<1>2. asked' = {a \in asked : a.what \notin {"view"} \cup {}} \cup {[what |-> "view", value |-> v]}
  BY DEF Window!Wrote, Window!WroteOver, Window!Except
<1>3. \A u \in Window!WindowWhats \ ({"view"} \cup {}) :
        Window!WindowRead(u)' = Window!WindowRead(u)
  BY WindowReads, WindowReadsNext
     DEF Window!WindowWhats, Window!Views, Window!Rect, Window!Splits, Window!GetCaption,
         Window!GetZoom, Window!GetFreezePanes, Window!GetSplit, Window!GetScreenUpdating,
         Window!GetCalculation
<1>4. "view" \in Window!WindowWhats
  BY DEF Window!WindowWhats
<1>5. Window!WindowLoses([what |-> "view", value |-> v]) \/ Window!WindowRead("view")' = v
  BY WindowReadsNext
     DEF Window!WindowLoses, Window!OnOff, Window!GetCaption, Window!GetZoom, Window!GetFreezePanes,
         Window!GetSplit, Window!GetScreenUpdating, Window!GetCalculation
<1>6. QED
  BY <1>1, <1>2, <1>3, <1>4, <1>5, WindowSet

LEMMA SplitAtIs ==
    ASSUME NEW mode \in {"split", "frozen"}, NEW c \in Nat, NEW r \in Nat
    PROVE  LET s == Window!At(mode, c, r)
           IN  /\ s \in [mode : {"none", "split", "frozen"}, column : Nat, row : Nat]
               /\ s.mode # "none" => s.column # 0 \/ s.row # 0
               /\ s.column = c /\ s.row = r
               /\ c # 0 \/ r # 0 => s.mode = mode
               /\ c = 0 /\ r = 0 => s.mode = "none"
  BY DEF Window!At

LEMMA FreezeKeeps ==
    ASSUME WindowFine, NEW b \in Window!OnOff, Window!SetFreezePanes(b)
    PROVE  WindowFine'
<1> DEFINE C == {"freezePanes"} \cup Window!Splits
<1> USE DEF WindowFine, Window!WindowOK, Window!SetFreezePanes, Window!PutSplit
<1>1. PICK c \in Nat, r \in Nat : (c # 0 \/ r # 0) /\ split' = Window!At("frozen", c, r)
  <2>1. CASE split.mode = "split"
    BY <2>1
  <2>2. CASE split.mode # "split"
    <3>1. (Window!PageColumns - 1) \div 2 = 4 /\ (Window!PageRows - 1) \div 2 = 9
      BY DEF Window!PageColumns, Window!PageRows
    <3>2. first.column \in Nat /\ first.row \in Nat
      OBVIOUS
    <3>3. split' = Window!At("frozen", first.column + 4, first.row + 9)
      BY <2>2, <3>1
    <3>4. first.column + 4 \in Nat /\ first.row + 9 \in Nat /\ first.row + 9 # 0
      BY <3>2
    <3>5. QED
      BY <3>3, <3>4
  <2>3. QED
    BY <2>1, <2>2
<1>2. UNCHANGED <<view, first, frame, office>>
  OBVIOUS
<1>3. split'.mode = "frozen" /\ Window!WindowOK'
  <2>1. /\ split' \in [mode : {"none", "split", "frozen"}, column : Nat, row : Nat]
        /\ split'.mode # "none" => split'.column # 0 \/ split'.row # 0
        /\ split'.mode = "frozen"
    BY <1>1, SplitAtIs
  <2>2. QED
    BY <1>2, <2>1 DEF Window!Rect, Window!InSheet
<1>4. asked' = {a \in asked : a.what \notin C} \cup {[what |-> "freezePanes", value |-> b]}
  BY DEF Window!WroteAtCost, Window!WroteOver, Window!Except
<1>5. \A u \in Window!WindowWhats \ C : Window!WindowRead(u)' = Window!WindowRead(u)
  BY WindowReads, WindowReadsNext
     DEF Window!WindowWhats, Window!Views, Window!Rect, Window!Splits, Window!GetCaption,
         Window!GetZoom, Window!GetFreezePanes, Window!GetSplit, Window!GetScreenUpdating,
         Window!GetCalculation
<1>6. "freezePanes" \in Window!WindowWhats
  BY DEF Window!WindowWhats
<1>7. Window!WindowLoses([what |-> "freezePanes", value |-> b])
        \/ Window!WindowRead("freezePanes")' = b
  BY <1>3, WindowReadsNext DEF Window!WindowLoses, Window!OnOff, Window!GetFreezePanes
<1> HIDE DEF C
<1>8. QED
  BY <1>3, <1>4, <1>5, <1>6, <1>7, WindowSet

LEMMA SplitOnKeeps ==
    ASSUME WindowFine, NEW n \in Nat \ {0}, Window!SetSplit("on", n, n), n # 1
    PROVE  WindowFine'
<1> DEFINE C == {"split"} \cup (Window!Splits \cup {"freezePanes"})
<1> USE DEF WindowFine, Window!WindowOK, Window!SetSplit, Window!SplitAtDefinedPosition,
        Window!SplitAt, Window!PutSplit
<1>1. PICK mode \in {"split", "frozen"} : split' = Window!At("split", n - 1, n - 1)
  OBVIOUS
<1>2. Window!WindowOK' /\ split'.mode = "split"
  BY <1>1, SplitAtIs DEF Window!Rect
<1>3. asked' = {a \in asked : a.what \notin C} \cup {[what |-> "split", value |-> "on"]}
  BY DEF Window!WroteOver, Window!Except
<1>4. \A u \in Window!WindowWhats \ C : Window!WindowRead(u)' = Window!WindowRead(u)
  BY <1>2, WindowReads, WindowReadsNext
     DEF Window!WindowWhats, Window!Views, Window!Rect, Window!Splits, Window!GetCaption,
         Window!GetZoom, Window!GetFreezePanes, Window!GetSplit, Window!GetScreenUpdating,
         Window!GetCalculation
<1>5. "split" \in Window!WindowWhats
  BY DEF Window!WindowWhats, Window!Splits
<1>6. Window!WindowLoses([what |-> "split", value |-> "on"]) \/ Window!WindowRead("split")' = "on"
  BY <1>2, WindowReadsNext DEF Window!WindowLoses, Window!OnOff, Window!GetSplit
<1> HIDE DEF C
<1>7. QED
  BY <1>2, <1>3, <1>4, <1>5, <1>6, WindowSet

LEMMA SplitOffKeeps ==
    ASSUME WindowFine, NEW n \in Nat, Window!SetSplit("off", n, n)
    PROVE  WindowFine'
<1> DEFINE C == {"split"} \cup (Window!Splits \cup {"freezePanes"})
<1> USE DEF WindowFine, Window!WindowOK, Window!SetSplit, Window!SplitAtDefinedPosition,
        Window!SplitAt, Window!PutSplit
<1>1. PICK mode \in {"split", "frozen"} : split' = Window!At("split", 0, 0)
  OBVIOUS
<1>2. Window!WindowOK' /\ split'.mode = "none"
  BY <1>1, SplitAtIs DEF Window!Rect
<1>3. asked' = {a \in asked : a.what \notin C} \cup {[what |-> "split", value |-> "off"]}
  BY DEF Window!WroteOver, Window!Except
<1>4. \A u \in Window!WindowWhats \ C : Window!WindowRead(u)' = Window!WindowRead(u)
  BY <1>2, WindowReads, WindowReadsNext
     DEF Window!WindowWhats, Window!Views, Window!Rect, Window!Splits, Window!GetCaption,
         Window!GetZoom, Window!GetFreezePanes, Window!GetSplit, Window!GetScreenUpdating,
         Window!GetCalculation
<1>5. "split" \in Window!WindowWhats
  BY DEF Window!WindowWhats, Window!Splits
<1>6. Window!WindowLoses([what |-> "split", value |-> "off"]) \/ Window!WindowRead("split")' = "off"
  BY <1>2, WindowReadsNext DEF Window!WindowLoses, Window!OnOff, Window!GetSplit
<1> HIDE DEF C
<1>7. QED
  BY <1>2, <1>3, <1>4, <1>5, <1>6, WindowSet

LEMMA SplitFirstKeeps ==
    ASSUME WindowFine, Window!SetSplit("on", 1, 1)
    PROVE  WindowFine'
<1> USE DEF WindowFine, Window!WindowOK, Window!SetSplit, Window!At,
        Window!SplitAtDefinedPosition, Window!SplitAt, Window!PutSplit
<1>1. Window!WindowOK'
  BY DEF Window!OnOff, Window!Rect
<1>2. asked' = {a \in asked : a.what \notin (Window!Splits \cup {"freezePanes"})}
  BY DEF Window!Clobbers, Window!Changes, Window!Except
<1>3. \A u \in Window!WindowWhats \ ((Window!Splits \cup {"freezePanes"})) :
        Window!WindowRead(u)' = Window!WindowRead(u)
  BY WindowReads, WindowReadsNext
     DEF Window!WindowWhats, Window!Views, Window!Rect, Window!Splits, Window!GetCaption,
         Window!GetZoom, Window!GetFreezePanes, Window!GetSplit, Window!GetScreenUpdating,
         Window!GetCalculation
<1>4. QED
  BY <1>1, <1>2, <1>3, WindowOther

LEMMA SplitColumnKeeps ==
    ASSUME WindowFine, NEW n \in Nat, Window!SetSplitColumn(n), n # split.column
    PROVE  WindowFine'
<1> DEFINE C == {"splitColumn"} \cup {"split", "freezePanes"}
<1> USE DEF WindowFine, Window!WindowOK, Window!SetSplitColumn, Window!GetSplitColumn,
        Window!SplitAtDefinedPosition, Window!SplitAt, Window!PutSplit
<1>1. PICK mode \in {"split", "frozen"} : split' = Window!At(mode, n, split.row)
  OBVIOUS
<1>2. Window!WindowOK' /\ split'.column = n /\ split'.row = split.row
  BY <1>1, SplitAtIs DEF Window!Rect
<1>3. asked' = {a \in asked : a.what \notin C} \cup {[what |-> "splitColumn", value |-> n]}
  BY DEF Window!WroteOver, Window!Except
<1>4. \A u \in Window!WindowWhats \ C : Window!WindowRead(u)' = Window!WindowRead(u)
  BY <1>2, WindowReads, WindowReadsNext
     DEF Window!WindowWhats, Window!Views, Window!Rect, Window!Splits, Window!GetCaption,
         Window!GetZoom, Window!GetFreezePanes, Window!GetSplit, Window!GetScreenUpdating,
         Window!GetCalculation
<1>5. "splitColumn" \in Window!WindowWhats
  BY DEF Window!WindowWhats, Window!Splits
<1>6. Window!WindowLoses([what |-> "splitColumn", value |-> n])
        \/ Window!WindowRead("splitColumn")' = n
  BY <1>2, WindowReadsNext DEF Window!WindowLoses, Window!OnOff, Window!GetSplit
<1> HIDE DEF C
<1>7. QED
  BY <1>2, <1>3, <1>4, <1>5, <1>6, WindowSet

LEMMA SplitColumnStaysKeeps ==
    ASSUME WindowFine, NEW n \in Nat, Window!SetSplitColumn(n), n = split.column
    PROVE  WindowFine'
<1> DEFINE C == {"splitColumn"} \cup {}
<1>1. UNCHANGED windowVars /\ Window!Wrote("splitColumn", n)
  BY DEF Window!SetSplitColumn, Window!GetSplitColumn, Window!windowVars, windowVars
<1>2. Window!WindowOK' /\ \A u \in Window!WindowWhats : Window!WindowRead(u)' = Window!WindowRead(u)
  BY <1>1, WindowSame
<1>3. asked' = {a \in asked : a.what \notin C} \cup {[what |-> "splitColumn", value |-> n]}
  BY <1>1 DEF Window!Wrote, Window!WroteOver, Window!Except
<1>4. "splitColumn" \in Window!WindowWhats /\ Window!WindowRead("splitColumn")' = n
  BY <1>2, WindowReads DEF Window!WindowWhats, Window!Splits
<1> HIDE DEF C
<1>5. QED
  BY <1>2, <1>3, <1>4, WindowSet

LEMMA SplitRowKeeps ==
    ASSUME WindowFine, NEW n \in Nat, Window!SetSplitRow(n), n # split.row
    PROVE  WindowFine'
<1> DEFINE C == {"splitRow"} \cup {"split", "freezePanes"}
<1> USE DEF WindowFine, Window!WindowOK, Window!SetSplitRow, Window!GetSplitRow,
        Window!SplitAtDefinedPosition, Window!SplitAt, Window!PutSplit
<1>1. PICK mode \in {"split", "frozen"} : split' = Window!At(mode, split.column, n)
  OBVIOUS
<1>2. Window!WindowOK' /\ split'.row = n /\ split'.column = split.column
  BY <1>1, SplitAtIs DEF Window!Rect
<1>3. asked' = {a \in asked : a.what \notin C} \cup {[what |-> "splitRow", value |-> n]}
  BY DEF Window!WroteOver, Window!Except
<1>4. \A u \in Window!WindowWhats \ C : Window!WindowRead(u)' = Window!WindowRead(u)
  BY <1>2, WindowReads, WindowReadsNext
     DEF Window!WindowWhats, Window!Views, Window!Rect, Window!Splits, Window!GetCaption,
         Window!GetZoom, Window!GetFreezePanes, Window!GetSplit, Window!GetScreenUpdating,
         Window!GetCalculation
<1>5. "splitRow" \in Window!WindowWhats
  BY DEF Window!WindowWhats, Window!Splits
<1>6. Window!WindowLoses([what |-> "splitRow", value |-> n]) \/ Window!WindowRead("splitRow")' = n
  BY <1>2, WindowReadsNext DEF Window!WindowLoses, Window!OnOff, Window!GetSplit
<1> HIDE DEF C
<1>7. QED
  BY <1>2, <1>3, <1>4, <1>5, <1>6, WindowSet

LEMMA SplitRowStaysKeeps ==
    ASSUME WindowFine, NEW n \in Nat, Window!SetSplitRow(n), n = split.row
    PROVE  WindowFine'
<1> DEFINE C == {"splitRow"} \cup {}
<1>1. UNCHANGED windowVars /\ Window!Wrote("splitRow", n)
  BY DEF Window!SetSplitRow, Window!GetSplitRow, Window!windowVars, windowVars
<1>2. Window!WindowOK' /\ \A u \in Window!WindowWhats : Window!WindowRead(u)' = Window!WindowRead(u)
  BY <1>1, WindowSame
<1>3. asked' = {a \in asked : a.what \notin C} \cup {[what |-> "splitRow", value |-> n]}
  BY <1>1 DEF Window!Wrote, Window!WroteOver, Window!Except
<1>4. "splitRow" \in Window!WindowWhats /\ Window!WindowRead("splitRow")' = n
  BY <1>2, WindowReads DEF Window!WindowWhats, Window!Splits
<1> HIDE DEF C
<1>5. QED
  BY <1>2, <1>3, <1>4, WindowSet

LEMMA HorizontalSplitKeeps ==
    ASSUME WindowFine, NEW n \in Nat, Window!SetSplitHorizontal(n)
    PROVE  WindowFine'
<1> DEFINE C == {"splitColumn"} \cup (Window!Splits \cup {"freezePanes"})
<1> USE DEF WindowFine, Window!WindowOK, Window!SetSplitHorizontal,
        Window!SplitAtDefinedPosition, Window!SplitAt, Window!PutSplit
<1>1. PICK mode \in {"split", "frozen"} : split' = Window!At("split", n, 0)
  OBVIOUS
<1>2. Window!WindowOK' /\ split'.column = n
  BY <1>1, SplitAtIs DEF Window!Rect
<1>3. asked' = {a \in asked : a.what \notin C} \cup {[what |-> "splitColumn", value |-> n]}
  BY DEF Window!WroteAtCost, Window!WroteOver, Window!Except
<1>4. \A u \in Window!WindowWhats \ C : Window!WindowRead(u)' = Window!WindowRead(u)
  BY <1>2, WindowReads, WindowReadsNext
     DEF Window!WindowWhats, Window!Views, Window!Rect, Window!Splits, Window!GetCaption,
         Window!GetZoom, Window!GetFreezePanes, Window!GetSplit, Window!GetScreenUpdating,
         Window!GetCalculation
<1>5. "splitColumn" \in Window!WindowWhats
  BY DEF Window!WindowWhats, Window!Splits
<1>6. Window!WindowLoses([what |-> "splitColumn", value |-> n])
        \/ Window!WindowRead("splitColumn")' = n
  BY <1>2, WindowReadsNext DEF Window!WindowLoses, Window!OnOff, Window!GetSplit
<1> HIDE DEF C
<1>7. QED
  BY <1>2, <1>3, <1>4, <1>5, <1>6, WindowSet

LEMMA VerticalSplitKeeps ==
    ASSUME WindowFine, NEW n \in Nat, Window!SetSplitVertical(n)
    PROVE  WindowFine'
<1> DEFINE C == {"splitRow"} \cup (Window!Splits \cup {"freezePanes"})
<1> USE DEF WindowFine, Window!WindowOK, Window!SetSplitVertical, Window!SplitAtDefinedPosition,
        Window!SplitAt, Window!PutSplit
<1>1. PICK mode \in {"split", "frozen"} : split' = Window!At("split", 0, n)
  OBVIOUS
<1>2. Window!WindowOK' /\ split'.row = n
  BY <1>1, SplitAtIs DEF Window!Rect
<1>3. asked' = {a \in asked : a.what \notin C} \cup {[what |-> "splitRow", value |-> n]}
  BY DEF Window!WroteAtCost, Window!WroteOver, Window!Except
<1>4. \A u \in Window!WindowWhats \ C : Window!WindowRead(u)' = Window!WindowRead(u)
  BY <1>2, WindowReads, WindowReadsNext
     DEF Window!WindowWhats, Window!Views, Window!Rect, Window!Splits, Window!GetCaption,
         Window!GetZoom, Window!GetFreezePanes, Window!GetSplit, Window!GetScreenUpdating,
         Window!GetCalculation
<1>5. "splitRow" \in Window!WindowWhats
  BY DEF Window!WindowWhats, Window!Splits
<1>6. Window!WindowLoses([what |-> "splitRow", value |-> n]) \/ Window!WindowRead("splitRow")' = n
  BY <1>2, WindowReadsNext DEF Window!WindowLoses, Window!OnOff, Window!GetSplit
<1> HIDE DEF C
<1>7. QED
  BY <1>2, <1>3, <1>4, <1>5, <1>6, WindowSet

LEMMA ScrollRowSetKeeps ==
    ASSUME WindowFine, NEW n \in {1, 30}, Window!SetScrollRow(n)
    PROVE  WindowFine'
<1> USE DEF WindowFine, Window!WindowOK, Window!SetScrollRow, Window!PutFirst, Window!AtLeast
<1>1. Window!WindowOK'
  BY DEF Window!InSheet, Window!Rect, Window!MaxRow, Window!MaxColumn, Window!OnOff
<1>2. asked' = {a \in asked : a.what \notin {"scrollRow"} \cup {}}
        \cup {[what |-> "scrollRow", value |-> n]}
  BY DEF Window!Wrote, Window!WroteOver, Window!Except
<1>3. \A u \in Window!WindowWhats \ ({"scrollRow"} \cup {}) :
        Window!WindowRead(u)' = Window!WindowRead(u)
  BY WindowReads, WindowReadsNext
     DEF Window!WindowWhats, Window!Views, Window!Rect, Window!Splits, Window!GetCaption,
         Window!GetZoom, Window!GetFreezePanes, Window!GetSplit, Window!GetScreenUpdating,
         Window!GetCalculation
<1>4. "scrollRow" \in Window!WindowWhats
  BY DEF Window!WindowWhats, Window!Splits
<1>5. Window!WindowLoses([what |-> "scrollRow", value |-> n]) \/ Window!WindowRead("scrollRow")' = n
  BY WindowReadsNext
     DEF Window!WindowLoses, Window!OnOff, Window!GetCaption, Window!GetZoom, Window!GetFreezePanes,
         Window!GetSplit, Window!GetScreenUpdating, Window!GetCalculation
<1>6. QED
  BY <1>1, <1>2, <1>3, <1>4, <1>5, WindowSet

LEMMA ScrollColumnSetKeeps ==
    ASSUME WindowFine, NEW n \in {1, 30}, Window!SetScrollColumn(n)
    PROVE  WindowFine'
<1> USE DEF WindowFine, Window!WindowOK, Window!SetScrollColumn, Window!PutFirst, Window!AtLeast
<1>1. Window!WindowOK'
  BY DEF Window!InSheet, Window!Rect, Window!MaxRow, Window!MaxColumn, Window!OnOff
<1>2. asked' = {a \in asked : a.what \notin {"scrollColumn"} \cup {}}
        \cup {[what |-> "scrollColumn", value |-> n]}
  BY DEF Window!Wrote, Window!WroteOver, Window!Except
<1>3. \A u \in Window!WindowWhats \ ({"scrollColumn"} \cup {}) :
        Window!WindowRead(u)' = Window!WindowRead(u)
  BY WindowReads, WindowReadsNext
     DEF Window!WindowWhats, Window!Views, Window!Rect, Window!Splits, Window!GetCaption,
         Window!GetZoom, Window!GetFreezePanes, Window!GetSplit, Window!GetScreenUpdating,
         Window!GetCalculation
<1>4. "scrollColumn" \in Window!WindowWhats
  BY DEF Window!WindowWhats, Window!Splits
<1>5. Window!WindowLoses([what |-> "scrollColumn", value |-> n])
        \/ Window!WindowRead("scrollColumn")' = n
  BY WindowReadsNext
     DEF Window!WindowLoses, Window!OnOff, Window!GetCaption, Window!GetZoom, Window!GetFreezePanes,
         Window!GetSplit, Window!GetScreenUpdating, Window!GetCalculation
<1>6. QED
  BY <1>1, <1>2, <1>3, <1>4, <1>5, WindowSet

LEMMA SmallScrollKeeps ==
    ASSUME WindowFine, NEW down \in Int, NEW up \in Int, NEW right \in Int, NEW left \in Int,
           Window!SmallScroll(down, up, right, left)
    PROVE  WindowFine'
<1> USE DEF WindowFine, Window!WindowOK, Window!SmallScroll, Window!InSheet, Window!Scrolled,
        Window!PutFirst, Window!AtLeast
<1>1. Window!WindowOK'
  BY DEF Window!InSheet, Window!Rect, Window!MaxRow, Window!MaxColumn, Window!OnOff
<1>2. asked' = {a \in asked : a.what \notin {"scrollRow", "scrollColumn"}}
  BY DEF Window!Changes, Window!Except
<1>3. \A u \in Window!WindowWhats \ {"scrollRow", "scrollColumn"} :
        Window!WindowRead(u)' = Window!WindowRead(u)
  BY WindowReads, WindowReadsNext
     DEF Window!WindowWhats, Window!Views, Window!Rect, Window!Splits, Window!GetCaption,
         Window!GetZoom, Window!GetFreezePanes, Window!GetSplit, Window!GetScreenUpdating,
         Window!GetCalculation
<1>4. QED
  BY <1>1, <1>2, <1>3, WindowOther

LEMMA Int16Is ==
    ASSUME NEW n \in Nat, n < 65536
    PROVE  Window!Int16(n) = IF n < 32768 THEN n ELSE n - 65536
<1>1. CASE n < 32768
  <2>1. (n + 32768) % 65536 = n + 32768
    BY <1>1
  <2>2. QED
    BY <1>1, <2>1 DEF Window!Int16
<1>2. CASE ~(n < 32768)
  <2>1. (n + 32768) % 65536 = n + 32768 - 65536
    BY <1>2
  <2>2. QED
    BY <1>2, <2>1 DEF Window!Int16
<1>3. QED
  BY <1>1, <1>2

LEMMA GoToKeeps ==
    ASSUME WindowFine, NEW row \in {1, 30, 40000}, Window!GoTo(row)
    PROVE  WindowFine'
<1> DEFINE C == {"scrollRow"} \cup {"scrollColumn"}
<1> USE DEF WindowFine, Window!WindowOK
<1>1. PICK shown \in {first.row, row - 1} :
          LET to == Window!AtLeast(shown + Window!Int16(row - 1) - Window!Int16(shown), 0)
          IN  /\ to < Window!MaxRow
              /\ Window!PutFirst([row |-> to, column |-> 0])
  BY DEF Window!GoTo
<1> DEFINE to == Window!AtLeast(shown + Window!Int16(row - 1) - Window!Int16(shown), 0)
<1>2. /\ shown \in Nat /\ shown < 65536 /\ row - 1 \in Nat /\ row - 1 < 65536
      /\ Window!MaxRow = 65536 /\ 0 < Window!MaxColumn
  BY DEF Window!MaxRow, Window!MaxColumn, Window!InSheet
<1>3. /\ Window!Int16(row - 1) = IF row - 1 < 32768 THEN row - 1 ELSE row - 1 - 65536
      /\ Window!Int16(shown) = IF shown < 32768 THEN shown ELSE shown - 65536
  BY <1>2, Int16Is
<1>4. to \in Nat /\ to < 65536 /\ (row <= 32768 => to = row - 1)
  BY <1>1, <1>2, <1>3 DEF Window!AtLeast
<1>5. first' = [row |-> to, column |-> 0] /\ UNCHANGED <<view, split, frame, office>>
  BY <1>1 DEF Window!PutFirst
<1> HIDE DEF to
<1>6. Window!WindowOK'
  BY <1>2, <1>4, <1>5 DEF Window!InSheet, Window!Rect
<1>7. asked' = {a \in asked : a.what \notin C} \cup {[what |-> "scrollRow", value |-> row]}
  BY DEF Window!GoTo, Window!WroteOver, Window!Except
<1>8. \A u \in Window!WindowWhats \ C : Window!WindowRead(u)' = Window!WindowRead(u)
  BY <1>5, WindowReads, WindowReadsNext
     DEF Window!WindowWhats, Window!Views, Window!Rect, Window!Splits, Window!GetCaption,
         Window!GetZoom, Window!GetFreezePanes, Window!GetSplit, Window!GetScreenUpdating,
         Window!GetCalculation
<1>9. "scrollRow" \in Window!WindowWhats
  BY DEF Window!WindowWhats
<1>10. Window!WindowLoses([what |-> "scrollRow", value |-> row])
         \/ Window!WindowRead("scrollRow")' = row
  BY <1>4, <1>5, WindowReadsNext DEF Window!WindowLoses
<1> HIDE DEF C
<1>11. QED
  BY <1>6, <1>7, <1>8, <1>9, <1>10, WindowSet

LEMMA LockSetKeeps ==
    ASSUME WindowFine, NEW b \in Window!OnOff, Window!SetScreenUpdating(b),
           ~(b = "on" /\ office.locks > 1)
    PROVE  WindowFine'
<1> USE DEF WindowFine, Window!WindowOK, Window!SetScreenUpdating, Window!AtLeast, Window!PutOffice
<1>1. Window!WindowOK'
  BY DEF Window!OnOff, Window!Rect
<1>2. asked' = {a \in asked : a.what \notin {"screenUpdating"} \cup {}}
        \cup {[what |-> "screenUpdating", value |-> b]}
  BY DEF Window!Wrote, Window!WroteOver, Window!Except
<1>3. \A u \in Window!WindowWhats \ ({"screenUpdating"} \cup {}) :
        Window!WindowRead(u)' = Window!WindowRead(u)
  BY WindowReads, WindowReadsNext
     DEF Window!WindowWhats, Window!Views, Window!Rect, Window!Splits, Window!GetCaption,
         Window!GetZoom, Window!GetFreezePanes, Window!GetSplit, Window!GetScreenUpdating,
         Window!GetCalculation
<1>4. "screenUpdating" \in Window!WindowWhats
  BY DEF Window!WindowWhats, Window!Splits
<1>5. Window!WindowLoses([what |-> "screenUpdating", value |-> b])
        \/ Window!WindowRead("screenUpdating")' = b
  BY WindowReadsNext
     DEF Window!WindowLoses, Window!OnOff, Window!GetCaption, Window!GetZoom, Window!GetFreezePanes,
         Window!GetSplit, Window!GetScreenUpdating, Window!GetCalculation
<1>6. QED
  BY <1>1, <1>2, <1>3, <1>4, <1>5, WindowSet

LEMMA LockStaysKeeps ==
    ASSUME WindowFine, Window!SetScreenUpdating("on"), office.locks > 1
    PROVE  WindowFine'
<1> USE DEF WindowFine, Window!WindowOK, Window!SetScreenUpdating, Window!AtLeast, Window!PutOffice
<1>1. Window!WindowOK'
  BY DEF Window!OnOff, Window!Rect
<1>2. asked' = {a \in asked : a.what \notin {"screenUpdating"}}
  BY DEF Window!Clobbers, Window!Changes, Window!Except
<1>3. \A u \in Window!WindowWhats \ {"screenUpdating"} :
        Window!WindowRead(u)' = Window!WindowRead(u)
  BY WindowReads, WindowReadsNext
     DEF Window!WindowWhats, Window!Views, Window!Rect, Window!Splits, Window!GetCaption,
         Window!GetZoom, Window!GetFreezePanes, Window!GetSplit, Window!GetScreenUpdating,
         Window!GetCalculation
<1>4. QED
  BY <1>1, <1>2, <1>3, WindowOther

LEMMA BarSetKeeps ==
    ASSUME WindowFine, NEW b \in Window!OnOff, Window!SetDisplayStatusBar(b)
    PROVE  WindowFine'
<1> USE DEF WindowFine, Window!WindowOK, Window!SetDisplayStatusBar, Window!PutOffice
<1>1. Window!WindowOK'
  BY DEF Window!OnOff, Window!Rect
<1>2. asked' = {a \in asked : a.what \notin {"statusBar"} \cup {}}
        \cup {[what |-> "statusBar", value |-> b]}
  BY DEF Window!Wrote, Window!WroteOver, Window!Except
<1>3. \A u \in Window!WindowWhats \ ({"statusBar"} \cup {}) :
        Window!WindowRead(u)' = Window!WindowRead(u)
  BY WindowReads, WindowReadsNext
     DEF Window!WindowWhats, Window!Views, Window!Rect, Window!Splits, Window!GetCaption,
         Window!GetZoom, Window!GetFreezePanes, Window!GetSplit, Window!GetScreenUpdating,
         Window!GetCalculation
<1>4. "statusBar" \in Window!WindowWhats
  BY DEF Window!WindowWhats, Window!Splits
<1>5. Window!WindowLoses([what |-> "statusBar", value |-> b]) \/ Window!WindowRead("statusBar")' = b
  BY WindowReadsNext
     DEF Window!WindowLoses, Window!OnOff, Window!GetCaption, Window!GetZoom, Window!GetFreezePanes,
         Window!GetSplit, Window!GetScreenUpdating, Window!GetCalculation
<1>6. QED
  BY <1>1, <1>2, <1>3, <1>4, <1>5, WindowSet

LEMMA BarTextKeeps ==
    ASSUME WindowFine, NEW v, Window!SetStatusBar(v), v # "on"
    PROVE  WindowFine'
<1> DEFINE C == {"statusBar"}
           text == IF v = "off" THEN "" ELSE v
<1> USE DEF WindowFine, Window!WindowOK
<1>1. /\ office' = [office EXCEPT !.bar = "on", !.text = text]
      /\ UNCHANGED <<view, split, first, frame>>
  BY DEF Window!SetStatusBar, Window!PutOffice
<1>2. asked' = {a \in asked : a.what \notin C}
  BY DEF Window!SetStatusBar, Window!Clobbers, Window!Changes, Window!Except
<1> HIDE DEF C, text
<1>3. Window!WindowOK'
  BY <1>1 DEF Window!Rect
<1>4. \A u \in Window!WindowWhats \ C : Window!WindowRead(u)' = Window!WindowRead(u)
  BY <1>1, WindowReads, WindowReadsNext
     DEF C, Window!WindowWhats, Window!Views, Window!Rect, Window!Splits, Window!GetCaption,
         Window!GetZoom, Window!GetFreezePanes, Window!GetSplit, Window!GetScreenUpdating,
         Window!GetCalculation
<1>5. QED
  BY <1>2, <1>3, <1>4, WindowOther

LEMMA CalculationSetKeeps ==
    ASSUME WindowFine, NEW v \in {"automatic", "semiautomatic", "manual"}, Window!SetCalculation(v)
    PROVE  WindowFine'
<1> USE DEF WindowFine, Window!WindowOK, Window!SetCalculation, Window!PutOffice
<1>1. Window!WindowOK'
  BY DEF Window!OnOff, Window!Rect
<1>2. asked' = {a \in asked : a.what \notin {"calculation"} \cup {"enableCalculation"}}
        \cup {[what |-> "calculation", value |-> v]}
  BY DEF Window!Wrote, Window!WroteAtCost, Window!WroteOver, Window!Except
<1>3. \A u \in Window!WindowWhats \ ({"calculation"} \cup {"enableCalculation"}) :
        Window!WindowRead(u)' = Window!WindowRead(u)
  BY WindowReads, WindowReadsNext
     DEF Window!WindowWhats, Window!Views, Window!Rect, Window!Splits, Window!GetCaption,
         Window!GetZoom, Window!GetFreezePanes, Window!GetSplit, Window!GetScreenUpdating,
         Window!GetCalculation
<1>4. "calculation" \in Window!WindowWhats
  BY DEF Window!WindowWhats, Window!Splits
<1>5. Window!WindowLoses([what |-> "calculation", value |-> v])
        \/ Window!WindowRead("calculation")' = v
  BY WindowReadsNext
     DEF Window!WindowLoses, Window!OnOff, Window!GetCaption, Window!GetZoom, Window!GetFreezePanes,
         Window!GetSplit, Window!GetScreenUpdating, Window!GetCalculation
<1>6. QED
  BY <1>1, <1>2, <1>3, <1>4, <1>5, WindowSet

LEMMA EnableSetKeeps ==
    ASSUME WindowFine, NEW b \in Window!OnOff, Window!SetEnableCalculation(b)
    PROVE  WindowFine'
<1> USE DEF WindowFine, Window!WindowOK, Window!SetEnableCalculation, Window!PutOffice
<1>1. Window!WindowOK'
  BY DEF Window!OnOff, Window!Rect
<1>2. asked' = {a \in asked : a.what \notin {"enableCalculation"} \cup {"calculation"}}
        \cup {[what |-> "enableCalculation", value |-> b]}
  BY DEF Window!Wrote, Window!WroteAtCost, Window!WroteOver, Window!Except
<1>3. \A u \in Window!WindowWhats \ ({"enableCalculation"} \cup {"calculation"}) :
        Window!WindowRead(u)' = Window!WindowRead(u)
  BY WindowReads, WindowReadsNext
     DEF Window!WindowWhats, Window!Views, Window!Rect, Window!Splits, Window!GetCaption,
         Window!GetZoom, Window!GetFreezePanes, Window!GetSplit, Window!GetScreenUpdating,
         Window!GetCalculation
<1>4. "enableCalculation" \in Window!WindowWhats
  BY DEF Window!WindowWhats, Window!Splits
<1>5. Window!WindowLoses([what |-> "enableCalculation", value |-> b])
        \/ Window!WindowRead("enableCalculation")' = b
  BY WindowReadsNext
     DEF Window!WindowLoses, Window!OnOff, Window!GetCaption, Window!GetZoom, Window!GetFreezePanes,
         Window!GetSplit, Window!GetScreenUpdating, Window!GetCalculation
<1>6. QED
  BY <1>1, <1>2, <1>3, <1>4, <1>5, WindowSet

LEMMA CursorSetKeeps ==
    ASSUME WindowFine, NEW v \in {"arrow", "wait", "default"}, Window!SetCursor(v)
    PROVE  WindowFine'
<1> USE DEF WindowFine, Window!WindowOK, Window!SetCursor, Window!PutOffice
<1>1. Window!WindowOK'
  BY DEF Window!OnOff, Window!Rect
<1>2. asked' = {a \in asked : a.what \notin {"cursor"} \cup {}}
        \cup {[what |-> "cursor", value |-> v]}
  BY DEF Window!Wrote, Window!WroteOver, Window!Except
<1>3. \A u \in Window!WindowWhats \ ({"cursor"} \cup {}) :
        Window!WindowRead(u)' = Window!WindowRead(u)
  BY WindowReads, WindowReadsNext
     DEF Window!WindowWhats, Window!Views, Window!Rect, Window!Splits, Window!GetCaption,
         Window!GetZoom, Window!GetFreezePanes, Window!GetSplit, Window!GetScreenUpdating,
         Window!GetCalculation
<1>4. "cursor" \in Window!WindowWhats
  BY DEF Window!WindowWhats, Window!Splits
<1>5. Window!WindowLoses([what |-> "cursor", value |-> v]) \/ Window!WindowRead("cursor")' = v
  BY WindowReadsNext
     DEF Window!WindowLoses, Window!OnOff, Window!GetCaption, Window!GetZoom, Window!GetFreezePanes,
         Window!GetSplit, Window!GetScreenUpdating, Window!GetCalculation
<1>6. QED
  BY <1>1, <1>2, <1>3, <1>4, <1>5, WindowSet

LEMMA PathSetKeeps ==
    ASSUME WindowFine, Window!SetDefaultFilePath("work")
    PROVE  WindowFine'
<1> USE DEF WindowFine, Window!WindowOK, Window!SetDefaultFilePath, Window!PutOffice
<1>1. Window!WindowOK'
  BY DEF Window!OnOff, Window!Rect
<1>2. asked' = {a \in asked : a.what \notin {"path"} \cup {}}
        \cup {[what |-> "path", value |-> "work"]}
  BY DEF Window!Wrote, Window!WroteOver, Window!Except
<1>3. \A u \in Window!WindowWhats \ ({"path"} \cup {}) :
        Window!WindowRead(u)' = Window!WindowRead(u)
  BY WindowReads, WindowReadsNext
     DEF Window!WindowWhats, Window!Views, Window!Rect, Window!Splits, Window!GetCaption,
         Window!GetZoom, Window!GetFreezePanes, Window!GetSplit, Window!GetScreenUpdating,
         Window!GetCalculation
<1>4. "path" \in Window!WindowWhats
  BY DEF Window!WindowWhats, Window!Splits
<1>5. Window!WindowLoses([what |-> "path", value |-> "work"]) \/ Window!WindowRead("path")' = "work"
  BY WindowReadsNext
     DEF Window!WindowLoses, Window!OnOff, Window!GetCaption, Window!GetZoom, Window!GetFreezePanes,
         Window!GetSplit, Window!GetScreenUpdating, Window!GetCalculation
<1>6. QED
  BY <1>1, <1>2, <1>3, <1>4, <1>5, WindowSet

LEMMA FormulaBarSetKeeps ==
    ASSUME WindowFine, NEW b \in Window!OnOff, Window!SetDisplayFormulaBar(b)
    PROVE  WindowFine'
<1> USE DEF WindowFine, Window!WindowOK, Window!SetDisplayFormulaBar, Window!windowVars,
        Window!PutOffice
<1>1. Window!WindowOK'
  BY DEF Window!OnOff, Window!Rect
<1>2. asked' = {a \in asked : a.what \notin {"formulaBar"} \cup {}}
        \cup {[what |-> "formulaBar", value |-> b]}
  BY DEF Window!Wrote, Window!WroteOver, Window!Except
<1>3. \A u \in Window!WindowWhats \ ({"formulaBar"} \cup {}) :
        Window!WindowRead(u)' = Window!WindowRead(u)
  BY WindowReads, WindowReadsNext
     DEF Window!WindowWhats, Window!Views, Window!Rect, Window!Splits, Window!GetCaption,
         Window!GetZoom, Window!GetFreezePanes, Window!GetSplit, Window!GetScreenUpdating,
         Window!GetCalculation
<1>4. "formulaBar" \in Window!WindowWhats
  BY DEF Window!WindowWhats, Window!Splits
<1>5. Window!WindowLoses([what |-> "formulaBar", value |-> b])
        \/ Window!WindowRead("formulaBar")' = b
  BY WindowReadsNext
     DEF Window!WindowLoses, Window!OnOff, Window!GetCaption, Window!GetZoom, Window!GetFreezePanes,
         Window!GetSplit, Window!GetScreenUpdating, Window!GetCalculation
<1>6. QED
  BY <1>1, <1>2, <1>3, <1>4, <1>5, WindowSet

LEMMA IgnoredSetKeeps ==
    ASSUME WindowFine, NEW w \in {"alerts", "cutCopy"}, NEW b \in Window!OnOff, Window!Ignored(w, b)
    PROVE  WindowFine'
<1> USE DEF WindowFine, Window!WindowOK, Window!Ignored, Window!windowVars
<1>1. Window!WindowOK'
  BY DEF Window!OnOff, Window!Rect
<1>2. asked' = {a \in asked : a.what \notin {w} \cup {}} \cup {[what |-> w, value |-> b]}
  BY DEF Window!Wrote, Window!WroteOver, Window!Except
<1>3. \A u \in Window!WindowWhats \ ({w} \cup {}) : Window!WindowRead(u)' = Window!WindowRead(u)
  BY WindowReads, WindowReadsNext
     DEF Window!WindowWhats, Window!Views, Window!Rect, Window!Splits, Window!GetCaption,
         Window!GetZoom, Window!GetFreezePanes, Window!GetSplit, Window!GetScreenUpdating,
         Window!GetCalculation
<1>4. w \in Window!WindowWhats
  BY DEF Window!WindowWhats, Window!Splits
<1>5. Window!WindowLoses([what |-> w, value |-> b]) \/ Window!WindowRead(w)' = b
  BY WindowReadsNext
     DEF Window!WindowLoses, Window!OnOff, Window!GetCaption, Window!GetZoom, Window!GetFreezePanes,
         Window!GetSplit, Window!GetScreenUpdating, Window!GetCalculation
<1>6. QED
  BY <1>1, <1>2, <1>3, <1>4, <1>5, WindowSet

LEMMA WindowSetsKeeps == ASSUME WindowFine, Window!SetsWindow PROVE WindowFine'
<1>1. ASSUME NEW v \in Window!Views, NEW b \in Window!OnOff, Window!SetDisplay(v, b)
      PROVE  WindowFine'
  BY <1>1, ViewSetKeeps
<1>2. ASSUME NEW t \in {"book", "mine"}, NEW s \in BOOLEAN, Window!SetCaption(t, s)
      PROVE  WindowFine'
  BY <1>2, CaptionSetKeeps
<1>3. ASSUME NEW v \in {"maximized", "minimized", "normal", "other"}, Window!SetWindowState(v)
      PROVE  WindowFine'
  <2>1. CASE v = "other"
    BY <1>3, <2>1, WindowRefused DEF Window!SetWindowState, Window!Throws, Window!windowVars,
       windowVars
  <2>2. CASE v \in {"maximized", "minimized", "normal"}
    BY <1>3, <2>2, StateSetKeeps
  <2>3. QED
    BY <1>3, <2>1, <2>2
<1>4. ASSUME NEW v \in {"normal", "pageBreaks", "other"}, Window!SetView(v) PROVE WindowFine'
  <2>1. CASE v = "other"
    BY <1>4, <2>1, WindowRefused DEF Window!SetView, Window!Throws, Window!windowVars, windowVars
  <2>2. CASE v \in {"normal", "pageBreaks"}
    BY <1>4, <2>2, ShownSetKeeps
  <2>3. QED
    BY <1>4, <2>1, <2>2
<1>5. ASSUME NEW v \in {"on", "off", "50"}, Window!SetZoom(v) PROVE WindowFine'
  BY <1>5, ZoomSetKeeps
<1>6. ASSUME NEW b \in Window!OnOff, Window!SetVisible(b) PROVE WindowFine'
  BY <1>6, VisibleSetKeeps
<1>7. ASSUME NEW b \in Window!OnOff, Window!SetFreezePanes(b) PROVE WindowFine'
  BY <1>7, FreezeKeeps
<1>8. ASSUME NEW b \in Window!OnOff, NEW n \in {1, 3}, Window!SetSplit(b, n, n) PROVE WindowFine'
  <2>1. CASE b = "off"
    BY <1>8, <2>1, SplitOffKeeps
  <2>2. CASE b = "on" /\ n = 1
    BY <1>8, <2>2, SplitFirstKeeps
  <2>3. CASE b = "on" /\ n = 3
    BY <1>8, <2>3, SplitOnKeeps
  <2>4. QED
    BY <1>8, <2>1, <2>2, <2>3 DEF Window!OnOff
<1>9. ASSUME NEW p \in Window!Rect, Window!SetPosSize(p, 100) PROVE WindowFine'
  BY <1>9, PosSizeSetKeeps
<1>10. ASSUME NEW n \in {0, 4}, Window!SetSplitColumn(n) PROVE WindowFine'
  BY <1>10, SplitColumnKeeps, SplitColumnStaysKeeps
<1>11. ASSUME NEW n \in {0, 4}, Window!SetSplitRow(n) PROVE WindowFine'
  BY <1>11, SplitRowKeeps, SplitRowStaysKeeps
<1>12. ASSUME NEW n \in {0, 4}, Window!SetSplitHorizontal(n) PROVE WindowFine'
  BY <1>12, HorizontalSplitKeeps
<1>13. ASSUME NEW n \in {0, 4}, Window!SetSplitVertical(n) PROVE WindowFine'
  BY <1>13, VerticalSplitKeeps
<1>14. QED
  BY <1>1, <1>2, <1>3, <1>4, <1>5, <1>6, <1>7, <1>8, <1>9, <1>10, <1>11, <1>12, <1>13
     DEF Window!SetsWindow

LEMMA ScrollsKeeps == ASSUME WindowFine, Window!Scrolls PROVE WindowFine'
<1>1. ASSUME NEW n \in {1, 30}, Window!SetScrollRow(n) PROVE WindowFine'
  BY <1>1, ScrollRowSetKeeps
<1>2. ASSUME NEW n \in {1, 30}, Window!SetScrollColumn(n) PROVE WindowFine'
  BY <1>2, ScrollColumnSetKeeps
<1>3. ASSUME UNCHANGED windowVars, Window!Throws PROVE WindowFine'
  BY <1>3, WindowRefused DEF Window!Throws
<1>4. ASSUME NEW n \in {0, 30}, Window!SetPaneRow(n) PROVE WindowFine'
  BY <1>1, <1>3, <1>4 DEF Window!SetPaneRow, Window!windowVars, windowVars
<1>5. ASSUME NEW n \in {0, 30}, Window!SetPaneColumn(n) PROVE WindowFine'
  BY <1>2, <1>3, <1>5 DEF Window!SetPaneColumn, Window!windowVars, windowVars
<1>6. ASSUME NEW d \in {0, 2}, NEW u \in {0, 2}, Window!SmallScroll(d, u, u, d) PROVE WindowFine'
  BY <1>6, SmallScrollKeeps
<1>7. ASSUME NEW d \in {0, 2}, NEW u \in {0, 2}, Window!LargeScroll(d, u, u, d) PROVE WindowFine'
  <2>1. /\ d * Window!PageRows \in Int /\ u * Window!PageRows \in Int
        /\ u * Window!PageColumns \in Int /\ d * Window!PageColumns \in Int
    BY DEF Window!PageRows, Window!PageColumns
  <2>2. QED
    BY <1>7, <2>1, SmallScrollKeeps DEF Window!LargeScroll
<1>8. ASSUME NEW row \in {1, 30, 40000}, Window!GoTo(row) PROVE WindowFine'
  BY <1>8, GoToKeeps
<1>9. ASSUME Window!GoToRefused PROVE WindowFine'
  BY <1>3, <1>9 DEF Window!GoToRefused, Window!windowVars, windowVars
<1>10. QED
  BY <1>1, <1>2, <1>4, <1>5, <1>6, <1>7, <1>8, <1>9 DEF Window!Scrolls

LEMMA ApplicationKeeps == ASSUME WindowFine, Window!SetsApplication PROVE WindowFine'
<1>1. ASSUME UNCHANGED Window!windowVars, Window!Throws \/ Window!Answers PROVE WindowFine'
  BY <1>1, WindowRefused DEF Window!Throws, Window!Answers, Window!windowVars, windowVars
<1>2. ASSUME NEW b \in Window!OnOff, Window!SetScreenUpdating(b) PROVE WindowFine'
  BY <1>2, LockSetKeeps, LockStaysKeeps
<1>3. ASSUME NEW b \in Window!OnOff, Window!SetDisplayStatusBar(b) PROVE WindowFine'
  BY <1>3, BarSetKeeps
<1>4. ASSUME NEW b \in Window!OnOff, Window!SetEnableCalculation(b) PROVE WindowFine'
  BY <1>4, EnableSetKeeps
<1>5. ASSUME NEW b \in Window!OnOff, Window!SetDisplayFormulaBar(b) PROVE WindowFine'
  BY <1>5, FormulaBarSetKeeps
<1>6. ASSUME NEW w \in {"alerts", "cutCopy"}, NEW b \in Window!OnOff, Window!Ignored(w, b)
      PROVE  WindowFine'
  BY <1>6, IgnoredSetKeeps
<1>7. ASSUME NEW v \in {"on", "off", "text"}, Window!SetStatusBar(v) PROVE WindowFine'
  <2>1. CASE v # "on"
    BY <1>7, <2>1, BarTextKeeps
  <2>2. CASE v = "on"
    <3>1. UNCHANGED Window!windowVars /\ Window!Answers
      BY <1>7, <2>2 DEF Window!SetStatusBar
    <3>2. QED
      BY <1>1, <3>1
  <2>3. QED
    BY <2>1, <2>2
<1>8. ASSUME NEW v \in {"automatic", "semiautomatic", "manual", "other"}, Window!SetCalculation(v)
      PROVE  WindowFine'
  <2>1. CASE v = "other"
    BY <1>1, <1>8, <2>1 DEF Window!SetCalculation
  <2>2. CASE v # "other"
    BY <1>8, <2>2, CalculationSetKeeps
  <2>3. QED
    BY <2>1, <2>2
<1>9. ASSUME NEW v \in {"arrow", "wait", "default", "other"}, Window!SetCursor(v) PROVE WindowFine'
  <2>1. CASE v = "other"
    BY <1>1, <1>9, <2>1 DEF Window!SetCursor
  <2>2. CASE v # "other"
    BY <1>9, <2>2, CursorSetKeeps
  <2>3. QED
    BY <2>1, <2>2
<1>10. ASSUME Window!SetDefaultFilePath("work") PROVE WindowFine'
  BY <1>10, PathSetKeeps
<1>11. ASSUME Window!StatusBarRefused PROVE WindowFine'
  BY <1>1, <1>11 DEF Window!StatusBarRefused
<1>12. QED
  BY <1>2, <1>3, <1>4, <1>5, <1>6, <1>7, <1>8, <1>9, <1>10, <1>11 DEF Window!SetsApplication

LEMMA WindowCallKeeps == ASSUME WindowFine, Window!WindowCall PROVE WindowFine'
  BY WindowSetsKeeps, ScrollsKeeps, ApplicationKeeps DEF Window!WindowCall

-----------------------------------------------------------------------------
(* The format of a range *)

LEMMA FormatReads ==
    /\ Format!FormatRead("vert") = Format!GetVerticalAlignment
    /\ Format!FormatRead("hori") = Format!GetHorizontalAlignment
    /\ Format!FormatRead("orient") = Format!GetOrientation
    /\ Format!FormatRead("wrap") = Format!GetWrapText
    /\ Format!FormatRead("number") = Format!GetNumberFormat
    /\ Format!FormatRead("numberLocal") = Format!GetNumberFormatLocal
    /\ Format!FormatRead("indent") = Format!GetIndentLevel
    /\ Format!FormatRead("locked") = Format!GetLocked
    /\ Format!FormatRead("hidden") = Format!GetFormulaHidden
    /\ Format!FormatRead("shrink") = Format!GetShrinkToFit
    /\ Format!FormatRead("mode") = Format!GetReadingOrder
    /\ Format!FormatRead("super") = Format!GetSuperscript
    /\ Format!FormatRead("sub") = Format!GetSubscript
    /\ Format!FormatRead("size") = Format!GetSize
    /\ Format!FormatRead("color") = Format!GetFontColor
    /\ Format!FormatRead("colorIndex") = Format!GetFontColorIndex
    /\ Format!FormatRead("bold") = Format!GetBold
    /\ Format!FormatRead("underline") = Format!GetUnderline
    /\ Format!FormatRead("strike") = Format!GetStrikethrough
    /\ Format!FormatRead("shadow") = Format!GetShadow
    /\ Format!FormatRead("italic") = Format!GetItalic
    /\ Format!FormatRead("name") = Format!GetName
    /\ Format!FormatRead("back") = Format!GetBackColor
    /\ Format!FormatRead("backIndex") = Format!GetBackColorIndex
    /\ Format!FormatRead("left.color") = Format!GetLineColor
    /\ Format!FormatRead("left.colorIndex") = Format!GetLineColorIndex
    /\ Format!FormatRead("left.weight") = Format!GetLineWeight
    /\ Format!FormatRead("borders.color") = Format!GetAllColor
    /\ Format!FormatRead("borders.colorIndex") = Format!GetAllColorIndex
    /\ Format!FormatRead("borders.weight") = Format!GetAllWeight
    /\ Format!FormatRead("blank") = Format!GetIgnoreBlank
    /\ Format!FormatRead("list") = Format!GetInCellDropdown
    /\ Format!FormatRead("input") = Format!GetShowInput
    /\ Format!FormatRead("error") = Format!GetShowError
    /\ Format!FormatRead("errorTitle") = Format!GetErrorTitle
    /\ Format!FormatRead("inputText") = Format!GetInputMessage
    /\ Format!FormatRead("inputTitle") = Format!GetInputTitle
    /\ Format!FormatRead("errorText") = Format!GetErrorMessage
    /\ Format!FormatRead("formula") = Format!GetFormula1
  BY DEF Format!FormatRead

LEMMA FormatReadsNext == FormatReads!:'
  BY FormatReads, PTL

\* A range: what has been set reads as it was set.
FormatFine ==
    /\ Format!FormatOK /\ Format!FormatAsked
    /\ \A a \in asked : Format!FormatLoses(a) \/ Format!FormatRead(a.what) = a.value

\* What a call leaves as it was but for some attributes; what could not be read of cells
\* that differ may be read afterwards.
FormatLeaves(C) ==
    /\ Format!FormatOK'
    /\ \A u \in Format!FormatWhats \ C :
          \/ Format!FormatRead(u)' = Format!FormatRead(u)
          \/ u \in {"hori", "locked", "hidden"} /\ Format!FormatRead(u) = "null"

LEMMA LosesStays ==
    ASSUME NEW a
    PROVE  Format!FormatLoses(a)' <=> Format!FormatLoses(a)
  BY DEF Format!FormatLoses, Format!FirstIndex, Format!Palette

LEMMA FormatKept ==
    ASSUME FormatFine, NEW C, FormatLeaves(C), NEW a \in asked, a.what \notin C
    PROVE  /\ a.what \in Format!FormatWhats
           /\ a.what \in {"hori", "locked", "hidden"} => a.value # "null"
           /\ Format!FormatLoses(a)' \/ Format!FormatRead(a.what)' = a.value
<1>1. /\ a.what \in Format!FormatWhats
      /\ a.what \in {"hori", "locked", "hidden"} => a.value # "null"
      /\ Format!FormatLoses(a) \/ Format!FormatRead(a.what) = a.value
  BY DEF FormatFine, Format!FormatAsked
<1>2. QED
  BY <1>1, LosesStays DEF FormatLeaves

LEMMA FormatSet ==
    ASSUME FormatFine, NEW C, FormatLeaves(C), NEW w \in Format!FormatWhats, NEW v,
           asked' = {a \in asked : a.what \notin C} \cup {[what |-> w, value |-> v]},
           w \in {"hori", "locked", "hidden"} => v # "null",
           Format!FormatLoses([what |-> w, value |-> v]) \/ Format!FormatRead(w)' = v
    PROVE  FormatFine'
<1>1. ASSUME NEW a \in asked'
      PROVE  /\ a.what \in Format!FormatWhats
             /\ a.what \in {"hori", "locked", "hidden"} => a.value # "null"
             /\ Format!FormatLoses(a)' \/ Format!FormatRead(a.what)' = a.value
  <2>1. CASE a = [what |-> w, value |-> v]
    BY <2>1, LosesStays
  <2>2. CASE a \in asked /\ a.what \notin C
    BY <2>2, FormatKept
  <2>3. QED
    BY <2>1, <2>2
<1>2. Format!FormatWhats' = Format!FormatWhats
  BY DEF Format!FormatWhats
<1>3. QED
  BY <1>1, <1>2 DEF FormatFine, FormatLeaves, Format!FormatAsked

LEMMA FormatOther ==
    ASSUME FormatFine, NEW C, FormatLeaves(C), asked' = {a \in asked : a.what \notin C}
    PROVE  FormatFine'
<1>1. ASSUME NEW a \in asked'
      PROVE  /\ a.what \in Format!FormatWhats
             /\ a.what \in {"hori", "locked", "hidden"} => a.value # "null"
             /\ Format!FormatLoses(a)' \/ Format!FormatRead(a.what)' = a.value
  BY FormatKept
<1>2. Format!FormatWhats' = Format!FormatWhats
  BY DEF Format!FormatWhats
<1>3. QED
  BY <1>1, <1>2 DEF FormatFine, FormatLeaves, Format!FormatAsked

\* What is read of the borders depends on the lines that are read.
LinesRead == [l \in Format!Lines |-> Format!LineRead(l)]
Colors(f)  == {f[l].color : l \in Format!Lines}
Indices(f) == {Format!FirstIndex(f[l].color) : l \in Format!Lines}
Weights(f) == {Format!WeightOf(f[l].width) : l \in Format!Lines}
TheIndex(S) == IF Format!Cardinality(S) = 1 THEN CHOOSE n \in S : TRUE ELSE -2

LEMMA BorderIs ==
    /\ Format!FormatRead("left.color") = LinesRead["left"].color
    /\ Format!FormatRead("left.colorIndex") = Format!FirstIndex(LinesRead["left"].color)
    /\ Format!FormatRead("left.weight") = Format!WeightOf(LinesRead["left"].width)
    /\ Format!FormatRead("borders.color") = Format!Same(Colors(LinesRead))
    /\ Format!FormatRead("borders.colorIndex") = TheIndex(Indices(LinesRead))
    /\ Format!FormatRead("borders.weight") = Format!Same(Weights(LinesRead))
<1>1. \A l \in Format!Lines : LinesRead[l] = Format!LineRead(l)
  BY DEF LinesRead
<1>2. "left" \in Format!Lines
  BY DEF Format!Lines
<1>3. /\ Format!GetLineColor = LinesRead["left"].color
      /\ Format!GetLineColorIndex = Format!FirstIndex(LinesRead["left"].color)
      /\ Format!GetLineWeight = Format!WeightOf(LinesRead["left"].width)
  BY <1>1, <1>2 DEF Format!GetLineColor, Format!GetLineColorIndex, Format!GetLineWeight
<1>4. Format!GetAllColor = Format!Same(Colors(LinesRead))
  <2>1. {Format!LineRead(l).color : l \in Format!Lines} = Colors(LinesRead)
    BY <1>1 DEF Colors
  <2>2. QED
    BY <2>1 DEF Format!GetAllColor
<1>5. Format!GetAllWeight = Format!Same(Weights(LinesRead))
  <2>1. {Format!WeightOf(Format!LineRead(l).width) : l \in Format!Lines} = Weights(LinesRead)
    BY <1>1 DEF Weights
  <2>2. QED
    BY <2>1 DEF Format!GetAllWeight
<1>6. Format!GetAllColorIndex = TheIndex(Indices(LinesRead))
  <2>1. {Format!FirstIndex(Format!LineRead(l).color) : l \in Format!Lines} = Indices(LinesRead)
    BY <1>1 DEF Indices
  <2>2. Format!GetAllColorIndex
          = TheIndex({Format!FirstIndex(Format!LineRead(l).color) : l \in Format!Lines})
    BY Zenon DEF Format!GetAllColorIndex, TheIndex
  <2>3. QED
    BY <2>1, <2>2
<1>7. QED
  BY <1>3, <1>4, <1>5, <1>6, FormatReads

LEMMA BorderIsNext == BorderIs!:'
  BY BorderIs, PTL

BorderWhats == {"left.color", "left.colorIndex", "left.weight", "borders.color",
                "borders.colorIndex", "borders.weight"}

LEMMA BorderStays ==
    ASSUME LinesRead' = LinesRead
    PROVE  \A u \in BorderWhats : Format!FormatRead(u)' = Format!FormatRead(u)
  BY BorderIs, BorderIsNext DEF BorderWhats

LEMMA LinesStay ==
    ASSUME \A l \in Format!Lines : border'[l] = border[l] /\ (l \in mixed' <=> l \in mixed)
    PROVE  LinesRead' = LinesRead
  BY DEF LinesRead, Format!LineRead, Format!NoLine, Format!Lines

\* What the cells' own properties are read by; the format in the macro's language and
\* the colour indices go by the format and the colour.
Cells == DOMAIN Format!Formats

LEMMA CellsAre ==
    Cells = {"vert", "hori", "orient", "angle", "wrap", "number", "indent", "protection", "shrink",
             "mode", "escapement", "size", "color", "bold", "underline", "strike", "shadow",
             "italic",
             "name", "back"}
  BY DEF Cells, Format!Formats

LEMMA CellReads ==
    /\ \A p \in {"wrap", "number", "shrink", "mode", "size", "bold", "underline", "strike",
         "shadow",
                 "italic", "name"} : Format!FormatRead(p) = Format!Plain(p)
    /\ Format!FormatRead("vert") = IF Format!Plain("vert") = "standard" THEN "bottom"
         ELSE Format!Plain("vert")
    /\ Format!FormatRead("hori") = Format!GetHorizontalAlignment
    /\ Format!FormatRead("orient") =
          IF Format!Plain("orient") = "standard" THEN "horizontal" ELSE Format!Plain("orient")
    /\ Format!FormatRead("numberLocal") = Format!GetNumberFormatLocal
    /\ Format!FormatRead("indent") = Format!GetIndentLevel
    /\ Format!FormatRead("locked") = Format!GetLocked
    /\ Format!FormatRead("hidden") = Format!GetFormulaHidden
    /\ Format!FormatRead("super") = IF Format!Plain("escapement") = "super" THEN "on" ELSE "off"
    /\ Format!FormatRead("sub") = IF Format!Plain("escapement") = "sub" THEN "on" ELSE "off"
    /\ Format!FormatRead("color") = IF "color" \in mixed THEN "black" ELSE fmt["color"]
    /\ Format!FormatRead("colorIndex") = IF "color" \in mixed THEN -2
         ELSE Format!FirstIndex(fmt["color"])
    /\ Format!FormatRead("back") = IF "back" \in mixed THEN "white" ELSE fmt["back"]
    /\ Format!FormatRead("backIndex")
         = Format!FirstIndex(IF "back" \in mixed THEN "white" ELSE fmt["back"])
    /\ Format!FormatRead("blank") = valid.blank /\ Format!FormatRead("list") = valid.list
    /\ Format!FormatRead("input") = valid.input /\ Format!FormatRead("error") = valid.error
    /\ Format!FormatRead("errorTitle") = valid.errorTitle
    /\ Format!FormatRead("inputText") = valid.inputText
    /\ Format!FormatRead("inputTitle") = valid.inputTitle
    /\ Format!FormatRead("errorText") = valid.errorText
    /\ Format!FormatRead("formula") = valid.formula
<1> HIDE DEF Format!Plain
<1>1. QED
  BY FormatReads
     DEF Format!GetVerticalAlignment, Format!GetOrientation, Format!GetWrapText,
        Format!GetNumberFormat,
         Format!GetShrinkToFit, Format!GetReadingOrder, Format!GetSuperscript, Format!GetSubscript,
         Format!GetSize, Format!GetFontColor, Format!GetFontColorIndex, Format!GetBold,
         Format!GetUnderline,
         Format!GetStrikethrough, Format!GetShadow, Format!GetItalic, Format!GetName,
         Format!GetBackColor,
         Format!GetBackColorIndex, Format!GetIgnoreBlank, Format!GetInCellDropdown,
         Format!GetShowInput,
         Format!GetShowError, Format!GetErrorTitle, Format!GetInputMessage, Format!GetInputTitle,
         Format!GetErrorMessage, Format!GetFormula1

LEMMA CellReadsNext == CellReads!:'
  BY CellReads, PTL

\* The attributes that go by a property of the cells.
ReadBy(p) ==
    CASE p = "number"     -> {"number", "numberLocal"}
      [] p = "protection" -> {"locked", "hidden"}
      [] p = "escapement" -> {"super", "sub"}
      [] p = "color"      -> {"color", "colorIndex"}
      [] p = "back"       -> {"back", "backIndex"}
      [] p = "angle"      -> {}
      [] OTHER -> {p}

\* What is read of cells depends on the properties that are read.
CellsStay(P) == \A q \in Cells \ P : fmt'[q] = fmt[q] /\ (q \in mixed' <=> q \in mixed)

LEMMA PlainStays ==
    ASSUME NEW P, CellsStay(P)
    PROVE  \A q \in Cells \ P : \A u \in ReadBy(q) : Format!FormatRead(u)' = Format!FormatRead(u)
<1>1. ASSUME NEW q \in Cells \ P PROVE Format!Plain(q)' = Format!Plain(q)
  BY DEF CellsStay, Format!Plain
<1>2. ASSUME "hori" \notin P PROVE Format!GetHorizontalAlignment' = Format!GetHorizontalAlignment
  <2>1. Format!Plain("hori")' = Format!Plain("hori")
    BY <1>1, <1>2, CellsAre
  <2>2. QED
    BY <2>1 DEF Format!GetHorizontalAlignment
<1>3. ASSUME "number" \notin P PROVE Format!GetNumberFormatLocal' = Format!GetNumberFormatLocal
  <2>1. Format!Plain("number")' = Format!Plain("number")
    BY <1>1, <1>3, CellsAre
  <2> DEFINE none == ""
  <2>2. Format!GetNumberFormatLocal = CASE Format!Plain("number") = "General" -> "general"
             [] Format!Plain("number") = "null" -> none [] OTHER -> Format!Plain("number")
    BY Zenon DEF Format!GetNumberFormatLocal
  <2>3. Format!GetNumberFormatLocal' = CASE Format!Plain("number")' = "General" -> "general"
             [] Format!Plain("number")' = "null" -> none [] OTHER -> Format!Plain("number")'
    BY Zenon DEF Format!GetNumberFormatLocal
  <2> HIDE DEF none
  <2>4. QED
    BY <2>1, <2>2, <2>3
<1>4. ASSUME "indent" \notin P PROVE Format!GetIndentLevel' = Format!GetIndentLevel
  BY <1>4, CellsAre DEF CellsStay, Format!GetIndentLevel
<1>5. ASSUME "protection" \notin P
      PROVE  Format!GetLocked' = Format!GetLocked /\ Format!GetFormulaHidden'
             = Format!GetFormulaHidden
  BY <1>5, CellsAre DEF CellsStay, Format!GetLocked, Format!GetFormulaHidden
<1>6. QED
  BY <1>1, <1>2, <1>3, <1>4, <1>5, CellsAre, CellReads, CellReadsNext DEF CellsStay, ReadBy

ValidWhats == {"blank", "list", "input", "error", "errorTitle", "inputText", "inputTitle",
               "errorText", "formula"}

LEMMA WhatsAre ==
    ASSUME NEW u \in Format!FormatWhats
    PROVE  u \in BorderWhats \/ u \in ValidWhats \/ \E q \in Cells : u \in ReadBy(q)
<1>1. ASSUME NEW q \in Cells, q
             \notin {"number", "protection", "escapement", "color", "back", "angle"}
      PROVE  ReadBy(q) = {q}
  BY <1>1 DEF ReadBy
<1>2. /\ ReadBy("number") = {"number", "numberLocal"} /\ ReadBy("protection") = {"locked", "hidden"}
      /\ ReadBy("escapement") = {"super", "sub"} /\ ReadBy("color") = {"color", "colorIndex"}
      /\ ReadBy("back") = {"back", "backIndex"}
  BY DEF ReadBy
<1>3. QED
  BY <1>1, <1>2, CellsAre DEF BorderWhats, ValidWhats, Format!FormatWhats

\* A call that changes properties of cells leaves what is not read by them.
LEMMA CellsLeave ==
    ASSUME Format!FormatOK', NEW P, CellsStay(P), UNCHANGED <<border, valid>>,
           \A l \in Format!Lines : l \in mixed' <=> l \in mixed,
           NEW C, \A p \in P : \A u \in ReadBy(p) \ C :
                     \/ Format!FormatRead(u)' = Format!FormatRead(u)
                     \/ u \in {"hori", "locked", "hidden"} /\ Format!FormatRead(u) = "null"
    PROVE  FormatLeaves(C)
<1>1. \A u \in BorderWhats : Format!FormatRead(u)' = Format!FormatRead(u)
  <2>1. LinesRead' = LinesRead
    BY LinesStay
  <2>2. QED
    BY <2>1, BorderStays
<1>2. \A u \in ValidWhats : Format!FormatRead(u)' = Format!FormatRead(u)
  BY CellReads, CellReadsNext DEF ValidWhats
<1>3. \A q \in Cells \ P : \A u \in ReadBy(q) : Format!FormatRead(u)' = Format!FormatRead(u)
  BY PlainStays
<1>4. ASSUME NEW u \in Format!FormatWhats \ C
      PROVE  \/ Format!FormatRead(u)' = Format!FormatRead(u)
             \/ u \in {"hori", "locked", "hidden"} /\ Format!FormatRead(u) = "null"
  <2>1. CASE u \in BorderWhats \/ u \in ValidWhats
    BY <1>1, <1>2, <2>1
  <2>2. CASE \E q \in Cells : u \in ReadBy(q)
    <3>1. PICK q \in Cells : u \in ReadBy(q)
      BY <2>2
    <3>2. CASE q \in P
      BY <3>1, <3>2
    <3>3. CASE q \notin P
      BY <1>3, <3>1, <3>3
    <3>4. QED
      BY <3>2, <3>3
  <2>3. QED
    BY <2>1, <2>2, WhatsAre
<1>5. QED
  BY <1>4 DEF FormatLeaves

LEMMA FormatRefused ==
    ASSUME FormatFine, UNCHANGED formatVars, UNCHANGED asked
    PROVE  FormatFine'
<1> DEFINE C == {}
<1>1. Format!FormatOK' /\ UNCHANGED <<border, valid>> /\ CellsStay(C)
      /\ \A l \in Format!Lines : l \in mixed' <=> l \in mixed
  BY DEF FormatFine, Format!FormatOK, formatVars, CellsStay, Format!Formats,
     Format!NoValidation, Format!Lines,
         Format!Protection, Format!OnOff
<1>2. asked' = {a \in asked : a.what \notin C} /\ \A p \in C : FALSE
  OBVIOUS
<1> HIDE DEF C
<1>3. FormatLeaves(C)
  BY <1>1, <1>2, CellsLeave
<1>4. QED
  BY <1>2, <1>3, FormatOther

\* One property is set.
LEMMA PutIs ==
    ASSUME FormatFine, NEW p \in Cells, NEW v, Format!Put(p, v), p = "protection"
           => v \in Format!Protection
    PROVE  /\ Format!FormatOK' /\ CellsStay({p}) /\ UNCHANGED <<border, valid>>
           /\ \A l \in Format!Lines : l \in mixed' <=> l \in mixed
           /\ fmt'[p] = v /\ p \notin mixed' /\ Format!Plain(p)' = v
<1>1. fmt' = [fmt EXCEPT ![p] = v] /\ mixed' = mixed \ {p} /\ UNCHANGED <<border, valid>>
  BY DEF Format!Put
<1>2. DOMAIN fmt = Cells /\ fmt.protection \in Format!Protection
  BY DEF FormatFine, Format!FormatOK, Cells
<1>3. fmt'[p] = v /\ p \notin mixed' /\ \A q \in Cells \ {p} :
        fmt'[q] = fmt[q] /\ (q \in mixed' <=> q \in mixed)
  BY <1>1, <1>2
<1>4. DOMAIN fmt' = Cells /\ fmt'.protection \in Format!Protection
  BY <1>1, <1>2, CellsAre
<1>5. Format!FormatOK'
  BY <1>1, <1>4 DEF FormatFine, Format!FormatOK, Cells, Format!Formats, Format!NoValidation,
     Format!Lines,
                    Format!Protection, Format!OnOff
<1>6. \A l \in Format!Lines : l \in mixed' <=> l \in mixed
  BY <1>1, CellsAre DEF Format!Lines
<1>7. QED
  BY <1>1, <1>3, <1>5, <1>6 DEF CellsStay, Format!Plain

LEMMA CellSet ==
    ASSUME FormatFine, NEW p \in Cells, p # "protection", NEW v, Format!Put(p, v),
           NEW w \in Format!FormatWhats, NEW x, NEW C, ReadBy(p) \subseteq C,
           asked' = {a \in asked : a.what \notin C} \cup {[what |-> w, value |-> x]},
           w \in {"hori", "locked", "hidden"} => x # "null",
           Format!FormatLoses([what |-> w, value |-> x]) \/ Format!FormatRead(w)' = x
    PROVE  FormatFine'
<1>1. /\ Format!FormatOK' /\ CellsStay({p}) /\ UNCHANGED <<border, valid>>
      /\ \A l \in Format!Lines : l \in mixed' <=> l \in mixed
  BY PutIs
<1> DEFINE P == {p}
<1>2. CellsStay(P) /\ \A q \in P : ReadBy(q) \subseteq C
  BY <1>1
<1> HIDE DEF P
<1>3. FormatLeaves(C)
  BY <1>1, <1>2, CellsLeave
<1>4. QED
  BY <1>3, FormatSet

LEMMA WrapKeeps ==
    ASSUME FormatFine, NEW v, Format!Put("wrap", v), Format!WroteOver("wrap", v, {})
    PROVE  FormatFine'
<1> DEFINE C == {"wrap"} \cup {}
<1>1. asked' = {a \in asked : a.what \notin C} \cup {[what |-> "wrap", value |-> v]}
  BY DEF Format!WroteOver, Format!Except
<1>2. "wrap" \in Cells /\ "wrap" \in Format!FormatWhats
  BY CellsAre DEF Format!FormatWhats
<1>3. ReadBy("wrap") \subseteq C
  BY DEF ReadBy
<1> HIDE DEF C
<1>4. /\ "wrap" \notin mixed' /\ fmt'["wrap"] = v
      /\ Format!Plain("wrap")' = v
  BY <1>2, PutIs
<1>5. Format!FormatLoses([what |-> "wrap", value |-> v]) \/ Format!FormatRead("wrap")' = v
  BY <1>4, CellReadsNext DEF Format!FormatLoses
<1>6. QED
  BY <1>1, <1>2, <1>3, <1>5, CellSet

LEMMA ShrinkKeeps ==
    ASSUME FormatFine, NEW v, Format!Put("shrink", v), Format!WroteOver("shrink", v, {})
    PROVE  FormatFine'
<1> DEFINE C == {"shrink"} \cup {}
<1>1. asked' = {a \in asked : a.what \notin C} \cup {[what |-> "shrink", value |-> v]}
  BY DEF Format!WroteOver, Format!Except
<1>2. "shrink" \in Cells /\ "shrink" \in Format!FormatWhats
  BY CellsAre DEF Format!FormatWhats
<1>3. ReadBy("shrink") \subseteq C
  BY DEF ReadBy
<1> HIDE DEF C
<1>4. /\ "shrink" \notin mixed' /\ fmt'["shrink"] = v
      /\ Format!Plain("shrink")' = v
  BY <1>2, PutIs
<1>5. Format!FormatLoses([what |-> "shrink", value |-> v]) \/ Format!FormatRead("shrink")' = v
  BY <1>4, CellReadsNext DEF Format!FormatLoses
<1>6. QED
  BY <1>1, <1>2, <1>3, <1>5, CellSet

LEMMA ModeKeeps ==
    ASSUME FormatFine, NEW v, Format!Put("mode", v), Format!WroteOver("mode", v, {})
    PROVE  FormatFine'
<1> DEFINE C == {"mode"} \cup {}
<1>1. asked' = {a \in asked : a.what \notin C} \cup {[what |-> "mode", value |-> v]}
  BY DEF Format!WroteOver, Format!Except
<1>2. "mode" \in Cells /\ "mode" \in Format!FormatWhats
  BY CellsAre DEF Format!FormatWhats
<1>3. ReadBy("mode") \subseteq C
  BY DEF ReadBy
<1> HIDE DEF C
<1>4. /\ "mode" \notin mixed' /\ fmt'["mode"] = v
      /\ Format!Plain("mode")' = v
  BY <1>2, PutIs
<1>5. Format!FormatLoses([what |-> "mode", value |-> v]) \/ Format!FormatRead("mode")' = v
  BY <1>4, CellReadsNext DEF Format!FormatLoses
<1>6. QED
  BY <1>1, <1>2, <1>3, <1>5, CellSet

LEMMA SizeKeeps ==
    ASSUME FormatFine, NEW v, Format!Put("size", v), Format!WroteOver("size", v, {})
    PROVE  FormatFine'
<1> DEFINE C == {"size"} \cup {}
<1>1. asked' = {a \in asked : a.what \notin C} \cup {[what |-> "size", value |-> v]}
  BY DEF Format!WroteOver, Format!Except
<1>2. "size" \in Cells /\ "size" \in Format!FormatWhats
  BY CellsAre DEF Format!FormatWhats
<1>3. ReadBy("size") \subseteq C
  BY DEF ReadBy
<1> HIDE DEF C
<1>4. /\ "size" \notin mixed' /\ fmt'["size"] = v
      /\ Format!Plain("size")' = v
  BY <1>2, PutIs
<1>5. Format!FormatLoses([what |-> "size", value |-> v]) \/ Format!FormatRead("size")' = v
  BY <1>4, CellReadsNext DEF Format!FormatLoses
<1>6. QED
  BY <1>1, <1>2, <1>3, <1>5, CellSet

LEMMA BoldKeeps ==
    ASSUME FormatFine, NEW v, Format!Put("bold", v), Format!WroteOver("bold", v, {})
    PROVE  FormatFine'
<1> DEFINE C == {"bold"} \cup {}
<1>1. asked' = {a \in asked : a.what \notin C} \cup {[what |-> "bold", value |-> v]}
  BY DEF Format!WroteOver, Format!Except
<1>2. "bold" \in Cells /\ "bold" \in Format!FormatWhats
  BY CellsAre DEF Format!FormatWhats
<1>3. ReadBy("bold") \subseteq C
  BY DEF ReadBy
<1> HIDE DEF C
<1>4. /\ "bold" \notin mixed' /\ fmt'["bold"] = v
      /\ Format!Plain("bold")' = v
  BY <1>2, PutIs
<1>5. Format!FormatLoses([what |-> "bold", value |-> v]) \/ Format!FormatRead("bold")' = v
  BY <1>4, CellReadsNext DEF Format!FormatLoses
<1>6. QED
  BY <1>1, <1>2, <1>3, <1>5, CellSet

LEMMA StrikeKeeps ==
    ASSUME FormatFine, NEW v, Format!Put("strike", v), Format!WroteOver("strike", v, {})
    PROVE  FormatFine'
<1> DEFINE C == {"strike"} \cup {}
<1>1. asked' = {a \in asked : a.what \notin C} \cup {[what |-> "strike", value |-> v]}
  BY DEF Format!WroteOver, Format!Except
<1>2. "strike" \in Cells /\ "strike" \in Format!FormatWhats
  BY CellsAre DEF Format!FormatWhats
<1>3. ReadBy("strike") \subseteq C
  BY DEF ReadBy
<1> HIDE DEF C
<1>4. /\ "strike" \notin mixed' /\ fmt'["strike"] = v
      /\ Format!Plain("strike")' = v
  BY <1>2, PutIs
<1>5. Format!FormatLoses([what |-> "strike", value |-> v]) \/ Format!FormatRead("strike")' = v
  BY <1>4, CellReadsNext DEF Format!FormatLoses
<1>6. QED
  BY <1>1, <1>2, <1>3, <1>5, CellSet

LEMMA ShadowKeeps ==
    ASSUME FormatFine, NEW v, Format!Put("shadow", v), Format!WroteOver("shadow", v, {})
    PROVE  FormatFine'
<1> DEFINE C == {"shadow"} \cup {}
<1>1. asked' = {a \in asked : a.what \notin C} \cup {[what |-> "shadow", value |-> v]}
  BY DEF Format!WroteOver, Format!Except
<1>2. "shadow" \in Cells /\ "shadow" \in Format!FormatWhats
  BY CellsAre DEF Format!FormatWhats
<1>3. ReadBy("shadow") \subseteq C
  BY DEF ReadBy
<1> HIDE DEF C
<1>4. /\ "shadow" \notin mixed' /\ fmt'["shadow"] = v
      /\ Format!Plain("shadow")' = v
  BY <1>2, PutIs
<1>5. Format!FormatLoses([what |-> "shadow", value |-> v]) \/ Format!FormatRead("shadow")' = v
  BY <1>4, CellReadsNext DEF Format!FormatLoses
<1>6. QED
  BY <1>1, <1>2, <1>3, <1>5, CellSet

LEMMA ItalicKeeps ==
    ASSUME FormatFine, NEW v, Format!Put("italic", v), Format!WroteOver("italic", v, {})
    PROVE  FormatFine'
<1> DEFINE C == {"italic"} \cup {}
<1>1. asked' = {a \in asked : a.what \notin C} \cup {[what |-> "italic", value |-> v]}
  BY DEF Format!WroteOver, Format!Except
<1>2. "italic" \in Cells /\ "italic" \in Format!FormatWhats
  BY CellsAre DEF Format!FormatWhats
<1>3. ReadBy("italic") \subseteq C
  BY DEF ReadBy
<1> HIDE DEF C
<1>4. /\ "italic" \notin mixed' /\ fmt'["italic"] = v
      /\ Format!Plain("italic")' = v
  BY <1>2, PutIs
<1>5. Format!FormatLoses([what |-> "italic", value |-> v]) \/ Format!FormatRead("italic")' = v
  BY <1>4, CellReadsNext DEF Format!FormatLoses
<1>6. QED
  BY <1>1, <1>2, <1>3, <1>5, CellSet

LEMMA FontNameKeeps ==
    ASSUME FormatFine, NEW v, Format!Put("name", v), Format!WroteOver("name", v, {})
    PROVE  FormatFine'
<1> DEFINE C == {"name"} \cup {}
<1>1. asked' = {a \in asked : a.what \notin C} \cup {[what |-> "name", value |-> v]}
  BY DEF Format!WroteOver, Format!Except
<1>2. "name" \in Cells /\ "name" \in Format!FormatWhats
  BY CellsAre DEF Format!FormatWhats
<1>3. ReadBy("name") \subseteq C
  BY DEF ReadBy
<1> HIDE DEF C
<1>4. /\ "name" \notin mixed' /\ fmt'["name"] = v
      /\ Format!Plain("name")' = v
  BY <1>2, PutIs
<1>5. Format!FormatLoses([what |-> "name", value |-> v]) \/ Format!FormatRead("name")' = v
  BY <1>4, CellReadsNext DEF Format!FormatLoses
<1>6. QED
  BY <1>1, <1>2, <1>3, <1>5, CellSet

LEMMA VerticalKeeps ==
    ASSUME FormatFine, NEW v \in {"top", "center", "bottom", "justify"},
           Format!Put("vert", IF v \in {"top", "center", "bottom"} THEN v ELSE "standard"),
           Format!WroteOver("vert", v, {})
    PROVE  FormatFine'
<1> DEFINE C == {"vert"} \cup {}
<1>1. asked' = {a \in asked : a.what \notin C} \cup {[what |-> "vert", value |-> v]}
  BY DEF Format!WroteOver, Format!Except
<1>2. "vert" \in Cells /\ "vert" \in Format!FormatWhats
  BY CellsAre DEF Format!FormatWhats
<1>3. ReadBy("vert") \subseteq C
  BY DEF ReadBy
<1> HIDE DEF C
<1>4. /\ "vert" \notin mixed' /\ fmt'["vert"] = IF v \in {"top", "center", "bottom"} THEN v
        ELSE "standard"
      /\ Format!Plain("vert")' = IF v \in {"top", "center", "bottom"} THEN v ELSE "standard"
  BY <1>2, PutIs
<1>5. Format!FormatLoses([what |-> "vert", value |-> v]) \/ Format!FormatRead("vert")' = v
  BY <1>4, CellReadsNext DEF Format!FormatLoses
<1>6. QED
  BY <1>1, <1>2, <1>3, <1>5, CellSet

LEMMA UnderlineKeeps ==
    ASSUME FormatFine, NEW v,
           Format!Put("underline", IF v = "singleAccounting" THEN "single" ELSE v),
           Format!WroteOver("underline", v, {})
    PROVE  FormatFine'
<1> DEFINE C == {"underline"} \cup {}
<1>1. asked' = {a \in asked : a.what \notin C} \cup {[what |-> "underline", value |-> v]}
  BY DEF Format!WroteOver, Format!Except
<1>2. "underline" \in Cells /\ "underline" \in Format!FormatWhats
  BY CellsAre DEF Format!FormatWhats
<1>3. ReadBy("underline") \subseteq C
  BY DEF ReadBy
<1> HIDE DEF C
<1>4. /\ "underline" \notin mixed' /\ fmt'["underline"] = IF v = "singleAccounting"
        THEN "single" ELSE v
      /\ Format!Plain("underline")' = IF v = "singleAccounting" THEN "single" ELSE v
  BY <1>2, PutIs
<1>5. Format!FormatLoses([what |-> "underline", value |-> v]) \/ Format!FormatRead("underline")' = v
  BY <1>4, CellReadsNext DEF Format!FormatLoses
<1>6. QED
  BY <1>1, <1>2, <1>3, <1>5, CellSet

LEMMA SuperscriptKeeps ==
    ASSUME FormatFine, NEW v \in Format!OnOff,
           Format!Put("escapement", IF v = "on" THEN "super" ELSE "normal"),
           Format!WroteOver("super", v, {"sub"})
    PROVE  FormatFine'
<1> DEFINE C == {"super"} \cup {"sub"}
<1>1. asked' = {a \in asked : a.what \notin C} \cup {[what |-> "super", value |-> v]}
  BY DEF Format!WroteOver, Format!Except
<1>2. "escapement" \in Cells /\ "super" \in Format!FormatWhats
  BY CellsAre DEF Format!FormatWhats
<1>3. ReadBy("escapement") \subseteq C
  BY DEF ReadBy
<1> HIDE DEF C
<1>4. /\ "escapement" \notin mixed' /\ fmt'["escapement"] = IF v = "on" THEN "super" ELSE "normal"
      /\ Format!Plain("escapement")' = IF v = "on" THEN "super" ELSE "normal"
  BY <1>2, PutIs
<1>5. Format!FormatLoses([what |-> "super", value |-> v]) \/ Format!FormatRead("super")' = v
  BY <1>4, CellReadsNext DEF Format!FormatLoses, Format!OnOff
<1>6. QED
  BY <1>1, <1>2, <1>3, <1>5, CellSet

LEMMA SubscriptKeeps ==
    ASSUME FormatFine, NEW v \in Format!OnOff,
           Format!Put("escapement", IF v = "on" THEN "sub" ELSE "normal"),
           Format!WroteOver("sub", v, {"super"})
    PROVE  FormatFine'
<1> DEFINE C == {"sub"} \cup {"super"}
<1>1. asked' = {a \in asked : a.what \notin C} \cup {[what |-> "sub", value |-> v]}
  BY DEF Format!WroteOver, Format!Except
<1>2. "escapement" \in Cells /\ "sub" \in Format!FormatWhats
  BY CellsAre DEF Format!FormatWhats
<1>3. ReadBy("escapement") \subseteq C
  BY DEF ReadBy
<1> HIDE DEF C
<1>4. /\ "escapement" \notin mixed' /\ fmt'["escapement"] = IF v = "on" THEN "sub" ELSE "normal"
      /\ Format!Plain("escapement")' = IF v = "on" THEN "sub" ELSE "normal"
  BY <1>2, PutIs
<1>5. Format!FormatLoses([what |-> "sub", value |-> v]) \/ Format!FormatRead("sub")' = v
  BY <1>4, CellReadsNext DEF Format!FormatLoses, Format!OnOff
<1>6. QED
  BY <1>1, <1>2, <1>3, <1>5, CellSet

LEMMA FontColorKeeps ==
    ASSUME FormatFine, NEW c, Format!Put("color", c), Format!WroteOver("color", c, {"colorIndex"})
    PROVE  FormatFine'
<1> DEFINE C == {"color"} \cup {"colorIndex"}
<1>1. asked' = {a \in asked : a.what \notin C} \cup {[what |-> "color", value |-> c]}
  BY DEF Format!WroteOver, Format!Except
<1>2. "color" \in Cells /\ "color" \in Format!FormatWhats
  BY CellsAre DEF Format!FormatWhats
<1>3. ReadBy("color") \subseteq C
  BY DEF ReadBy
<1> HIDE DEF C
<1>4. /\ "color" \notin mixed' /\ fmt'["color"] = c
      /\ Format!Plain("color")' = c
  BY <1>2, PutIs
<1>5. Format!FormatLoses([what |-> "color", value |-> c]) \/ Format!FormatRead("color")' = c
  BY <1>4, CellReadsNext DEF Format!FormatLoses
<1>6. QED
  BY <1>1, <1>2, <1>3, <1>5, CellSet

LEMMA BackColorKeeps ==
    ASSUME FormatFine, NEW c, Format!Put("back", c), Format!WroteOver("back", c, {"backIndex"})
    PROVE  FormatFine'
<1> DEFINE C == {"back"} \cup {"backIndex"}
<1>1. asked' = {a \in asked : a.what \notin C} \cup {[what |-> "back", value |-> c]}
  BY DEF Format!WroteOver, Format!Except
<1>2. "back" \in Cells /\ "back" \in Format!FormatWhats
  BY CellsAre DEF Format!FormatWhats
<1>3. ReadBy("back") \subseteq C
  BY DEF ReadBy
<1> HIDE DEF C
<1>4. /\ "back" \notin mixed' /\ fmt'["back"] = c
      /\ Format!Plain("back")' = c
  BY <1>2, PutIs
<1>5. Format!FormatLoses([what |-> "back", value |-> c]) \/ Format!FormatRead("back")' = c
  BY <1>4, CellReadsNext DEF Format!FormatLoses
<1>6. QED
  BY <1>1, <1>2, <1>3, <1>5, CellSet

LEMMA NumberKeeps ==
    ASSUME FormatFine, NEW v, Format!Put("number", IF v = "general" THEN "General" ELSE v),
           Format!WroteOver("number", v, {"numberLocal"})
    PROVE  FormatFine'
<1> DEFINE C == {"number"} \cup {"numberLocal"}
<1>1. asked' = {a \in asked : a.what \notin C} \cup {[what |-> "number", value |-> v]}
  BY DEF Format!WroteOver, Format!Except
<1>2. "number" \in Cells /\ "number" \in Format!FormatWhats
  BY CellsAre DEF Format!FormatWhats
<1>3. ReadBy("number") \subseteq C
  BY DEF ReadBy
<1> HIDE DEF C
<1>4. /\ "number" \notin mixed' /\ fmt'["number"] = IF v = "general" THEN "General" ELSE v
      /\ Format!Plain("number")' = IF v = "general" THEN "General" ELSE v
  BY <1>2, PutIs
<1>5. Format!FormatLoses([what |-> "number", value |-> v]) \/ Format!FormatRead("number")' = v
  BY <1>4, CellReadsNext DEF Format!FormatLoses
<1>6. QED
  BY <1>1, <1>2, <1>3, <1>5, CellSet

LEMMA HorizontalKeeps ==
    ASSUME FormatFine, NEW v \in {"left", "center", "right", "justify", "distributed"},
           Format!Put("hori", IF v \in {"justify", "distributed"} THEN "block" ELSE v),
           Format!WroteOver("hori", v, {})
    PROVE  FormatFine'
<1> DEFINE C == {"hori"} \cup {}
<1>1. asked' = {a \in asked : a.what \notin C} \cup {[what |-> "hori", value |-> v]}
  BY DEF Format!WroteOver, Format!Except
<1>2. "hori" \in Cells /\ "hori" \in Format!FormatWhats
  BY CellsAre DEF Format!FormatWhats
<1>3. ReadBy("hori") \subseteq C
  BY DEF ReadBy
<1> HIDE DEF C
<1>4. /\ "hori" \notin mixed' /\ fmt'["hori"] = IF v \in {"justify", "distributed"} THEN "block"
        ELSE v
      /\ Format!Plain("hori")' = IF v \in {"justify", "distributed"} THEN "block" ELSE v
  BY <1>2, PutIs
<1>5. Format!FormatLoses([what |-> "hori", value |-> v]) \/ Format!FormatRead("hori")' = v
  BY <1>4, CellReadsNext DEF Format!FormatLoses, Format!GetHorizontalAlignment
<1>6. QED
  BY <1>1, <1>2, <1>3, <1>5, CellSet

LEMMA NumberLocalKeeps ==
    ASSUME FormatFine, NEW v \in {"general", "0.00"},
           Format!Put("number", IF v = "general" THEN "General" ELSE v),
           Format!WroteOver("numberLocal", v, {"number"})
    PROVE  FormatFine'
<1> DEFINE C == {"numberLocal"} \cup {"number"}
<1>1. asked' = {a \in asked : a.what \notin C} \cup {[what |-> "numberLocal", value |-> v]}
  BY DEF Format!WroteOver, Format!Except
<1>2. "number" \in Cells /\ "numberLocal" \in Format!FormatWhats
  BY CellsAre DEF Format!FormatWhats
<1>3. ReadBy("number") \subseteq C
  BY DEF ReadBy
<1> HIDE DEF C
<1>4. /\ "number" \notin mixed' /\ fmt'["number"] = IF v = "general" THEN "General" ELSE v
      /\ Format!Plain("number")' = IF v = "general" THEN "General" ELSE v
  BY <1>2, PutIs
<1>5. Format!FormatRead("numberLocal")' = v
  <2> DEFINE none == ""
  <2>1. Format!GetNumberFormatLocal' = CASE Format!Plain("number")' = "General" -> "general"
             [] Format!Plain("number")' = "null" -> none [] OTHER -> Format!Plain("number")'
    BY Zenon DEF Format!GetNumberFormatLocal
  <2> HIDE DEF none
  <2>2. QED
    BY <1>4, <2>1, CellReadsNext
<1>6. QED
  BY <1>1, <1>2, <1>3, <1>5, CellSet

LEMMA FontColorIndexKeeps ==
    ASSUME FormatFine, NEW n, Format!Put("color", Format!Palette[Format!IndexOr(n, 1)]),
           Format!WroteOver("colorIndex", n, {"color"})
    PROVE  FormatFine'
<1> DEFINE C == {"colorIndex"} \cup {"color"}
<1>1. asked' = {a \in asked : a.what \notin C} \cup {[what |-> "colorIndex", value |-> n]}
  BY DEF Format!WroteOver, Format!Except
<1>2. "color" \in Cells /\ "colorIndex" \in Format!FormatWhats
  BY CellsAre DEF Format!FormatWhats
<1>3. ReadBy("color") \subseteq C
  BY DEF ReadBy
<1> HIDE DEF C
<1>4. /\ "color" \notin mixed' /\ fmt'["color"] = Format!Palette[Format!IndexOr(n, 1)]
      /\ Format!Plain("color")' = Format!Palette[Format!IndexOr(n, 1)]
  BY <1>2, PutIs
<1>5. Format!FormatLoses([what |-> "colorIndex", value |-> n])
        \/ Format!FormatRead("colorIndex")' = n
  BY <1>4, CellReadsNext DEF Format!FormatLoses, Format!IndexOr
<1>6. QED
  BY <1>1, <1>2, <1>3, <1>5, CellSet

LEMMA BackColorIndexKeeps ==
    ASSUME FormatFine, NEW n, Format!Put("back", Format!Palette[Format!IndexOr(n, 2)]),
           Format!WroteOver("backIndex", n, {"back"})
    PROVE  FormatFine'
<1> DEFINE C == {"backIndex"} \cup {"back"}
<1>1. asked' = {a \in asked : a.what \notin C} \cup {[what |-> "backIndex", value |-> n]}
  BY DEF Format!WroteOver, Format!Except
<1>2. "back" \in Cells /\ "backIndex" \in Format!FormatWhats
  BY CellsAre DEF Format!FormatWhats
<1>3. ReadBy("back") \subseteq C
  BY DEF ReadBy
<1> HIDE DEF C
<1>4. /\ "back" \notin mixed' /\ fmt'["back"] = Format!Palette[Format!IndexOr(n, 2)]
      /\ Format!Plain("back")' = Format!Palette[Format!IndexOr(n, 2)]
  BY <1>2, PutIs
<1>5. Format!FormatLoses([what |-> "backIndex", value |-> n]) \/ Format!FormatRead("backIndex")' = n
  BY <1>4, CellReadsNext DEF Format!FormatLoses, Format!IndexOr
<1>6. QED
  BY <1>1, <1>2, <1>3, <1>5, CellSet

\* "horizontal" takes back a rotation too, which nothing reads.
LEMMA OrientationKeeps ==
    ASSUME FormatFine, NEW v \in {"horizontal", "up", "stacked"}, Format!SetOrientation(v)
    PROVE  FormatFine'
<1> DEFINE P == {"orient", "angle"}
           C == {"orient"} \cup {}
<1>1. /\ \A q \in Cells \ P : fmt'[q] = fmt[q]
      /\ DOMAIN fmt' = Cells /\ fmt'["protection"] = fmt["protection"]
      /\ fmt'["orient"] = IF v = "horizontal" THEN "standard" ELSE v
  BY CellsAre DEF FormatFine, Format!FormatOK, Cells, Format!SetOrientation
<1>2. /\ \A q : q \notin P => (q \in mixed' <=> q \in mixed)
      /\ "orient" \notin mixed' /\ UNCHANGED <<border, valid>>
  BY DEF Format!SetOrientation
<1>3. Format!FormatOK'
  BY <1>1, <1>2 DEF FormatFine, Format!FormatOK, Cells, Format!Formats, Format!NoValidation,
     Format!Lines,
                    Format!Protection, Format!OnOff
<1>4. CellsStay(P)
  BY <1>1, <1>2 DEF CellsStay
<1>5. \A l \in Format!Lines : l \in mixed' <=> l \in mixed
  BY <1>2 DEF Format!Lines
<1>6. \A p \in P : ReadBy(p) \subseteq C
  BY DEF ReadBy
<1>7. asked' = {a \in asked : a.what \notin C} \cup {[what |-> "orient", value |-> v]}
  BY DEF Format!SetOrientation, Format!Wrote, Format!WroteOver, Format!Except
<1>8. Format!FormatRead("orient")' = v /\ "orient" \in Format!FormatWhats
  BY <1>1, <1>2, CellReadsNext DEF Format!Plain, Format!FormatWhats
<1> HIDE DEF C, P
<1>9. FormatLeaves(C)
  BY <1>2, <1>3, <1>4, <1>5, <1>6, CellsLeave
<1>10. QED
  BY <1>7, <1>8, <1>9, FormatSet

\* An indent aligns what is not aligned, of which an alignment could not be read.
LEMMA IndentKeeps ==
    ASSUME FormatFine, NEW n \in {0, 1, 15}, Format!SetIndentLevel(n)
    PROVE  FormatFine'
<1> DEFINE aligns == "hori" \in mixed \/ fmt["hori"] = "standard"
           P == {"indent"} \cup IF aligns THEN {"hori"} ELSE {}
           C == {"indent"} \cup {}
           depth == (n * 3528) \div 10
<1>1. /\ fmt' = [fmt EXCEPT !.hori = IF aligns THEN "left" ELSE @, !.indent = depth]
      /\ mixed' = mixed \ P /\ UNCHANGED <<border, valid>>
      /\ Format!Wrote("indent", n)
  BY DEF Format!SetIndentLevel
<1>2. (fmt'["indent"] * 10 + 1764) \div 3528 = n
  <2>1. /\ (0 * 3528) \div 10 = 0 /\ (0 * 10 + 1764) \div 3528 = 0
        /\ (1 * 3528) \div 10 = 352 /\ (352 * 10 + 1764) \div 3528 = 1
        /\ (15 * 3528) \div 10 = 5292 /\ (5292 * 10 + 1764) \div 3528 = 15
    OBVIOUS
  <2> HIDE DEF depth
  <2>2. fmt'["indent"] = depth
    BY <1>1, CellsAre DEF FormatFine, Format!FormatOK, Cells
  <2>3. n = 0 \/ n = 1 \/ n = 15
    OBVIOUS
  <2>4. QED
    BY <2>1, <2>2, <2>3 DEF depth
<1> HIDE DEF depth
<1>3. /\ \A q \in Cells \ P : fmt'[q] = fmt[q]
      /\ DOMAIN fmt' = Cells /\ fmt'["protection"] = fmt["protection"]
  BY <1>1, CellsAre DEF FormatFine, Format!FormatOK, Cells
<1>4. \A q : q \notin P => (q \in mixed' <=> q \in mixed)
  BY <1>1
<1>5. Format!FormatOK'
  BY <1>1, <1>3 DEF FormatFine, Format!FormatOK, Cells, Format!Formats, Format!NoValidation,
     Format!Lines,
                    Format!Protection, Format!OnOff
<1>6. CellsStay(P)
  BY <1>3, <1>4 DEF CellsStay
<1>7. \A l \in Format!Lines : l \in mixed' <=> l \in mixed
  BY <1>4 DEF Format!Lines
<1>8. aligns => Format!FormatRead("hori") = "null"
  BY CellReads DEF Format!GetHorizontalAlignment, Format!Plain
<1>9. \A p \in P : \A u \in ReadBy(p) \ C :
         u \in {"hori", "locked", "hidden"} /\ Format!FormatRead(u) = "null"
  BY <1>8 DEF ReadBy
<1>10. asked' = {a \in asked : a.what \notin C} \cup {[what |-> "indent", value |-> n]}
  BY <1>1 DEF Format!Wrote, Format!WroteOver, Format!Except
<1>11. Format!FormatRead("indent")' = n /\ "indent" \in Format!FormatWhats
  BY <1>1, <1>2, CellReadsNext DEF Format!GetIndentLevel, Format!FormatWhats
<1> HIDE DEF C, P
<1>12. FormatLeaves(C)
  BY <1>1, <1>5, <1>6, <1>7, <1>9, CellsLeave
<1>13. QED
  BY <1>10, <1>11, <1>12, FormatSet

\* One flag of the protection is set with the other as it is read; of cells that differ
\* the other could not be read.
LEMMA ProtectionIs ==
    ASSUME FormatFine, NEW v \in Format!OnOff, NEW r \in Format!Protection,
           Format!Put("protection", r), NEW w \in {"locked", "hidden"}, Format!Wrote(w, v),
           w = "locked" => r = [Format!ProtectionRead EXCEPT !.locked = v],
           w = "hidden" => r = [Format!ProtectionRead EXCEPT !.hidden = v]
    PROVE  FormatFine'
<1> DEFINE P == {"protection"}
           C == {w} \cup {}
<1>1. /\ Format!FormatOK' /\ CellsStay(P) /\ UNCHANGED <<border, valid>>
      /\ \A l \in Format!Lines : l \in mixed' <=> l \in mixed
      /\ fmt'["protection"] = r /\ "protection" \notin mixed'
  BY PutIs, CellsAre
<1>2. Format!FormatRead("locked")' = r.locked /\ Format!FormatRead("hidden")' = r.hidden
  BY <1>1, CellReadsNext DEF Format!GetLocked, Format!GetFormulaHidden
<1>3. Format!ProtectionRead \in Format!Protection
  BY DEF FormatFine, Format!FormatOK, Format!ProtectionRead, Format!Protection,
     Format!Protected, Format!OnOff
<1>4. /\ w = "locked" => r.locked = v /\ r.hidden = Format!ProtectionRead.hidden
      /\ w = "hidden" => r.hidden = v /\ r.locked = Format!ProtectionRead.locked
  BY <1>3 DEF Format!Protection
<1>5. /\ "protection" \in mixed => Format!FormatRead("locked")
        = "null" /\ Format!FormatRead("hidden") = "null"
      /\ "protection" \notin mixed => /\ Format!FormatRead("locked") = Format!ProtectionRead.locked
                                      /\ Format!FormatRead("hidden") = Format!ProtectionRead.hidden
  BY CellReads DEF Format!GetLocked, Format!GetFormulaHidden, Format!ProtectionRead
<1>6. \A u \in {"locked", "hidden"} \ C :
         \/ Format!FormatRead(u)' = Format!FormatRead(u)
         \/ u \in {"hori", "locked", "hidden"} /\ Format!FormatRead(u) = "null"
  BY <1>2, <1>4, <1>5
<1>7. \A p \in P : ReadBy(p) = {"locked", "hidden"}
  BY DEF ReadBy
<1>8. asked' = {a \in asked : a.what \notin C} \cup {[what |-> w, value |-> v]}
  BY DEF Format!Wrote, Format!WroteOver, Format!Except
<1>9. w \in Format!FormatWhats /\ v # "null" /\ Format!FormatRead(w)' = v
  BY <1>2, <1>4 DEF Format!FormatWhats, Format!OnOff
<1> HIDE DEF C, P
<1>10. FormatLeaves(C)
  BY <1>1, <1>6, <1>7, CellsLeave
<1>11. QED
  BY <1>8, <1>9, <1>10, FormatSet

LEMMA ProtectionKeeps ==
    ASSUME FormatFine, NEW v \in Format!OnOff, Format!SetLocked(v) \/ Format!SetFormulaHidden(v)
    PROVE  FormatFine'
<1>1. Format!ProtectionRead \in Format!Protection
  BY DEF FormatFine, Format!FormatOK, Format!ProtectionRead, Format!Protection,
     Format!Protected, Format!OnOff
<1>2. /\ [Format!ProtectionRead EXCEPT !.locked = v] \in Format!Protection
      /\ [Format!ProtectionRead EXCEPT !.hidden = v] \in Format!Protection
  BY <1>1 DEF Format!Protection
<1>3. CASE Format!SetLocked(v)
  BY <1>2, <1>3, ProtectionIs DEF Format!SetLocked
<1>4. CASE Format!SetFormulaHidden(v)
  BY <1>2, <1>4, ProtectionIs DEF Format!SetFormulaHidden
<1>5. QED
  BY <1>3, <1>4

LEMMA BorderLineIs ==
    ASSUME FormatFine, NEW l \in Format!Lines
    PROVE  DOMAIN LinesRead[l] = {"color", "width"} /\ LinesRead[l] = Format!LineRead(l)
  BY DEF FormatFine, Format!FormatOK, LinesRead, Format!LineRead, Format!NoLine, Format!Lines

LEMMA OtherCellsStay ==
    ASSUME fmt' = fmt, \A p \in Cells : p \in mixed' <=> p \in mixed
    PROVE  \A q \in Cells : \A u \in ReadBy(q) : Format!FormatRead(u)' = Format!FormatRead(u)
<1> DEFINE P == {}
<1>1. CellsStay(P) /\ \A q \in Cells : q \in Cells \ P
  BY DEF CellsStay
<1> HIDE DEF P
<1>2. QED
  BY <1>1, PlainStays

\* A call that writes lines leaves what is not read of them.
LEMMA BordersLeave ==
    ASSUME Format!FormatOK', UNCHANGED <<fmt, valid>>, \A p \in Cells :
           p \in mixed' <=> p \in mixed,
           NEW C, \A u \in BorderWhats \ C : Format!FormatRead(u)' = Format!FormatRead(u)
    PROVE  FormatLeaves(C)
<1>1. \A u \in ValidWhats : Format!FormatRead(u)' = Format!FormatRead(u)
  BY CellReads, CellReadsNext DEF ValidWhats
<1>2. \A q \in Cells : \A u \in ReadBy(q) : Format!FormatRead(u)' = Format!FormatRead(u)
  BY OtherCellsStay
<1>3. \A u \in Format!FormatWhats \ C : Format!FormatRead(u)' = Format!FormatRead(u)
  BY <1>1, <1>2, WhatsAre
<1>4. QED
  BY <1>3 DEF FormatLeaves

LEMMA LinesPut ==
    ASSUME FormatFine, NEW f, \A l \in Format!Lines : DOMAIN f[l] = {"color", "width"},
           UNCHANGED <<fmt, valid>>,
           \/ /\ border' = [l \in Format!Lines |-> f[l]] /\ mixed' = mixed \ Format!Lines
           \/ \E k \in Format!Lines :
                 /\ border' = [l \in Format!Lines |-> IF l = k THEN f[k] ELSE border[l]]
                 /\ mixed' = mixed \ {k}
                 /\ \A l \in Format!Lines : l # k => f[l] = LinesRead[l]
    PROVE  /\ Format!FormatOK' /\ UNCHANGED <<fmt, valid>>
           /\ \A p \in Cells : p \in mixed' <=> p \in mixed
           /\ LinesRead' = [l \in Format!Lines |-> f[l]]
<1>1. /\ \A l \in Format!Lines : Format!LineRead(l)' = f[l]
      /\ DOMAIN border' = Format!Lines
      /\ \A l \in Format!Lines : DOMAIN border'[l] = {"color", "width"}
      /\ \A p : p \notin Format!Lines => (p \in mixed' <=> p \in mixed)
  <2>1. CASE border' = [l \in Format!Lines |-> f[l]] /\ mixed' = mixed \ Format!Lines
    BY <2>1 DEF Format!LineRead
  <2>2. ASSUME NEW k \in Format!Lines,
               border' = [l \in Format!Lines |-> IF l = k THEN f[k] ELSE border[l]],
               mixed' = mixed \ {k},
               \A l \in Format!Lines : l # k => f[l] = LinesRead[l]
        PROVE  /\ \A l \in Format!Lines : Format!LineRead(l)' = f[l]
               /\ DOMAIN border' = Format!Lines
               /\ \A l \in Format!Lines : DOMAIN border'[l] = {"color", "width"}
               /\ \A p : p \notin Format!Lines => (p \in mixed' <=> p \in mixed)
    <3>1. \A l \in Format!Lines : l # k => f[l] = Format!LineRead(l)
      BY <2>2, BorderLineIs
    <3>2. \A l \in Format!Lines : DOMAIN border[l] = {"color", "width"}
      BY DEF FormatFine, Format!FormatOK
    <3>3. \A l \in Format!Lines : Format!LineRead(l)' = f[l]
      BY <2>2, <3>1 DEF Format!LineRead, Format!NoLine
    <3>4. QED
      BY <2>2, <3>2, <3>3
  <2>3. QED
    BY <2>1, <2>2
<1>2. Format!FormatOK'
  BY <1>1 DEF FormatFine, Format!FormatOK, Format!Formats, Format!NoValidation, Format!Lines,
              Format!Protection, Format!OnOff
<1>3. \A p \in Cells : p \notin Format!Lines
  BY CellsAre DEF Format!Lines
<1>4. QED
  BY <1>1, <1>2, <1>3 DEF LinesRead, Format!Lines

ColorWhats  == {"left.color", "left.colorIndex", "borders.color", "borders.colorIndex"}
WeightWhats == {"left.weight", "borders.weight"}

\* Colours leave the widths, and the other way round.
LEMMA ColorsLeave ==
    ASSUME Format!FormatOK', UNCHANGED <<fmt, valid>>, \A p \in Cells :
           p \in mixed' <=> p \in mixed,
           \A l \in Format!Lines : LinesRead'[l].width = LinesRead[l].width,
           NEW C, ColorWhats \subseteq C
    PROVE  FormatLeaves(C)
<1>1. Weights(LinesRead') = Weights(LinesRead) /\ LinesRead'["left"].width = LinesRead["left"].width
  BY DEF Weights, Format!Lines
<1>2. Weights(LinesRead)' = Weights(LinesRead')
  BY DEF Weights, Format!Lines, Format!WeightOf
<1>3. \A u \in BorderWhats \ C : Format!FormatRead(u)' = Format!FormatRead(u)
  BY <1>1, <1>2, BorderIs, BorderIsNext DEF BorderWhats, ColorWhats
<1>4. QED
  BY <1>3, BordersLeave

LEMMA WeightsLeave ==
    ASSUME Format!FormatOK', UNCHANGED <<fmt, valid>>, \A p \in Cells :
           p \in mixed' <=> p \in mixed,
           \A l \in Format!Lines : LinesRead'[l].color = LinesRead[l].color,
           NEW C, WeightWhats \subseteq C
    PROVE  FormatLeaves(C)
<1>1. /\ Colors(LinesRead') = Colors(LinesRead) /\ Indices(LinesRead') = Indices(LinesRead)
      /\ LinesRead'["left"].color = LinesRead["left"].color
  BY DEF Colors, Indices, Format!Lines
<1>2. \A u \in BorderWhats \ C : Format!FormatRead(u)' = Format!FormatRead(u)
  BY <1>1, BorderIs, BorderIsNext DEF BorderWhats, WeightWhats
<1>3. QED
  BY <1>2, BordersLeave

LEMMA SameIs ==
    ASSUME NEW x PROVE Format!Same({x}) = x /\ TheIndex({x}) = x
<1>1. Format!Cardinality({x}) = Cardinality({x})
  BY Zenon DEF Format!Cardinality, Cardinality
<1>2. Format!Cardinality({x}) = 1
  BY <1>1, FS_Singleton
<1>3. (CHOOSE y \in {x} : TRUE) = x
  OBVIOUS
<1>4. Format!Same({x}) = CHOOSE y \in {x} : TRUE
  BY <1>2 DEF Format!Same
<1>5. TheIndex({x}) = CHOOSE y \in {x} : TRUE
  BY <1>2 DEF TheIndex
<1>6. QED
  BY <1>3, <1>4, <1>5

\* The left border, or all of them, in a colour.
LEMMA OneColorIs ==
    ASSUME FormatFine, NEW c, Format!PutLine("left", [Format!LineRead("left") EXCEPT !.color = c]),
           NEW C, ColorWhats \subseteq C
    PROVE  FormatLeaves(C) /\ LinesRead'["left"].color = c
<1> DEFINE f == [l \in Format!Lines |-> IF l = "left"
      THEN [LinesRead["left"] EXCEPT !.color = c] ELSE LinesRead[l]]
<1>1. "left" \in Format!Lines
  BY DEF Format!Lines
<1>2. /\ f["left"] = [LinesRead["left"] EXCEPT !.color = c]
      /\ \A l \in Format!Lines : l # "left" => f[l] = LinesRead[l]
  BY <1>1
<1>3. /\ \A l \in Format!Lines : DOMAIN f[l] = {"color", "width"} /\ f[l].width = LinesRead[l].width
      /\ f["left"].color = c
  BY <1>1, <1>2, BorderLineIs
<1> HIDE DEF f
<1>4. /\ border' = [l \in Format!Lines |-> IF l = "left" THEN f["left"] ELSE border[l]]
      /\ mixed' = mixed \ {"left"} /\ UNCHANGED <<fmt, valid>>
  BY <1>1, <1>2, BorderLineIs DEF Format!PutLine
<1>5. /\ Format!FormatOK' /\ UNCHANGED <<fmt, valid>> /\ \A p \in Cells :
        p \in mixed' <=> p \in mixed
      /\ LinesRead' = [l \in Format!Lines |-> f[l]]
  BY <1>1, <1>2, <1>3, <1>4, LinesPut
<1>6. \A l \in Format!Lines : LinesRead'[l].width = LinesRead[l].width
  BY <1>3, <1>5
<1>7. LinesRead'["left"].color = c
  BY <1>1, <1>3, <1>5
<1>8. QED
  BY <1>5, <1>6, <1>7, ColorsLeave

LEMMA AllColorIs ==
    ASSUME FormatFine, NEW c,
           Format!PutLines([l \in Format!Lines |-> [Format!LineRead(l) EXCEPT !.color = c]]),
           NEW C, ColorWhats \subseteq C
    PROVE  FormatLeaves(C) /\ \A l \in Format!Lines : LinesRead'[l].color = c
<1> DEFINE f == [l \in Format!Lines |-> [LinesRead[l] EXCEPT !.color = c]]
<1>1. \A l \in Format!Lines : /\ DOMAIN f[l] = {"color", "width"}
                              /\ f[l].width = LinesRead[l].width /\ f[l].color = c
  BY BorderLineIs
<1>2. [l \in Format!Lines |-> f[l]]
        = [l \in Format!Lines |-> [Format!LineRead(l) EXCEPT !.color = c]]
  BY BorderLineIs
<1> HIDE DEF f
<1>3. /\ border' = [l \in Format!Lines |-> f[l]]
      /\ mixed' = mixed \ Format!Lines /\ UNCHANGED <<fmt, valid>>
  BY <1>2 DEF Format!PutLines
<1>4. /\ Format!FormatOK' /\ UNCHANGED <<fmt, valid>> /\ \A p \in Cells :
        p \in mixed' <=> p \in mixed
      /\ LinesRead' = [l \in Format!Lines |-> f[l]]
  BY <1>1, <1>3, LinesPut
<1>5. \A l \in Format!Lines : LinesRead'[l].width = LinesRead[l].width /\ LinesRead'[l].color = c
  BY <1>1, <1>4
<1>6. QED
  BY <1>4, <1>5, ColorsLeave

\* Their weights.
LEMMA OneWeightIs ==
    ASSUME FormatFine, NEW w, Format!PutLine("left", [Format!LineRead("left") EXCEPT !.width = w]),
           NEW C, WeightWhats \subseteq C
    PROVE  FormatLeaves(C) /\ LinesRead'["left"].width = w
<1> DEFINE f == [l \in Format!Lines |-> IF l = "left"
      THEN [LinesRead["left"] EXCEPT !.width = w] ELSE LinesRead[l]]
<1>1. "left" \in Format!Lines
  BY DEF Format!Lines
<1>2. /\ f["left"] = [LinesRead["left"] EXCEPT !.width = w]
      /\ \A l \in Format!Lines : l # "left" => f[l] = LinesRead[l]
  BY <1>1
<1>3. /\ \A l \in Format!Lines : DOMAIN f[l] = {"color", "width"} /\ f[l].color = LinesRead[l].color
      /\ f["left"].width = w
  BY <1>1, <1>2, BorderLineIs
<1> HIDE DEF f
<1>4. /\ border' = [l \in Format!Lines |-> IF l = "left" THEN f["left"] ELSE border[l]]
      /\ mixed' = mixed \ {"left"} /\ UNCHANGED <<fmt, valid>>
  BY <1>1, <1>2, BorderLineIs DEF Format!PutLine
<1>5. /\ Format!FormatOK' /\ UNCHANGED <<fmt, valid>> /\ \A p \in Cells :
        p \in mixed' <=> p \in mixed
      /\ LinesRead' = [l \in Format!Lines |-> f[l]]
  BY <1>1, <1>2, <1>3, <1>4, LinesPut
<1>6. \A l \in Format!Lines : LinesRead'[l].color = LinesRead[l].color
  BY <1>3, <1>5
<1>7. LinesRead'["left"].width = w
  BY <1>1, <1>3, <1>5
<1>8. QED
  BY <1>5, <1>6, <1>7, WeightsLeave

LEMMA AllWeightIs ==
    ASSUME FormatFine, NEW w,
           Format!PutLines([l \in Format!Lines |-> [Format!LineRead(l) EXCEPT !.width = w]]),
           NEW C, WeightWhats \subseteq C
    PROVE  FormatLeaves(C) /\ \A l \in Format!Lines : LinesRead'[l].width = w
<1> DEFINE f == [l \in Format!Lines |-> [LinesRead[l] EXCEPT !.width = w]]
<1>1. \A l \in Format!Lines : /\ DOMAIN f[l] = {"color", "width"}
                              /\ f[l].color = LinesRead[l].color /\ f[l].width = w
  BY BorderLineIs
<1>2. [l \in Format!Lines |-> f[l]]
        = [l \in Format!Lines |-> [Format!LineRead(l) EXCEPT !.width = w]]
  BY BorderLineIs
<1> HIDE DEF f
<1>3. /\ border' = [l \in Format!Lines |-> f[l]]
      /\ mixed' = mixed \ Format!Lines /\ UNCHANGED <<fmt, valid>>
  BY <1>2 DEF Format!PutLines
<1>4. /\ Format!FormatOK' /\ UNCHANGED <<fmt, valid>> /\ \A p \in Cells :
        p \in mixed' <=> p \in mixed
      /\ LinesRead' = [l \in Format!Lines |-> f[l]]
  BY <1>1, <1>3, LinesPut
<1>5. \A l \in Format!Lines : LinesRead'[l].color = LinesRead[l].color /\ LinesRead'[l].width = w
  BY <1>1, <1>4
<1>6. QED
  BY <1>4, <1>5, WeightsLeave

LEMMA OneColorKeeps ==
    ASSUME FormatFine, NEW c, Format!SetLineColor(c)
    PROVE  FormatFine'
<1> DEFINE C == {"left.color"} \cup (Format!ColorsOfAll \cup Format!ColorsOfOne)
<1>1. ColorWhats \subseteq C /\ "left.color" \in Format!FormatWhats
  BY DEF ColorWhats, Format!ColorsOfAll, Format!ColorsOfOne, Format!FormatWhats
<1>2. asked' = {a \in asked : a.what \notin C} \cup {[what |-> "left.color", value |-> c]}
  BY DEF Format!SetLineColor, Format!WroteOver, Format!Except
<1> HIDE DEF C
<1>3. FormatLeaves(C) /\ Format!FormatRead("left.color")' = c
  BY <1>1, OneColorIs, BorderIsNext DEF Format!SetLineColor
<1>4. QED
  BY <1>1, <1>2, <1>3, FormatSet

LEMMA OneColorIndexKeeps ==
    ASSUME FormatFine, NEW n, Format!SetLineColorIndex(n)
    PROVE  FormatFine'
<1> DEFINE C == {"left.colorIndex"} \cup (Format!ColorsOfAll \cup Format!ColorsOfOne)
<1>1. ColorWhats \subseteq C /\ "left.colorIndex" \in Format!FormatWhats
  BY DEF ColorWhats, Format!ColorsOfAll, Format!ColorsOfOne, Format!FormatWhats
<1>2. asked' = {a \in asked : a.what \notin C} \cup {[what |-> "left.colorIndex", value |-> n]}
  BY DEF Format!SetLineColorIndex, Format!WroteOver, Format!Except
<1> HIDE DEF C
<1>3. FormatLeaves(C) /\ Format!FormatRead("left.colorIndex")'
        = Format!FirstIndex(Format!Palette[Format!IndexOr(n, 1)])
  BY <1>1, OneColorIs, BorderIsNext DEF Format!SetLineColorIndex
<1>4. Format!FormatLoses([what |-> "left.colorIndex", value |-> n])
        \/ Format!FormatRead("left.colorIndex")' = n
  BY <1>3 DEF Format!FormatLoses, Format!IndexOr
<1>5. QED
  BY <1>1, <1>2, <1>3, <1>4, FormatSet

LEMMA AllColorKeeps ==
    ASSUME FormatFine, NEW c, Format!SetAllColor(c)
    PROVE  FormatFine'
<1> DEFINE C == {"borders.color"} \cup (Format!ColorsOfAll \cup Format!ColorsOfOne)
<1>1. ColorWhats \subseteq C /\ "borders.color" \in Format!FormatWhats
  BY DEF ColorWhats, Format!ColorsOfAll, Format!ColorsOfOne, Format!FormatWhats
<1>2. asked' = {a \in asked : a.what \notin C} \cup {[what |-> "borders.color", value |-> c]}
  BY DEF Format!SetAllColor, Format!WroteOver, Format!Except
<1> HIDE DEF C
<1>3. FormatLeaves(C) /\ \A l \in Format!Lines : LinesRead'[l].color = c
  BY <1>1, AllColorIs DEF Format!SetAllColor
<1>4. Colors(LinesRead') = {c}
  BY <1>3 DEF Colors, Format!Lines
<1>5. Format!FormatRead("borders.color")' = c
  BY <1>4, BorderIsNext, SameIs
<1>6. QED
  BY <1>1, <1>2, <1>3, <1>5, FormatSet

LEMMA AllColorIndexKeeps ==
    ASSUME FormatFine, NEW n, Format!SetAllColorIndex(n)
    PROVE  FormatFine'
<1> DEFINE C == {"borders.colorIndex"} \cup (Format!ColorsOfAll \cup Format!ColorsOfOne)
           c == Format!Palette[Format!IndexOr(n, 1)]
<1>1. ColorWhats \subseteq C /\ "borders.colorIndex" \in Format!FormatWhats
  BY DEF ColorWhats, Format!ColorsOfAll, Format!ColorsOfOne, Format!FormatWhats
<1>2. asked' = {a \in asked : a.what \notin C} \cup {[what |-> "borders.colorIndex", value |-> n]}
  BY DEF Format!SetAllColorIndex, Format!WroteOver, Format!Except
<1> HIDE DEF C
<1>3. FormatLeaves(C) /\ \A l \in Format!Lines : LinesRead'[l].color = c
  BY <1>1, AllColorIs DEF Format!SetAllColorIndex
<1> HIDE DEF c
<1>4. Indices(LinesRead') = {Format!FirstIndex(c)}
  BY <1>3 DEF Indices, Format!Lines
<1>5. Format!FormatRead("borders.colorIndex")' = Format!FirstIndex(c)
  BY <1>4, BorderIsNext, SameIs
<1>6. Format!FormatLoses([what |-> "borders.colorIndex", value |-> n])
        \/ Format!FormatRead("borders.colorIndex")' = n
  BY <1>5 DEF Format!FormatLoses, Format!IndexOr, c
<1>7. QED
  BY <1>1, <1>2, <1>3, <1>6, FormatSet

LEMMA WeightIs ==
    ASSUME NEW w \in DOMAIN Format!Widths
    PROVE  Format!WeightOf(Format!Widths[w]) = w
  BY DEF Format!WeightOf, Format!Widths

LEMMA OneWeightKeeps ==
    ASSUME FormatFine, NEW w \in DOMAIN Format!Widths \cup {"other"}, Format!SetLineWeight(w)
    PROVE  FormatFine'
<1>1. CASE UNCHANGED Format!formatVars /\ Format!Throws
  BY <1>1, FormatRefused DEF Format!Throws, Format!formatVars, formatVars
<1>2. CASE /\ w \in DOMAIN Format!Widths
           /\ Format!PutLine("left", [Format!LineRead("left") EXCEPT !.width = Format!Widths[w]])
           /\ Format!WroteOver("left.weight", w, {"borders.weight"})
  <2> DEFINE C == {"left.weight"} \cup {"borders.weight"}
  <2>1. WeightWhats \subseteq C /\ "left.weight" \in Format!FormatWhats
    BY DEF WeightWhats, Format!FormatWhats
  <2>2. asked' = {a \in asked : a.what \notin C} \cup {[what |-> "left.weight", value |-> w]}
    BY <1>2 DEF Format!WroteOver, Format!Except
  <2> HIDE DEF C
  <2>3. FormatLeaves(C) /\ LinesRead'["left"].width = Format!Widths[w]
    BY <1>2, <2>1, OneWeightIs
  <2>4. Format!FormatRead("left.weight")' = w
    BY <1>2, <2>3, BorderIsNext, WeightIs
  <2>5. QED
    BY <2>1, <2>2, <2>3, <2>4, FormatSet
<1>3. QED
  BY <1>1, <1>2 DEF Format!SetLineWeight

LEMMA AllWeightKeeps ==
    ASSUME FormatFine, NEW w \in DOMAIN Format!Widths \cup {"other"}, Format!SetAllWeight(w)
    PROVE  FormatFine'
<1>1. CASE UNCHANGED Format!formatVars /\ Format!Throws
  BY <1>1, FormatRefused DEF Format!Throws, Format!formatVars, formatVars
<1>2. CASE /\ w \in DOMAIN Format!Widths
           /\ Format!PutLines([l \in Format!Lines |-> [Format!LineRead(l) EXCEPT !.width
                = Format!Widths[w]]])
           /\ Format!WroteOver("borders.weight", w, {"left.weight"})
  <2> DEFINE C == {"borders.weight"} \cup {"left.weight"}
  <2>1. WeightWhats \subseteq C /\ "borders.weight" \in Format!FormatWhats
    BY DEF WeightWhats, Format!FormatWhats
  <2>2. asked' = {a \in asked : a.what \notin C} \cup {[what |-> "borders.weight", value |-> w]}
    BY <1>2 DEF Format!WroteOver, Format!Except
  <2> HIDE DEF C
  <2>3. FormatLeaves(C) /\ \A l \in Format!Lines : LinesRead'[l].width = Format!Widths[w]
    BY <1>2, <2>1, AllWeightIs
  <2>4. \A l \in Format!Lines : Format!WeightOf(LinesRead'[l].width) = w
    BY <1>2, <2>3, WeightIs
  <2>5. Weights(LinesRead') = {w}
    BY <2>4 DEF Weights, Format!Lines
  <2>6. Format!FormatRead("borders.weight")' = w
    BY <2>5, BorderIsNext, SameIs
  <2>7. QED
    BY <2>1, <2>2, <2>3, <2>6, FormatSet
<1>3. QED
  BY <1>1, <1>2 DEF Format!SetAllWeight

\* Writing lines as they are read.
LEMMA StylesKeep ==
    ASSUME FormatFine, Format!SetLineStyle \/ Format!SetAllLineStyle
    PROVE  FormatFine'
<1> DEFINE f == LinesRead
           C == {}
<1>1. /\ "left" \in Format!Lines /\ \A l \in Format!Lines : f[l] = Format!LineRead(l)
      /\ \A l \in Format!Lines : DOMAIN f[l] = {"color", "width"}
  BY BorderLineIs DEF Format!Lines
<1> HIDE DEF f
<1>2. /\ UNCHANGED <<fmt, valid>>
      /\ \/ /\ border' = [l \in Format!Lines |-> f[l]] /\ mixed' = mixed \ Format!Lines
         \/ /\ border' = [l \in Format!Lines |-> IF l = "left" THEN f["left"] ELSE border[l]]
            /\ mixed' = mixed \ {"left"}
  BY <1>1 DEF Format!SetLineStyle, Format!SetAllLineStyle, Format!PutLine, Format!PutLines
<1>3. \A l \in Format!Lines : l # "left" => f[l] = LinesRead[l]
  BY DEF f
<1>4. /\ Format!FormatOK' /\ UNCHANGED <<fmt, valid>>
      /\ \A p \in Cells : p \in mixed' <=> p \in mixed
      /\ LinesRead' = [l \in Format!Lines |-> f[l]]
  BY <1>1, <1>2, <1>3, LinesPut
<1>5. LinesRead' = LinesRead
  BY <1>4 DEF f, LinesRead
<1>6. asked' = {a \in asked : a.what \notin C}
  BY DEF Format!SetLineStyle, Format!SetAllLineStyle, Format!Answers
<1> HIDE DEF C
<1>7. FormatLeaves(C)
  BY <1>4, <1>5, BorderStays, BordersLeave
<1>8. QED
  BY <1>6, <1>7, FormatOther

\* The validation.
ValidFields == {"type", "blank", "input", "error", "list", "errorTitle", "inputTitle", "inputText",
                "errorText", "alert", "formula"}

LEMMA ValidIs ==
    ASSUME FormatFine PROVE DOMAIN valid = ValidFields /\ valid["input"] = "on"
  BY DEF FormatFine, Format!FormatOK, Format!NoValidation, ValidFields

LEMMA ValidLeaves ==
    ASSUME FormatFine, UNCHANGED <<fmt, mixed, border>>, DOMAIN valid' = ValidFields,
           valid'["input"] = "on", NEW C, \A u \in ValidWhats \ C : valid'[u] = valid[u]
    PROVE  FormatLeaves(C)
<1>1. Format!FormatOK'
  BY DEF FormatFine, Format!FormatOK, Format!Formats, Format!NoValidation, Format!Lines,
         Format!Protection, Format!OnOff, ValidFields
<1>2. \A u \in BorderWhats : Format!FormatRead(u)' = Format!FormatRead(u)
  BY LinesStay, BorderStays
<1>3. \A u \in ValidWhats \ C : Format!FormatRead(u)' = Format!FormatRead(u)
  BY CellReads, CellReadsNext DEF ValidWhats
<1>4. \A q \in Cells : \A u \in ReadBy(q) : Format!FormatRead(u)' = Format!FormatRead(u)
  BY OtherCellsStay
<1>5. \A u \in Format!FormatWhats \ C : Format!FormatRead(u)' = Format!FormatRead(u)
  BY <1>2, <1>3, <1>4, WhatsAre
<1>6. QED
  BY <1>1, <1>5 DEF FormatLeaves

LEMMA ValidSet ==
    ASSUME FormatFine, NEW p \in ValidWhats, p # "input", NEW v,
           Format!PutValidation([valid EXCEPT ![p] = v]),
           Format!Wrote(p, v)
    PROVE  FormatFine'
<1> DEFINE C == {p} \cup {}
<1>1. /\ UNCHANGED <<fmt, mixed, border>> /\ DOMAIN valid' = ValidFields
      /\ \A u \in ValidWhats \ C : valid'[u] = valid[u]
      /\ valid'[p] = v /\ valid'["input"] = "on"
  BY ValidIs DEF Format!PutValidation, ValidFields, ValidWhats
<1>2. asked' = {a \in asked : a.what \notin C} \cup {[what |-> p, value |-> v]}
  BY DEF Format!Wrote, Format!WroteOver, Format!Except
<1>3. p \in Format!FormatWhats /\ p \notin {"hori", "locked", "hidden"}
  BY DEF ValidWhats, Format!FormatWhats
<1>4. Format!FormatRead(p)' = v
  BY <1>1, CellReadsNext DEF ValidWhats
<1> HIDE DEF C
<1>5. FormatLeaves(C)
  BY <1>1, ValidLeaves
<1>6. QED
  BY <1>2, <1>3, <1>4, <1>5, FormatSet

LEMMA BlankKeeps ==
    ASSUME FormatFine, NEW v, Format!SetIgnoreBlank(v) PROVE FormatFine'
<1>1. Format!PutValidation([valid EXCEPT !["blank"] = v]) /\ Format!Wrote("blank", v)
  BY DEF Format!SetIgnoreBlank
<1>2. QED
  BY <1>1, ValidSet DEF ValidWhats

LEMMA DropdownKeeps ==
    ASSUME FormatFine, NEW v, Format!SetInCellDropdown(v) PROVE FormatFine'
<1>1. Format!PutValidation([valid EXCEPT !["list"] = v]) /\ Format!Wrote("list", v)
  BY DEF Format!SetInCellDropdown
<1>2. QED
  BY <1>1, ValidSet DEF ValidWhats

LEMMA ShowErrorKeeps ==
    ASSUME FormatFine, NEW v, Format!SetShowError(v) PROVE FormatFine'
<1>1. Format!PutValidation([valid EXCEPT !["error"] = v]) /\ Format!Wrote("error", v)
  BY DEF Format!SetShowError
<1>2. QED
  BY <1>1, ValidSet DEF ValidWhats

LEMMA ErrorTitleKeeps ==
    ASSUME FormatFine, NEW v, Format!SetErrorTitle(v) PROVE FormatFine'
<1>1. Format!PutValidation([valid EXCEPT !["errorTitle"] = v]) /\ Format!Wrote("errorTitle", v)
  BY DEF Format!SetErrorTitle
<1>2. QED
  BY <1>1, ValidSet DEF ValidWhats

LEMMA InputTextKeeps ==
    ASSUME FormatFine, NEW v, Format!SetInputMessage(v) PROVE FormatFine'
<1>1. Format!PutValidation([valid EXCEPT !["inputText"] = v]) /\ Format!Wrote("inputText", v)
  BY DEF Format!SetInputMessage
<1>2. QED
  BY <1>1, ValidSet DEF ValidWhats

LEMMA InputTitleKeeps ==
    ASSUME FormatFine, NEW v, Format!SetInputTitle(v) PROVE FormatFine'
<1>1. Format!PutValidation([valid EXCEPT !["inputTitle"] = v]) /\ Format!Wrote("inputTitle", v)
  BY DEF Format!SetInputTitle
<1>2. QED
  BY <1>1, ValidSet DEF ValidWhats

LEMMA ErrorTextKeeps ==
    ASSUME FormatFine, NEW v, Format!SetErrorMessage(v) PROVE FormatFine'
<1>1. Format!PutValidation([valid EXCEPT !["errorText"] = v]) /\ Format!Wrote("errorText", v)
  BY DEF Format!SetErrorMessage
<1>2. QED
  BY <1>1, ValidSet DEF ValidWhats

\* The property of IgnoreBlank is written, and ShowInput is on as before.
LEMMA ShowInputKeeps ==
    ASSUME FormatFine, NEW v \in Format!OnOff, Format!SetShowInput(v)
    PROVE  FormatFine'
<1> DEFINE C == {"input"} \cup {"blank"}
<1>1. /\ UNCHANGED <<fmt, mixed, border>> /\ DOMAIN valid' = ValidFields
      /\ valid'["input"] = "on" /\ \A u \in ValidWhats \ C : valid'[u] = valid[u]
  BY ValidIs DEF Format!SetShowInput, Format!PutValidation, ValidFields, ValidWhats
<1>2. asked' = {a \in asked : a.what \notin C} \cup {[what |-> "input", value |-> v]}
  BY DEF Format!SetShowInput, Format!WroteAtCost, Format!WroteOver, Format!Except
<1> HIDE DEF C
<1>3. FormatLeaves(C)
  BY <1>1, ValidLeaves
<1>4. "input" \in Format!FormatWhats /\ Format!FormatRead("input")' = "on"
  BY <1>1, CellReadsNext DEF Format!FormatWhats
<1>5. Format!FormatLoses([what |-> "input", value |-> v]) \/ Format!FormatRead("input")' = v
  BY <1>4 DEF Format!FormatLoses, Format!OnOff
<1>6. QED
  BY <1>2, <1>3, <1>4, <1>5, FormatSet

\* Delete takes back all but the list, the title of the input and the text of the error.
LEMMA DeletedIs ==
    ASSUME FormatFine
    PROVE  /\ DOMAIN Format!Deleted(valid) = ValidFields
           /\ Format!Deleted(valid)["input"] = "on"
           /\ \A u \in {"list", "inputTitle", "errorText"} : Format!Deleted(valid)[u] = valid[u]
<1> DEFINE none == ""
<1>1. Format!Deleted(valid) =
        [valid EXCEPT !.blank = "on", !.input = "on", !.error = "on", !.errorTitle = none,
                      !.inputText = none, !.alert = "stop", !.type = "any", !.formula = none]
  BY DEF Format!Deleted
<1> HIDE DEF none
<1>2. QED
  BY <1>1, ValidIs DEF ValidFields

LEMMA DeleteLeaves ==
    ASSUME FormatFine, Format!PutValidation(Format!Deleted(valid))
    PROVE  FormatLeaves(Format!ResetByDelete)
<1> DEFINE C == Format!ResetByDelete
<1>1. UNCHANGED <<fmt, mixed, border>> /\ valid' = Format!Deleted(valid)
  BY DEF Format!PutValidation
<1>2. /\ DOMAIN valid' = ValidFields /\ valid'["input"] = "on"
      /\ \A u \in ValidWhats \ C : valid'[u] = valid[u]
  BY <1>1, DeletedIs DEF ValidFields, ValidWhats, Format!ResetByDelete
<1> HIDE DEF C
<1>3. FormatLeaves(C)
  BY <1>1, <1>2, ValidLeaves
<1>4. QED
  BY <1>3 DEF C

LEMMA DeleteKeeps ==
    ASSUME FormatFine, Format!DeleteValidation
    PROVE  FormatFine'
<1> DEFINE C == Format!ResetByDelete
<1>1. FormatLeaves(C)
  BY DeleteLeaves DEF Format!DeleteValidation
<1>2. asked' = {a \in asked : a.what \notin C}
  BY DEF Format!DeleteValidation, Format!Changes, Format!Except
<1> HIDE DEF C
<1>3. QED
  BY <1>1, <1>2, FormatOther

\* Add that goes well: the settings are those from before, but for the new ones.
LEMMA AddedLeaves ==
    ASSUME FormatFine, NEW type, NEW alert, NEW formula, NEW C,
           formula = valid.formula \/ "formula" \in C,
           Format!PutValidation([valid EXCEPT !.type = type, !.alert = alert,
                                              !.formula = formula])
    PROVE  FormatLeaves(C) /\ Format!FormatRead("formula")' = formula
<1>1. /\ UNCHANGED <<fmt, mixed, border>>
      /\ valid' = [valid EXCEPT !.type = type, !.alert = alert, !.formula = formula]
  BY DEF Format!PutValidation
<1>2. /\ DOMAIN valid' = ValidFields /\ valid'["input"] = "on" /\ valid'["formula"] = formula
      /\ \A u \in ValidWhats \ C : valid'[u] = valid[u]
  BY <1>1, ValidIs DEF ValidFields, ValidWhats
<1>3. Format!FormatRead("formula")' = formula
  BY <1>2, CellReadsNext
<1>4. QED
  BY <1>1, <1>2, <1>3, ValidLeaves

LEMMA AddValidationKeeps ==
    ASSUME FormatFine, NEW type, NEW alert, NEW formula, Format!AddValidation(type, alert, formula)
    PROVE  FormatFine'
<1>1. CASE UNCHANGED Format!formatVars /\ Format!Throws
  BY <1>1, FormatRefused DEF Format!Throws, Format!formatVars, formatVars
<1>2. CASE /\ Format!PutValidation(Format!Deleted(valid))
           /\ Format!Spoils(Format!ResetByDelete)
  <2> DEFINE C == Format!ResetByDelete
  <2>1. FormatLeaves(C)
    BY <1>2, DeleteLeaves
  <2>2. asked' = {a \in asked : a.what \notin C}
    BY <1>2 DEF Format!Spoils, Format!Except
  <2> HIDE DEF C
  <2>3. QED
    BY <2>1, <2>2, FormatOther
<1> DEFINE none == ""
           keeps == formula \in {none, "missing"}
           new == IF keeps THEN valid.formula ELSE formula
<1>3. ASSUME Format!PutValidation([valid EXCEPT !.type = type, !.alert = alert,
                                                !.formula = new]),
             IF keeps THEN Format!Answers ELSE Format!Wrote("formula", formula)
      PROVE  FormatFine'
  <2>1. CASE keeps
    <3> DEFINE C == {}
    <3>1. new = valid.formula
      BY <2>1
    <3> HIDE DEF new
    <3>2. FormatLeaves(C)
      BY <1>3, <3>1, AddedLeaves
    <3>3. asked' = {a \in asked : a.what \notin C}
      BY <1>3, <2>1 DEF Format!Answers
    <3> HIDE DEF C
    <3>4. QED
      BY <3>2, <3>3, FormatOther
  <2>2. CASE ~keeps
    <3> DEFINE C == {"formula"} \cup {}
    <3>1. new = formula
      BY <2>2
    <3> HIDE DEF new
    <3>2. FormatLeaves(C) /\ Format!FormatRead("formula")' = formula
      BY <1>3, <3>1, AddedLeaves
    <3>3. asked' = {a \in asked : a.what \notin C} \cup {[what |-> "formula", value |-> formula]}
      BY <1>3, <2>2 DEF Format!Wrote, Format!WroteOver, Format!Except
    <3>4. "formula" \in Format!FormatWhats
      BY DEF Format!FormatWhats
    <3> HIDE DEF C
    <3>5. QED
      BY <3>2, <3>3, <3>4, FormatSet
  <2>3. QED
    BY <2>1, <2>2
<1>4. \/ UNCHANGED Format!formatVars /\ Format!Throws
      \/ /\ Format!PutValidation(Format!Deleted(valid))
         /\ Format!Spoils(Format!ResetByDelete)
      \/ /\ Format!PutValidation([valid EXCEPT !.type = type, !.alert = alert, !.formula = new])
         /\ IF keeps THEN Format!Answers ELSE Format!Wrote("formula", formula)
  BY DEF Format!AddValidation
<1> HIDE DEF none, keeps, new
<1>5. QED
  BY <1>1, <1>2, <1>3, <1>4

\* The calls.
LEMMA FormatStays ==
    ASSUME FormatFine, UNCHANGED Format!formatVars, Format!Throws \/ Format!Answers
    PROVE  FormatFine'
  BY FormatRefused DEF Format!Throws, Format!Answers, Format!formatVars, formatVars

LEMMA SetsCellKeeps == ASSUME FormatFine, Format!SetsCell PROVE FormatFine'
<1>1. ASSUME NEW v \in {"top", "center", "bottom", "justify"}, Format!SetVerticalAlignment(v)
      PROVE  FormatFine'
  BY <1>1, VerticalKeeps DEF Format!SetVerticalAlignment, Format!Wrote
<1>2. ASSUME NEW v \in {"left", "right", "justify", "distributed", "general"},
             Format!SetHorizontalAlignment(v)
      PROVE  FormatFine'
  BY <1>2, HorizontalKeeps, FormatStays DEF Format!SetHorizontalAlignment, Format!Wrote
<1>3. ASSUME NEW v \in {"horizontal", "up", "stacked"}, Format!SetOrientation(v) PROVE FormatFine'
  BY <1>3, OrientationKeeps
<1>4. ASSUME NEW v \in {"general", "0.00"}, Format!SetNumberFormat(v) PROVE FormatFine'
  BY <1>4, NumberKeeps DEF Format!SetNumberFormat
<1>5. ASSUME NEW v \in {"general", "0.00"}, Format!SetNumberFormatLocal(v) PROVE FormatFine'
  BY <1>5, NumberLocalKeeps DEF Format!SetNumberFormatLocal
<1>6. ASSUME NEW n \in {0, 1, 15}, Format!SetIndentLevel(n) PROVE FormatFine'
  BY <1>6, IndentKeeps
<1>7. ASSUME NEW v \in Format!OnOff, Format!SetWrapText(v) PROVE FormatFine'
  BY <1>7, WrapKeeps DEF Format!SetWrapText, Format!Wrote
<1>8. ASSUME NEW v \in Format!OnOff, Format!SetShrinkToFit(v) PROVE FormatFine'
  BY <1>8, ShrinkKeeps DEF Format!SetShrinkToFit, Format!Wrote
<1>9. ASSUME NEW v \in Format!OnOff, Format!SetLocked(v) \/ Format!SetFormulaHidden(v)
      PROVE  FormatFine'
  BY <1>9, ProtectionKeeps
<1>10. ASSUME NEW v \in {"lr", "rl", "context"}, Format!SetReadingOrder(v) PROVE FormatFine'
  BY <1>10, ModeKeeps, FormatStays DEF Format!SetReadingOrder, Format!Wrote
<1>11. QED
  BY <1>1, <1>2, <1>3, <1>4, <1>5, <1>6, <1>7, <1>8, <1>9, <1>10 DEF Format!SetsCell

LEMMA SetsFontKeeps == ASSUME FormatFine, Format!SetsFont PROVE FormatFine'
<1>1. ASSUME NEW v \in Format!OnOff, Format!SetSuperscript(v) PROVE FormatFine'
  BY <1>1, SuperscriptKeeps DEF Format!SetSuperscript, Format!WroteAtCost
<1>2. ASSUME NEW v \in Format!OnOff, Format!SetSubscript(v) PROVE FormatFine'
  BY <1>2, SubscriptKeeps DEF Format!SetSubscript, Format!WroteAtCost
<1>3. ASSUME NEW v \in Format!OnOff, Format!SetBold(v) PROVE FormatFine'
  BY <1>3, BoldKeeps DEF Format!SetBold, Format!Wrote
<1>4. ASSUME NEW v \in Format!OnOff, Format!SetItalic(v) PROVE FormatFine'
  BY <1>4, ItalicKeeps DEF Format!SetItalic, Format!Wrote
<1>5. ASSUME NEW v \in Format!OnOff, Format!SetStrikethrough(v) PROVE FormatFine'
  BY <1>5, StrikeKeeps DEF Format!SetStrikethrough, Format!Wrote
<1>6. ASSUME NEW v \in Format!OnOff, Format!SetShadow(v) PROVE FormatFine'
  BY <1>6, ShadowKeeps DEF Format!SetShadow, Format!Wrote
<1>7. ASSUME Format!SetSize("12") PROVE FormatFine'
  BY <1>7, SizeKeeps DEF Format!SetSize, Format!Wrote
<1>8. ASSUME Format!SetName("Courier") PROVE FormatFine'
  BY <1>8, FontNameKeeps DEF Format!SetName, Format!Wrote
<1>9. ASSUME Format!FontRefused PROVE FormatFine'
  BY <1>9, FormatStays DEF Format!FontRefused
<1>10. ASSUME NEW c, Format!SetFontColor(c) PROVE FormatFine'
  BY <1>10, FontColorKeeps DEF Format!SetFontColor
<1>11. ASSUME NEW c, Format!SetBackColor(c) PROVE FormatFine'
  BY <1>11, BackColorKeeps DEF Format!SetBackColor
<1>12. ASSUME NEW n, Format!SetFontColorIndex(n) PROVE FormatFine'
  BY <1>12, FontColorIndexKeeps DEF Format!SetFontColorIndex
<1>13. ASSUME NEW n, Format!SetBackColorIndex(n) PROVE FormatFine'
  BY <1>13, BackColorIndexKeeps DEF Format!SetBackColorIndex
<1>14. ASSUME NEW v, Format!SetUnderline(v) PROVE FormatFine'
  BY <1>14, UnderlineKeeps, FormatStays DEF Format!SetUnderline, Format!Wrote
<1>15. QED
  BY <1>1, <1>2, <1>3, <1>4, <1>5, <1>6, <1>7, <1>8, <1>9, <1>10, <1>11, <1>12, <1>13, <1>14
     DEF Format!SetsFont

LEMMA SetsBorderKeeps == ASSUME FormatFine, Format!SetsBorder PROVE FormatFine'
<1>1. ASSUME NEW c, Format!SetLineColor(c) \/ Format!SetAllColor(c) PROVE FormatFine'
  BY <1>1, OneColorKeeps, AllColorKeeps
<1>2. ASSUME NEW n, Format!SetLineColorIndex(n) \/ Format!SetAllColorIndex(n) PROVE FormatFine'
  BY <1>2, OneColorIndexKeeps, AllColorIndexKeeps
<1>3. ASSUME NEW w \in DOMAIN Format!Widths \cup {"other"},
             Format!SetLineWeight(w) \/ Format!SetAllWeight(w)
      PROVE  FormatFine'
  BY <1>3, OneWeightKeeps, AllWeightKeeps
<1>4. ASSUME Format!SetLineStyleUnknown \/ Format!SetDiagonal \/ Format!EnumerateBorders
      PROVE  FormatFine'
  BY <1>4, FormatStays DEF Format!SetLineStyleUnknown, Format!SetDiagonal, Format!EnumerateBorders
<1>5. QED
  BY <1>1, <1>2, <1>3, <1>4, StylesKeep DEF Format!SetsBorder

LEMMA SetsValidationKeeps == ASSUME FormatFine, Format!SetsValidation PROVE FormatFine'
<1>1. ASSUME NEW v \in Format!OnOff,
             Format!SetIgnoreBlank(v) \/ Format!SetInCellDropdown(v) \/ Format!SetShowInput(v)
                    \/ Format!SetShowError(v)
      PROVE  FormatFine'
  BY <1>1, BlankKeeps, DropdownKeeps, ShowInputKeeps, ShowErrorKeeps
<1>2. ASSUME NEW v, Format!SetErrorTitle(v) \/ Format!SetInputMessage(v) \/ Format!SetInputTitle(v)
                    \/ Format!SetErrorMessage(v)
      PROVE  FormatFine'
  BY <1>2, ErrorTitleKeeps, InputTextKeeps, InputTitleKeeps, ErrorTextKeeps
<1>3. ASSUME NEW type, NEW alert, NEW formula, Format!AddValidation(type, alert, formula)
      PROVE  FormatFine'
  BY <1>3, AddValidationKeeps
<1> DEFINE Texts == {"missing", "", "1"}
<1>4. ASSUME \E type \in {"list", "whole", "other", "missing"}, alert \in {"stop", "info", "unknown"},
                formula \in Texts : Format!AddValidation(type, alert, formula)
      PROVE  FormatFine'
  <2> HIDE DEF Texts
  <2>1. QED
    BY <1>3, <1>4
<1>5. \/ \E v \in Format!OnOff : \/ Format!SetIgnoreBlank(v) \/ Format!SetInCellDropdown(v)
                                 \/ Format!SetShowInput(v) \/ Format!SetShowError(v)
      \/ Format!SetErrorTitle("text") \/ Format!SetInputMessage("text")
      \/ Format!SetInputTitle("text") \/ Format!SetErrorMessage("text")
      \/ Format!DeleteValidation
      \/ \E type \in {"list", "whole", "other", "missing"}, alert \in {"stop", "info", "unknown"},
            formula \in Texts : Format!AddValidation(type, alert, formula)
  BY DEF Format!SetsValidation
<1> HIDE DEF Texts
<1>6. QED
  BY <1>1, <1>2, <1>4, <1>5, DeleteKeeps

LEMMA FormatCallKeeps == ASSUME FormatFine, Format!FormatCall PROVE FormatFine'
  BY SetsCellKeeps, SetsFontKeeps, SetsBorderKeeps, SetsValidationKeeps DEF Format!FormatCall

-----------------------------------------------------------------------------
(* Charts *)

\* What tells the types of a family apart.
LEMMA FieldsAre ==
    ASSUME NEW t, NEW family, NEW solid, NEW dir, NEW stack, NEW d3, NEW deep, NEW marks,
           NEW lines, NEW updown, NEW volume, NEW variant,
           t = [family |-> family, solid |-> solid, dir |-> dir, stack |-> stack, d3 |-> d3,
                deep |-> deep, marks |-> marks, lines |-> lines, updown |-> updown,
                volume |-> volume, variant |-> variant]
    PROVE  /\ t.family = family /\ t.solid = solid /\ t.dir = dir /\ t.stack = stack
           /\ t.d3 = d3 /\ t.deep = deep /\ t.marks = marks /\ t.lines = lines
           /\ t.updown = updown /\ t.volume = volume /\ t.variant = variant
  OBVIOUS

LEMMA FlatIs ==
    ASSUME NEW t,
           NEW d \in {"column", "bar"},
           NEW s \in Chart!Stacks,
           t = Chart!Flat(d, s)
    PROVE  t.family = "bar" /\ t.dir = d /\ t.stack = s /\ t.variant = "plain" /\ ~t.deep /\ ~t.d3
<1>1. t = [family |-> "bar", solid |-> "rectangle", dir |-> d, stack |-> s, d3 |-> FALSE,
               deep |-> FALSE, marks |-> FALSE, lines |-> "none", updown |-> FALSE,
               volume |-> FALSE, variant |-> "plain"]
  BY DEF Chart!Basic, Chart!Flat
<1>2. QED
  BY <1>1

LEMMA SolidIs ==
    ASSUME NEW t,
           NEW d \in {"column", "bar"},
           NEW s \in Chart!Stacks,
           NEW f \in Chart!Solids,
           t = Chart!Solid(d, s, f)
    PROVE  t.family = "bar" /\ t.dir = d /\ t.stack = s /\ t.d3 /\ t.solid = f /\ t.variant
           = "plain" /\ ~t.deep
<1>1. t = [family |-> "bar", solid |-> f, dir |-> d, stack |-> s, d3 |-> TRUE,
               deep |-> FALSE, marks |-> FALSE, lines |-> "none", updown |-> FALSE,
               volume |-> FALSE, variant |-> "plain"]
  BY DEF Chart!Basic, Chart!Flat, Chart!Solid
<1>2. QED
  BY <1>1

LEMMA DeepIs ==
    ASSUME NEW t,
           NEW f \in Chart!Solids,
           t = Chart!Deep(f)
    PROVE  t.family = "bar" /\ t.d3 /\ t.deep /\ t.solid = f /\ t.variant = "plain"
<1>1. t = [family |-> "bar", solid |-> f, dir |-> "column", stack |-> "none", d3 |-> TRUE,
               deep |-> TRUE, marks |-> FALSE, lines |-> "none", updown |-> FALSE,
               volume |-> FALSE, variant |-> "plain"]
  BY DEF Chart!Basic, Chart!Deep
<1>2. QED
  BY <1>1

LEMMA LineTypeIs ==
    ASSUME NEW t,
           NEW s \in Chart!Stacks,
           NEW b \in BOOLEAN,
           t = Chart!Line(s, b)
    PROVE  t.family = "line" /\ t.stack = s /\ t.marks = b /\ t.variant
           = "plain" /\ ~t.deep /\ ~t.d3
<1>1. t = [family |-> "line", solid |-> "rectangle", dir |-> "column", stack |-> s, d3 |-> FALSE,
               deep |-> FALSE, marks |-> b, lines |-> "none", updown |-> FALSE,
               volume |-> FALSE, variant |-> "plain"]
  BY DEF Chart!Basic, Chart!Line
<1>2. QED
  BY <1>1

LEMMA AreaIs ==
    ASSUME NEW t,
           NEW s \in Chart!Stacks,
           NEW b \in BOOLEAN,
           t = Chart!Area(s, b)
    PROVE  t.family = "area" /\ t.stack = s /\ t.d3 = b /\ t.variant = "plain" /\ ~t.deep
<1>1. t = [family |-> "area", solid |-> "rectangle", dir |-> "column", stack |-> s, d3 |-> b,
               deep |-> FALSE, marks |-> FALSE, lines |-> "none", updown |-> FALSE,
               volume |-> FALSE, variant |-> "plain"]
  BY DEF Chart!Basic, Chart!Area
<1>2. QED
  BY <1>1

LEMMA PieIs ==
    ASSUME NEW t,
           NEW b \in BOOLEAN,
           NEW v \in {"plain", "exploded"},
           t = Chart!Pie(b, v)
    PROVE  t.family = "pie" /\ t.d3 = b /\ t.variant = v /\ ~t.deep
<1>1. t = [family |-> "pie", solid |-> "rectangle", dir |-> "column", stack |-> "none", d3 |-> b,
               deep |-> FALSE, marks |-> FALSE, lines |-> "none", updown |-> FALSE,
               volume |-> FALSE, variant |-> v]
  BY DEF Chart!Basic, Chart!Pie
<1>2. QED
  BY <1>1

LEMMA ScatterIs ==
    ASSUME NEW t,
           NEW l \in {"straight", "smooth"},
           NEW b \in BOOLEAN,
           t = Chart!Scatter(l, b)
    PROVE  t.family = "xy" /\ t.lines = l /\ t.marks = b /\ t.variant = "plain" /\ ~t.deep /\ ~t.d3
<1>1. t = [family |-> "xy", solid |-> "rectangle", dir |-> "column", stack |-> "none", d3 |-> FALSE,
               deep |-> FALSE, marks |-> b, lines |-> l, updown |-> FALSE,
               volume |-> FALSE, variant |-> "plain"]
  BY DEF Chart!Basic, Chart!Scatter
<1>2. QED
  BY <1>1

LEMMA MarksIs ==
    ASSUME NEW t,
           NEW v \in {"plain", "bubble"},
           t = Chart!Marked(v)
    PROVE  t.family = "xy" /\ t.lines = "none" /\ t.marks /\ t.variant = v /\ ~t.deep /\ ~t.d3
<1>1. t = [family |-> "xy", solid |-> "rectangle", dir |-> "column", stack |-> "none", d3 |-> FALSE,
               deep |-> FALSE, marks |-> TRUE, lines |-> "none", updown |-> FALSE,
               volume |-> FALSE, variant |-> v]
  BY DEF Chart!Basic, Chart!Marked
<1>2. QED
  BY <1>1

LEMMA StockIs ==
    ASSUME NEW t,
           NEW u \in BOOLEAN,
           NEW b \in BOOLEAN,
           t = Chart!Stock(u, b)
    PROVE  t.family = "stock" /\ t.updown = u /\ t.volume = b /\ t.variant
           = "plain" /\ ~t.deep /\ ~t.d3
<1>1. t = [family |-> "stock", solid |-> "rectangle", dir |-> "column", stack |-> "none",
        d3 |-> FALSE,
               deep |-> FALSE, marks |-> FALSE, lines |-> "none", updown |-> u,
               volume |-> b, variant |-> "plain"]
  BY DEF Chart!Basic, Chart!Stock
<1>2. QED
  BY <1>1

\* The type of a chart is guessed from what setting it leaves of the diagram, but for
\* the variants.
LEMMA TypeIsRead ==
    ASSUME NEW t \in Chart!ChartTypes, t.variant = "plain", diagram' = Chart!DiagramOf(t)
    PROVE  Chart!GetChartType' = t
<1> DEFINE A1 == {Chart!Flat(d, s) : d \in {"column", "bar"}, s \in Chart!Stacks}
           A2 == {Chart!Solid(d, s, f) :
           d \in {"column", "bar"}, s \in Chart!Stacks, f \in Chart!Solids}
           A3 == {Chart!Deep(f) : f \in Chart!Solids}
           E4 == [Chart!Basic("bar") EXCEPT !.deep = TRUE, !.variant = "surface"]
           A4 == {E4}
           A5 == {Chart!Line(s, b) : s \in Chart!Stacks, b \in BOOLEAN}
           E6 == [Chart!Basic("line") EXCEPT !.d3 = TRUE]
           A6 == {E6}
           A7 == {Chart!Area(s, b) : s \in Chart!Stacks, b \in BOOLEAN}
           A8 == {Chart!Pie(b, v) : b \in BOOLEAN, v \in {"plain", "exploded"}}
           E9 == [Chart!Basic("pie") EXCEPT !.variant = "of"]
           A9 == {E9}
           E10(v) == [Chart!Basic("donut") EXCEPT !.variant = v]
           A10 == {E10(v) : v \in {"plain", "exploded"}}
           E11(b) == [Chart!Basic("net") EXCEPT !.marks = b]
           A11 == {E11(b) : b \in BOOLEAN}
           E12 == [Chart!Basic("net") EXCEPT !.variant = "filled"]
           A12 == {E12}
           A13 == {Chart!Scatter(l, b) : l \in {"straight", "smooth"}, b \in BOOLEAN}
           A14 == {Chart!Marked(v) : v \in {"plain", "bubble"}}
           A15 == {Chart!Stock(u, b) : u, b \in BOOLEAN}
<1>1. t \in A1 \/ t \in A2 \/ t \in A3 \/ t \in A4 \/ t \in A5 \/ t \in A6 \/ t \in A7
        \/ t \in A8 \/ t \in A9 \/ t \in A10 \/ t \in A11 \/ t \in A12 \/ t \in A13 \/ t \in A14
             \/ t \in A15
  <2>1. t \in Chart!BarTypes => t \in A1 \/ t \in A2 \/ t \in A3 \/ t \in A4
    BY DEF Chart!BarTypes
  <2>2. t \in Chart!LineTypes => t \in A5 \/ t \in A6 \/ t \in A7
    BY DEF Chart!LineTypes
  <2>3. t \in Chart!RoundTypes => t \in A8 \/ t \in A9 \/ t \in A10 \/ t \in A11 \/ t \in A12
    BY DEF Chart!RoundTypes
  <2>4. t \in Chart!PointTypes => t \in A13 \/ t \in A14 \/ t \in A15
    BY DEF Chart!PointTypes
  <2> HIDE DEF A1, A2, A3, A4, A5, A6, A7, A8, A9, A10, A11, A12, A13, A14, A15
  <2>5. QED
    BY <2>1, <2>2, <2>3, <2>4 DEF Chart!ChartTypes
<1> HIDE DEF E4, E6, E9, E10, E11, E12
<1>2. CASE t \in A1
  <2>1. PICK d \in {"column", "bar"}, s \in Chart!Stacks : t = Chart!Flat(d, s)
    BY <1>2
  <2>2. t.family = "bar" /\ t.dir = d /\ t.stack = s /\ t.variant = "plain" /\ ~t.deep /\ ~t.d3
    BY <2>1, FlatIs
  <2>3. /\ diagram'.family = "bar"
        /\ ~diagram'.d3
        /\ ~diagram'.deep
        /\ (diagram'.vertical <=> d = "column")
        /\ (diagram'.stacked <=> s # "none")
        /\ (diagram'.percent <=> s = "percent")
    BY <2>2 DEF Chart!DiagramOf
  <2>4. Chart!GetStackedType(diagram') = s
    BY <2>3 DEF Chart!GetStackedType, Chart!Stacks
  <2>5. Chart!GetChartType' = Chart!GetSolidType(diagram')
    BY <2>3 DEF Chart!GetChartType
  <2>6. Chart!GetSolidType(diagram') = Chart!Flat(d, s)
    BY <2>3, <2>4 DEF Chart!GetSolidType
  <2>7. QED
    BY <2>1, <2>5, <2>6
<1>3. CASE t \in A2
  <2>1. PICK d \in {"column", "bar"}, s \in Chart!Stacks, f \in Chart!Solids :
          t = Chart!Solid(d, s, f)
    BY <1>3
  <2>2. t.family = "bar" /\ t.dir = d /\ t.stack = s /\ t.d3 /\ t.solid = f /\ t.variant
          = "plain" /\ ~t.deep
    BY <2>1, SolidIs
  <2>3. /\ diagram'.family = "bar"
        /\ diagram'.d3
        /\ diagram'.solid = f
        /\ ~diagram'.deep
        /\ (diagram'.vertical <=> d = "column")
        /\ (diagram'.stacked <=> s # "none")
        /\ (diagram'.percent <=> s = "percent")
    BY <2>2 DEF Chart!DiagramOf
  <2>4. Chart!GetStackedType(diagram') = s
    BY <2>3 DEF Chart!GetStackedType, Chart!Stacks
  <2>5. Chart!GetChartType' = Chart!GetSolidType(diagram')
    BY <2>3 DEF Chart!GetChartType
  <2>6. Chart!GetSolidType(diagram') = Chart!Solid(d, s, f)
    BY <2>3, <2>4 DEF Chart!GetSolidType
  <2>7. QED
    BY <2>1, <2>5, <2>6
<1>4. CASE t \in A3
  <2>1. PICK f \in Chart!Solids : t = Chart!Deep(f)
    BY <1>4
  <2>2. t.family = "bar" /\ t.d3 /\ t.deep /\ t.solid = f /\ t.variant = "plain"
    BY <2>1, DeepIs
  <2>3. /\ diagram'.family = "bar"
        /\ diagram'.d3
        /\ diagram'.solid = f
        /\ diagram'.deep
    BY <2>2 DEF Chart!DiagramOf
  <2>5. Chart!GetChartType' = Chart!GetSolidType(diagram')
    BY <2>3 DEF Chart!GetChartType
  <2>6. Chart!GetSolidType(diagram') = Chart!Deep(f)
    BY <2>3 DEF Chart!GetSolidType
  <2>7. QED
    BY <2>1, <2>5, <2>6
<1>5. CASE t \in A4
  <2>1. t = E4
    BY <1>5
  <2>0. t = [family |-> "bar", solid |-> "rectangle", dir |-> "column", stack |-> "none",
          d3 |-> FALSE,
               deep |-> TRUE, marks |-> FALSE, lines |-> "none", updown |-> FALSE,
               volume |-> FALSE, variant |-> "surface"]
    BY <2>1 DEF E4, Chart!Basic
  <2>2. t.family = "bar" /\ t.deep /\ t.variant = "surface" /\ ~t.d3
    BY <2>0, FieldsAre
  <2>3. QED
    BY <2>2
<1>6. CASE t \in A5
  <2>1. PICK s \in Chart!Stacks, b \in BOOLEAN : t = Chart!Line(s, b)
    BY <1>6
  <2>2. t.family = "line" /\ t.stack = s /\ t.marks = b /\ t.variant = "plain" /\ ~t.deep /\ ~t.d3
    BY <2>1, LineTypeIs
  <2>3. /\ diagram'.family = "line"
        /\ ~diagram'.d3
        /\ diagram'.symbols = b
        /\ (diagram'.stacked <=> s # "none")
        /\ (diagram'.percent <=> s = "percent")
    BY <2>2 DEF Chart!DiagramOf
  <2>4. Chart!GetStackedType(diagram') = s
    BY <2>3 DEF Chart!GetStackedType, Chart!Stacks
  <2>5. Chart!GetChartType' = Chart!Line(s, b)
    BY <2>3, <2>4 DEF Chart!GetChartType
  <2>6. QED
    BY <2>1, <2>2, <2>5
<1>7. CASE t \in A6
  <2>1. t = E6
    BY <1>7
  <2>0. t = [family |-> "line", solid |-> "rectangle", dir |-> "column", stack |-> "none",
          d3 |-> TRUE,
               deep |-> FALSE, marks |-> FALSE, lines |-> "none", updown |-> FALSE,
               volume |-> FALSE, variant |-> "plain"]
    BY <2>1 DEF E6, Chart!Basic
  <2>2. t.family = "line" /\ t.d3 /\ t.variant = "plain" /\ ~t.deep
    BY <2>0, FieldsAre
  <2>3. /\ diagram'.family = "line"
        /\ diagram'.d3
    BY <2>2 DEF Chart!DiagramOf
  <2>5. Chart!GetChartType' = [Chart!Basic("line") EXCEPT !.d3 = TRUE]
    BY <2>3 DEF Chart!GetChartType
  <2>6. Chart!GetChartType'
          = [family |-> "line", solid |-> "rectangle", dir |-> "column", stack |-> "none",
          d3 |-> TRUE,
               deep |-> FALSE, marks |-> FALSE, lines |-> "none", updown |-> FALSE,
               volume |-> FALSE, variant |-> "plain"]
    BY <2>5 DEF Chart!Basic
  <2>7. QED
    BY <2>0, <2>2, <2>6
<1>8. CASE t \in A7
  <2>1. PICK s \in Chart!Stacks, b \in BOOLEAN : t = Chart!Area(s, b)
    BY <1>8
  <2>2. t.family = "area" /\ t.stack = s /\ t.d3 = b /\ t.variant = "plain" /\ ~t.deep
    BY <2>1, AreaIs
  <2>3. /\ diagram'.family = "area"
        /\ diagram'.d3 = b
        /\ (diagram'.stacked <=> s # "none")
        /\ (diagram'.percent <=> s = "percent")
    BY <2>2 DEF Chart!DiagramOf
  <2>4. Chart!GetStackedType(diagram') = s
    BY <2>3 DEF Chart!GetStackedType, Chart!Stacks
  <2>5. Chart!GetChartType' = Chart!Area(s, b)
    BY <2>3, <2>4 DEF Chart!GetChartType
  <2>6. QED
    BY <2>1, <2>2, <2>5
<1>9. CASE t \in A8
  <2>1. PICK b \in BOOLEAN, v \in {"plain", "exploded"} : t = Chart!Pie(b, v)
    BY <1>9
  <2>2. t.family = "pie" /\ t.d3 = b /\ t.variant = v /\ ~t.deep
    BY <2>1, PieIs
  <2>3. /\ diagram'.family = "pie"
        /\ diagram'.d3 = b
    BY <2>2 DEF Chart!DiagramOf
  <2>5. Chart!GetChartType' = Chart!Pie(b, "plain")
    BY <2>3 DEF Chart!GetChartType
  <2>6. QED
    BY <2>1, <2>2, <2>5
<1>10. CASE t \in A9
  <2>1. t = E9
    BY <1>10
  <2>0. t = [family |-> "pie", solid |-> "rectangle", dir |-> "column", stack |-> "none",
          d3 |-> FALSE,
               deep |-> FALSE, marks |-> FALSE, lines |-> "none", updown |-> FALSE,
               volume |-> FALSE, variant |-> "of"]
    BY <2>1 DEF E9, Chart!Basic
  <2>2. t.family = "pie" /\ t.variant = "of" /\ ~t.deep /\ ~t.d3
    BY <2>0, FieldsAre
  <2>3. QED
    BY <2>2
<1>11. CASE t \in A10
  <2>1. PICK v \in {"plain", "exploded"} : t = E10(v)
    BY <1>11
  <2>0. t = [family |-> "donut", solid |-> "rectangle", dir |-> "column", stack |-> "none",
          d3 |-> FALSE,
               deep |-> FALSE, marks |-> FALSE, lines |-> "none", updown |-> FALSE,
               volume |-> FALSE, variant |-> v]
    BY <2>1 DEF E10, Chart!Basic
  <2>2. t.family = "donut" /\ t.variant = v /\ ~t.deep /\ ~t.d3
    BY <2>0, FieldsAre
  <2>3. /\ diagram'.family = "donut"
    BY <2>2 DEF Chart!DiagramOf
  <2>5. Chart!GetChartType' = Chart!Basic("donut")
    BY <2>3 DEF Chart!GetChartType
  <2>6. Chart!GetChartType'
          = [family |-> "donut", solid |-> "rectangle", dir |-> "column", stack |-> "none",
          d3 |-> FALSE,
               deep |-> FALSE, marks |-> FALSE, lines |-> "none", updown |-> FALSE,
               volume |-> FALSE, variant |-> "plain"]
    BY <2>5 DEF Chart!Basic
  <2>7. QED
    BY <2>0, <2>2, <2>6
<1>12. CASE t \in A11
  <2>1. PICK b \in BOOLEAN : t = E11(b)
    BY <1>12
  <2>0. t = [family |-> "net", solid |-> "rectangle", dir |-> "column", stack |-> "none",
          d3 |-> FALSE,
               deep |-> FALSE, marks |-> b, lines |-> "none", updown |-> FALSE,
               volume |-> FALSE, variant |-> "plain"]
    BY <2>1 DEF E11, Chart!Basic
  <2>2. t.family = "net" /\ t.marks = b /\ t.variant = "plain" /\ ~t.deep /\ ~t.d3
    BY <2>0, FieldsAre
  <2>3. /\ diagram'.family = "net"
        /\ diagram'.symbols = b
    BY <2>2 DEF Chart!DiagramOf
  <2>5. Chart!GetChartType' = [Chart!Basic("net") EXCEPT !.marks = b]
    BY <2>3 DEF Chart!GetChartType
  <2>6. Chart!GetChartType'
          = [family |-> "net", solid |-> "rectangle", dir |-> "column", stack |-> "none",
          d3 |-> FALSE,
               deep |-> FALSE, marks |-> b, lines |-> "none", updown |-> FALSE,
               volume |-> FALSE, variant |-> "plain"]
    BY <2>5 DEF Chart!Basic
  <2>7. QED
    BY <2>0, <2>2, <2>6
<1>13. CASE t \in A12
  <2>1. t = E12
    BY <1>13
  <2>0. t = [family |-> "net", solid |-> "rectangle", dir |-> "column", stack |-> "none",
          d3 |-> FALSE,
               deep |-> FALSE, marks |-> FALSE, lines |-> "none", updown |-> FALSE,
               volume |-> FALSE, variant |-> "filled"]
    BY <2>1 DEF E12, Chart!Basic
  <2>2. t.family = "net" /\ t.variant = "filled" /\ ~t.deep /\ ~t.d3
    BY <2>0, FieldsAre
  <2>3. QED
    BY <2>2
<1>14. CASE t \in A13
  <2>1. PICK l \in {"straight", "smooth"}, b \in BOOLEAN : t = Chart!Scatter(l, b)
    BY <1>14
  <2>2. t.family = "xy" /\ t.lines = l /\ t.marks = b /\ t.variant = "plain" /\ ~t.deep /\ ~t.d3
    BY <2>1, ScatterIs
  <2>3. /\ diagram'.family = "xy"
        /\ diagram'.symbols = b
        /\ (diagram'.lines <=> l = "straight")
        /\ (diagram'.spline <=> l = "smooth")
    BY <2>2 DEF Chart!DiagramOf
  <2>5. Chart!GetChartType' = Chart!GetScatterType(diagram')
    BY <2>3 DEF Chart!GetChartType
  <2>6. Chart!GetScatterType(diagram') = Chart!Scatter(l, b)
    BY <2>3 DEF Chart!GetScatterType
  <2>7. QED
    BY <2>1, <2>5, <2>6
<1>15. CASE t \in A14
  <2>1. PICK v \in {"plain", "bubble"} : t = Chart!Marked(v)
    BY <1>15
  <2>2. t.family = "xy" /\ t.lines = "none" /\ t.marks /\ t.variant = v /\ ~t.deep /\ ~t.d3
    BY <2>1, MarksIs
  <2>3. /\ diagram'.family = "xy"
        /\ diagram'.symbols
        /\ (diagram'.lines <=> "none" = "straight")
        /\ (diagram'.spline <=> "none" = "smooth")
    BY <2>2 DEF Chart!DiagramOf
  <2>5. Chart!GetChartType' = Chart!GetScatterType(diagram')
    BY <2>3 DEF Chart!GetChartType
  <2>6. Chart!GetScatterType(diagram') = Chart!Marked("plain")
    BY <2>3 DEF Chart!GetScatterType
  <2>7. QED
    BY <2>1, <2>2, <2>5, <2>6
<1>16. CASE t \in A15
  <2>1. PICK u \in BOOLEAN, b \in BOOLEAN : t = Chart!Stock(u, b)
    BY <1>16
  <2>2. t.family = "stock" /\ t.updown = u /\ t.volume = b /\ t.variant
          = "plain" /\ ~t.deep /\ ~t.d3
    BY <2>1, StockIs
  <2>3. /\ diagram'.family = "stock"
        /\ diagram'.updown = u
        /\ diagram'.volume = b
    BY <2>2 DEF Chart!DiagramOf
  <2>5. Chart!GetChartType' = Chart!Stock(u, b)
    BY <2>3 DEF Chart!GetChartType
  <2>6. QED
    BY <2>1, <2>2, <2>5
<1>17. QED
  <2> HIDE DEF A1, A2, A3, A4, A5, A6, A7, A8, A9, A10, A11, A12, A13, A14, A15
  <2>1. QED
    BY <1>1, <1>2, <1>3, <1>4, <1>5, <1>6, <1>7, <1>8, <1>9, <1>10, <1>11, <1>12, <1>13, <1>14,
       <1>15, <1>16

LEMMA ChartReads ==
    /\ Chart!ChartRead("type") = Chart!GetChartType
    /\ Chart!ChartRead("plotBy") = Chart!GetPlotBy
    /\ Chart!ChartRead("hasTitle") = Chart!Shown("main")
    /\ Chart!ChartRead("hasLegend") = Chart!Shown("legend")
    /\ Chart!ChartRead("text") = titles["main"].text
    /\ Chart!ChartRead("orientation") = titles["main"].angle \div 100
    /\ Chart!ChartRead("crosses") = Chart!GetCrosses
    /\ Chart!ChartRead("crossesAt") = Chart!ScaleRead("origin")
    /\ \A p \in {"max", "min", "minor", "major"} : Chart!ChartRead(p) = Chart!ScaleRead(p)
    /\ Chart!ChartRead("maxAuto") = Chart!GetScaleIsAuto("max")
    /\ Chart!ChartRead("minAuto") = Chart!GetScaleIsAuto("min")
    /\ Chart!ChartRead("minorAuto") = Chart!GetScaleIsAuto("minor")
    /\ Chart!ChartRead("majorAuto") = Chart!GetScaleIsAuto("major")
    /\ Chart!ChartRead("scaleType") = Chart!GetScaleType
    /\ Chart!ChartRead("axis.hasTitle") = Chart!Shown(Chart!Named)
    /\ Chart!ChartRead("axis.text") = Chart!GetAxisText
    /\ Chart!ChartRead("name") = Chart!GetObjectName
  BY DEF Chart!ChartRead, Chart!GetHasTitle, Chart!GetHasLegend, Chart!GetText,
         Chart!GetOrientation, Chart!GetCrossesAt, Chart!GetAxisHasTitle

LEMMA ChartReadsNext == ChartReads!:'
  BY ChartReads, PTL

ChartFine ==
    /\ Chart!ChartOK /\ Chart!ChartAsked
    /\ \A a \in asked : Chart!ChartLoses(a) \/ Chart!ChartRead(a.what) = a.value

\* What a call leaves as it was but for some attributes; those of an axis are of the
\* one the macro has.
ChartLeaves(C) ==
    /\ Chart!ChartOK'
    /\ Chart!HasAxis => Chart!HasAxis' \/ Chart!AxisWhats \subseteq C
    /\ \A u \in Chart!ChartWhats \ C :
          (u \in Chart!AxisWhats => Chart!HasAxis) => Chart!ChartRead(u)' = Chart!ChartRead(u)

LEMMA ChartKept ==
    ASSUME ChartFine, NEW C, ChartLeaves(C), NEW a \in asked, a.what \notin C
    PROVE  /\ a.what \in Chart!ChartWhats
           /\ a.what \in Chart!AxisWhats => Chart!HasAxis'
           /\ Chart!ChartLoses(a) \/ Chart!ChartRead(a.what)' = a.value
  BY DEF ChartFine, Chart!ChartAsked, ChartLeaves

LEMMA ChartSet ==
    ASSUME ChartFine, NEW C, ChartLeaves(C), NEW w \in Chart!ChartWhats, NEW v,
           asked' = {a \in asked : a.what \notin C} \cup {[what |-> w, value |-> v]},
           w \in Chart!AxisWhats => Chart!HasAxis',
           Chart!ChartLoses([what |-> w, value |-> v]) \/ Chart!ChartRead(w)' = v
    PROVE  ChartFine'
<1>1. ASSUME NEW a \in asked'
      PROVE  /\ a.what \in Chart!ChartWhats
             /\ a.what \in Chart!AxisWhats => Chart!HasAxis'
             /\ Chart!ChartLoses(a) \/ Chart!ChartRead(a.what)' = a.value
  <2>1. CASE a = [what |-> w, value |-> v]
    BY <2>1
  <2>2. CASE a \in asked /\ a.what \notin C
    BY <2>2, ChartKept
  <2>3. QED
    BY <2>1, <2>2
<1>2. \A a : Chart!ChartLoses(a)' = Chart!ChartLoses(a)
  BY DEF Chart!ChartLoses
<1>3. QED
  BY <1>1, <1>2 DEF ChartFine, ChartLeaves, Chart!ChartAsked, Chart!ChartWhats, Chart!AxisWhats

LEMMA ChartOther ==
    ASSUME ChartFine, NEW C, ChartLeaves(C), asked' = {a \in asked : a.what \notin C}
    PROVE  ChartFine'
<1>1. ASSUME NEW a \in asked'
      PROVE  /\ a.what \in Chart!ChartWhats
             /\ a.what \in Chart!AxisWhats => Chart!HasAxis'
             /\ Chart!ChartLoses(a) \/ Chart!ChartRead(a.what)' = a.value
  BY ChartKept
<1>2. \A a : Chart!ChartLoses(a)' = Chart!ChartLoses(a)
  BY DEF Chart!ChartLoses
<1>3. QED
  BY <1>1, <1>2 DEF ChartFine, ChartLeaves, Chart!ChartAsked, Chart!ChartWhats, Chart!AxisWhats

\* What an attribute is read from.
LEMMA ChartSame ==
    /\ diagram' = diagram => Chart!ChartRead("type")' = Chart!ChartRead("type")
    /\ source'.rows = source.rows => Chart!ChartRead("plotBy")' = Chart!ChartRead("plotBy")
    /\ ("main" \in shows' <=> "main" \in shows) =>
          Chart!ChartRead("hasTitle")' = Chart!ChartRead("hasTitle")
    /\ ("legend" \in shows' <=> "legend" \in shows) =>
          Chart!ChartRead("hasLegend")' = Chart!ChartRead("hasLegend")
    /\ titles'["main"].text = titles["main"].text =>
          Chart!ChartRead("text")' = Chart!ChartRead("text")
    /\ titles'["main"].angle = titles["main"].angle =>
          Chart!ChartRead("orientation")' = Chart!ChartRead("orientation")
    /\ UNCHANGED <<charts, object>> => Chart!ChartRead("name")' = Chart!ChartRead("name")
<1>1. diagram' = diagram => Chart!GetChartType' = Chart!GetChartType
  BY Zenon DEF Chart!GetChartType
<1>2. source'.rows = source.rows => Chart!GetPlotBy' = Chart!GetPlotBy
  BY Zenon DEF Chart!GetPlotBy
<1>3. \A w : (w \in shows' <=> w \in shows) => Chart!Shown(w)' = Chart!Shown(w)
  BY DEF Chart!Shown
<1>4. UNCHANGED <<charts, object>> => Chart!GetObjectName' = Chart!GetObjectName
  BY Zenon DEF Chart!GetObjectName, Chart!TheObject
<1>5. QED
  BY <1>1, <1>2, <1>3, <1>4, ChartReads, ChartReadsNext

LEMMA AxisSame ==
    ASSUME axis'.type = axis.type, axis'.group = axis.group \/ axis.type = "series"
    PROVE  /\ Chart!Held' = Chart!Held /\ Chart!Named' = Chart!Named
           /\ Chart!HasAxis' = Chart!HasAxis
<1>1. Chart!Held' = Chart!Held
  <2>1. CASE axis'.group = axis.group
    BY <2>1, Zenon DEF Chart!Held
  <2>2. CASE axis.type = "series"
    BY <2>2 DEF Chart!Held, Chart!ScaleOf
  <2>3. QED
    BY <2>1, <2>2
<1>2. Chart!Named' = Chart!Named
  BY Zenon DEF Chart!Named
<1>3. QED
  BY <1>1, <1>2 DEF Chart!HasAxis

\* The same of the axis: what it shows, and what its scale is.
LEMMA AxisTitleSame ==
    ASSUME axis'.type = axis.type, axis'.group = axis.group \/ axis.type = "series",
           Chart!Named \in shows' <=> Chart!Named \in shows
    PROVE  /\ Chart!ChartRead("axis.hasTitle")' = Chart!ChartRead("axis.hasTitle")
           /\ titles'[Chart!Named].text = titles[Chart!Named].text =>
                 Chart!ChartRead("axis.text")' = Chart!ChartRead("axis.text")
<1>1. Chart!Named' = Chart!Named
  BY AxisSame
<1>2. Chart!Shown(Chart!Named)' = Chart!Shown(Chart!Named)
  BY <1>1 DEF Chart!Shown
<1>3. titles'[Chart!Named].text = titles[Chart!Named].text => Chart!GetAxisText' = Chart!GetAxisText
  BY <1>1 DEF Chart!GetAxisText
<1>4. QED
  BY <1>2, <1>3, ChartReads, ChartReadsNext

LEMMA ScaleSame ==
    ASSUME axis'.type = axis.type, axis'.group = axis.group \/ axis.type = "series",
           NEW s, s = scales[Chart!Held], NEW t, t = scales'[Chart!Held]
    PROVE  /\ \A p : Chart!ScaleRead(p) = IF s[p] = Chart!Auto THEN Chart!Computed[p] ELSE s[p]
           /\ \A p : Chart!ScaleRead(p)' = IF t[p] = Chart!Auto THEN Chart!Computed[p] ELSE t[p]
           /\ \A p : Chart!GetScaleIsAuto(p)' = IF t[p] = Chart!Auto THEN "on" ELSE "off"
           /\ \A p : (s[p] = Chart!Auto <=> t[p] = Chart!Auto) =>
                 Chart!GetScaleIsAuto(p)' = Chart!GetScaleIsAuto(p)
           /\ t.log = s.log => Chart!ChartRead("scaleType")' = Chart!ChartRead("scaleType")
           /\ t.origin = s.origin /\ axis'.custom = axis.custom =>
                 Chart!ChartRead("crosses")' = Chart!ChartRead("crosses")
<1>1. Chart!Held' = Chart!Held
  BY AxisSame
<1>2. /\ \A p : Chart!ScaleRead(p) = IF s[p] = Chart!Auto THEN Chart!Computed[p] ELSE s[p]
      /\ \A p : Chart!ScaleRead(p)' = IF t[p] = Chart!Auto THEN Chart!Computed[p] ELSE t[p]
  BY <1>1 DEF Chart!ScaleRead
<1>3. /\ \A p : Chart!GetScaleIsAuto(p) = IF s[p] = Chart!Auto THEN "on" ELSE "off"
      /\ \A p : Chart!GetScaleIsAuto(p)' = IF t[p] = Chart!Auto THEN "on" ELSE "off"
  BY <1>1 DEF Chart!GetScaleIsAuto
<1>4. t.log = s.log => Chart!GetScaleType' = Chart!GetScaleType
  BY <1>1, Zenon DEF Chart!GetScaleType
<1>5. t.origin = s.origin /\ axis'.custom = axis.custom => Chart!GetCrosses' = Chart!GetCrosses
  BY <1>1, Zenon DEF Chart!GetCrosses
<1>6. QED
  BY <1>2, <1>3, <1>4, <1>5, ChartReads, ChartReadsNext

ScaleRecords == [origin : Int, min : Int, max : Int, minor : Int, major : Int, log : BOOLEAN]
AxisRecords  == [type : {"category", "value", "series"}, group : {"primary", "secondary"},
                 custom : BOOLEAN]

LEMMA HeldIs ==
    ASSUME Chart!ChartOK, Chart!HasAxis
    PROVE  /\ axis \in AxisRecords /\ Chart!Held \in Chart!Scales
           /\ Chart!Named \in {"x", "y", "z"}
           /\ scales[Chart!Held] \in ScaleRecords
<1>1. axis \in AxisRecords
  BY DEF Chart!ChartOK, Chart!HasAxis, Chart!NoAxis, AxisRecords
<1>2. axis.type \in {"category", "value", "series"}
  BY <1>1 DEF AxisRecords
<1>3. Chart!Held \in Chart!Scales
  BY <1>2 DEF Chart!Held, Chart!ScaleOf, Chart!Scales
<1>4. Chart!Named \in {"x", "y", "z"}
  BY <1>2 DEF Chart!Named, Chart!TitleOf
<1>5. scales[Chart!Held] \in ScaleRecords
  BY <1>3 DEF Chart!ChartOK, ScaleRecords
<1>6. QED
  BY <1>1, <1>3, <1>4, <1>5

\* Setting the scale of the axis changes what is set of it, and no more.
LEMMA ScaleLeaves ==
    ASSUME ChartFine, Chart!HasAxis, NEW s \in ScaleRecords, Chart!PutScale(s),
           axis' \in AxisRecords, axis'.type = axis.type,
           axis'.group = axis.group \/ axis.type = "series", NEW C,
           \A p \in {"max", "min", "minor", "major"} :
              p \in C \/ (IF s[p] = Chart!Auto THEN Chart!Computed[p] ELSE s[p])
              = Chart!ScaleRead(p),
           \A p \in {"max", "min", "minor", "major"} :
              Chart!AutoName[p] \in C \/ (s[p] = Chart!Auto <=> scales[Chart!Held][p] = Chart!Auto),
           \/ "crossesAt" \in C
           \/ (IF s.origin = Chart!Auto THEN Chart!Computed.origin ELSE s.origin)
                = Chart!ScaleRead("origin"),
           "scaleType" \in C \/ s.log = scales[Chart!Held].log,
           \/ "crosses" \in C
           \/ s.origin = scales[Chart!Held].origin /\ axis'.custom = axis.custom
    PROVE  /\ ChartLeaves(C) /\ Chart!HasAxis' /\ scales'[Chart!Held] = s
           /\ Chart!Held' = Chart!Held
<1>1. Chart!ChartOK /\ Chart!Held \in Chart!Scales /\ Chart!Named \in {"x", "y", "z"}
      /\ scales[Chart!Held] \in ScaleRecords
  BY HeldIs DEF ChartFine
<1>2. scales' = [scales EXCEPT ![Chart!Held] = s]
        /\ UNCHANGED <<diagram, source, shows, titles, charts, object>>
  BY DEF Chart!PutScale
<1>3. scales \in [Chart!Scales -> ScaleRecords]
  BY <1>1 DEF Chart!ChartOK, ScaleRecords
<1>4. scales'[Chart!Held] = s /\ scales' \in [Chart!Scales -> ScaleRecords]
  BY <1>1, <1>2, <1>3
<1>5. Chart!Held' = Chart!Held /\ Chart!Named' = Chart!Named /\ Chart!HasAxis' = Chart!HasAxis
  BY AxisSame
<1>6. Chart!ChartOK'
  BY <1>1, <1>2, <1>4 DEF Chart!ChartOK, ScaleRecords, AxisRecords, Chart!Titles, Chart!Scales,
     Chart!NoAxis
<1> DEFINE old == scales[Chart!Held]
           P   == {"max", "min", "minor", "major"}
<1>7. /\ \A p : Chart!ScaleRead(p) = IF old[p] = Chart!Auto THEN Chart!Computed[p] ELSE old[p]
      /\ \A p : Chart!ScaleRead(p)' = IF s[p] = Chart!Auto THEN Chart!Computed[p] ELSE s[p]
      /\ \A p : (old[p] = Chart!Auto <=> s[p] = Chart!Auto) =>
            Chart!GetScaleIsAuto(p)' = Chart!GetScaleIsAuto(p)
      /\ s.log = old.log => Chart!ChartRead("scaleType")' = Chart!ChartRead("scaleType")
      /\ s.origin = old.origin /\ axis'.custom = axis.custom =>
            Chart!ChartRead("crosses")' = Chart!ChartRead("crosses")
  BY <1>4, ScaleSame
<1> HIDE DEF old
<1>8. /\ \A p \in P : p \notin C => Chart!ScaleRead(p)' = Chart!ScaleRead(p)
      /\ "crossesAt" \notin C => Chart!ScaleRead("origin")' = Chart!ScaleRead("origin")
      /\ \A p \in P :
           Chart!AutoName[p] \notin C => Chart!GetScaleIsAuto(p)' = Chart!GetScaleIsAuto(p)
      /\ "scaleType" \notin C => Chart!ChartRead("scaleType")' = Chart!ChartRead("scaleType")
      /\ "crosses" \notin C => Chart!ChartRead("crosses")' = Chart!ChartRead("crosses")
  BY <1>7 DEF old
<1>9. /\ "maxAuto" \notin C => Chart!ChartRead("maxAuto")' = Chart!ChartRead("maxAuto")
      /\ "minAuto" \notin C => Chart!ChartRead("minAuto")' = Chart!ChartRead("minAuto")
      /\ "minorAuto" \notin C => Chart!ChartRead("minorAuto")' = Chart!ChartRead("minorAuto")
      /\ "majorAuto" \notin C => Chart!ChartRead("majorAuto")' = Chart!ChartRead("majorAuto")
  BY <1>8, ChartReads, ChartReadsNext DEF Chart!AutoName
<1>10. /\ \A p \in P : p \notin C => Chart!ChartRead(p)' = Chart!ChartRead(p)
       /\ "crossesAt" \notin C => Chart!ChartRead("crossesAt")' = Chart!ChartRead("crossesAt")
  BY <1>8, ChartReads, ChartReadsNext
<1>11. /\ Chart!ChartRead("axis.hasTitle")' = Chart!ChartRead("axis.hasTitle")
       /\ Chart!ChartRead("axis.text")' = Chart!ChartRead("axis.text")
  BY <1>2, AxisTitleSame
<1>12. \A u \in Chart!ChartWhats \ C : Chart!ChartRead(u)' = Chart!ChartRead(u)
  BY <1>2, <1>8, <1>9, <1>10, <1>11, ChartSame DEF Chart!ChartWhats, Chart!AxisWhats
<1>13. QED
  BY <1>4, <1>5, <1>6, <1>12 DEF ChartLeaves

LEMMA SetScaleKeeps ==
    ASSUME ChartFine, NEW p \in {"max", "min", "minor", "major"}, Chart!SetScale(p, 5)
    PROVE  ChartFine'
<1> DEFINE s == [scales[Chart!Held] EXCEPT ![p] = 5]
           C == {p} \cup {Chart!AutoName[p]}
<1>1. Chart!HasAxis /\ Chart!PutScale(s) /\ axis'
        = axis /\ Chart!WroteOver(p, 5, {Chart!AutoName[p]})
  BY DEF Chart!SetScale
<1>2. axis \in AxisRecords /\ scales[Chart!Held] \in ScaleRecords
  BY <1>1, HeldIs DEF ChartFine
<1>3. /\ s \in ScaleRecords /\ s[p] = 5
      /\ \A q \in {"max", "min", "minor", "major", "origin", "log"} :
           q # p => s[q] = scales[Chart!Held][q]
  BY <1>2 DEF ScaleRecords
<1>4. \A q \in {"max", "min", "minor", "major"} : Chart!AutoName[q] = Chart!AutoName[p] => p = q
  BY DEF Chart!AutoName
<1> HIDE DEF s, C
<1>5. ChartLeaves(C) /\ Chart!HasAxis' /\ scales'[Chart!Held] = s /\ Chart!Held' = Chart!Held
  <2>1. \A q : Chart!ScaleRead(q) = IF scales[Chart!Held][q] = Chart!Auto THEN Chart!Computed[q]
          ELSE scales[Chart!Held][q]
    BY DEF Chart!ScaleRead
  <2>2. QED
    BY <1>1, <1>2, <1>3, <1>4, <2>1, ScaleLeaves DEF C
<1>6. Chart!ChartRead(p)' = 5
  BY <1>3, <1>5, ChartReadsNext DEF Chart!ScaleRead, Chart!Auto
<1>7. asked' = {a \in asked : a.what \notin C} \cup {[what |-> p, value |-> 5]}
  BY <1>1 DEF Chart!WroteOver, Chart!Except, C
<1>8. p \in Chart!ChartWhats
  BY DEF Chart!ChartWhats, Chart!AxisWhats
<1>9. QED
  BY <1>5, <1>6, <1>7, <1>8, ChartSet

LEMMA ScaleReadIs ==
    ASSUME Chart!ChartOK, Chart!HasAxis
    PROVE  /\ \A q :
              Chart!ScaleRead(q) = IF scales[Chart!Held][q] = Chart!Auto THEN Chart!Computed[q]
                                          ELSE scales[Chart!Held][q]
           /\ \A q \in {"max", "min", "minor", "major", "origin"} :
                 Chart!ScaleRead(q) \in Int /\ Chart!ScaleRead(q) # Chart!Auto
<1>1. \A q : Chart!ScaleRead(q) = IF scales[Chart!Held][q] = Chart!Auto THEN Chart!Computed[q]
                                  ELSE scales[Chart!Held][q]
  BY DEF Chart!ScaleRead
<1>2. \A q \in {"max", "min", "minor", "major", "origin"} : scales[Chart!Held][q] \in Int
  BY HeldIs DEF ScaleRecords
<1>3. \A q \in {"max", "min", "minor", "major", "origin"} :
         Chart!Computed[q] \in Int /\ Chart!Computed[q] # -1
  BY DEF Chart!Computed
<1>4. QED
  BY <1>1, <1>2, <1>3 DEF Chart!Auto

LEMMA SetScaleIsAutoKeeps ==
    ASSUME ChartFine, NEW p \in {"max", "min", "minor", "major"}, NEW b \in {"on", "off"},
           Chart!SetScaleIsAuto(p, b)
    PROVE  ChartFine'
<1> DEFINE n == IF b = "on" THEN Chart!Auto ELSE Chart!ScaleRead(p)
           s == [scales[Chart!Held] EXCEPT ![p] = n]
           O == IF b = "on" THEN {p} ELSE {}
           C == {Chart!AutoName[p]} \cup O
<1>1. /\ Chart!HasAxis /\ Chart!PutScale(s) /\ axis' = axis
      /\ Chart!WroteOver(Chart!AutoName[p], b, O)
  BY DEF Chart!SetScaleIsAuto
<1>2. axis \in AxisRecords /\ scales[Chart!Held] \in ScaleRecords
  BY <1>1, HeldIs DEF ChartFine
<1>3. /\ \A q : Chart!ScaleRead(q) = IF scales[Chart!Held][q] = Chart!Auto THEN Chart!Computed[q]
                                     ELSE scales[Chart!Held][q]
      /\ Chart!ScaleRead(p) \in Int /\ Chart!ScaleRead(p) # Chart!Auto
  BY <1>1, ScaleReadIs DEF ChartFine
<1>4. n \in Int /\ (b = "on" => n = Chart!Auto)
        /\ (b = "off" => n = Chart!ScaleRead(p) /\ n # Chart!Auto)
  BY <1>3 DEF Chart!Auto
<1> HIDE DEF n
<1>5. /\ s \in ScaleRecords /\ s[p] = n
      /\ \A q \in {"max", "min", "minor", "major", "origin", "log"} :
           q # p => s[q] = scales[Chart!Held][q]
  BY <1>2, <1>4 DEF ScaleRecords
<1>6. \A q \in {"max", "min", "minor", "major"} : Chart!AutoName[q] = Chart!AutoName[p] => p = q
  BY DEF Chart!AutoName
<1>7. (b = "on" => p \in C) /\ Chart!AutoName[p] \in C
  OBVIOUS
<1> HIDE DEF s, C
<1>8. ChartLeaves(C) /\ Chart!HasAxis' /\ scales'[Chart!Held] = s /\ Chart!Held' = Chart!Held
  BY <1>1, <1>2, <1>3, <1>4, <1>5, <1>6, <1>7, ScaleLeaves
<1>9. Chart!GetScaleIsAuto(p)' = b
  BY <1>4, <1>5, <1>8 DEF Chart!GetScaleIsAuto
<1>10. Chart!ChartRead(Chart!AutoName[p])' = b
  BY <1>9, ChartReadsNext DEF Chart!AutoName
<1>11. asked' = {a \in asked : a.what \notin C} \cup {[what |-> Chart!AutoName[p], value |-> b]}
  BY <1>1 DEF Chart!WroteOver, Chart!Except, C
<1>12. Chart!AutoName[p] \in Chart!ChartWhats
  BY DEF Chart!ChartWhats, Chart!AxisWhats, Chart!AutoName
<1>13. QED
  BY <1>8, <1>10, <1>11, <1>12, ChartSet

\* A call that throws or changes nothing.
LEMMA ChartRefused ==
    ASSUME ChartFine, UNCHANGED Chart!chartVars, UNCHANGED asked
    PROVE  ChartFine'
<1>1. UNCHANGED <<diagram, source, shows, titles, scales, axis, charts, object>>
  BY DEF Chart!chartVars
<1>2. Chart!ChartOK'
  BY <1>1 DEF ChartFine, Chart!ChartOK, Chart!Titles, Chart!Scales, Chart!NoAxis
<1>3. Chart!HasAxis' = Chart!HasAxis /\ Chart!Held' = Chart!Held /\ Chart!Named' = Chart!Named
  BY <1>1, AxisSame
<1>4. \A p : Chart!ScaleRead(p)' = Chart!ScaleRead(p) /\ Chart!GetScaleIsAuto(p)'
        = Chart!GetScaleIsAuto(p)
  BY <1>1, <1>3 DEF Chart!ScaleRead, Chart!GetScaleIsAuto
<1>5. /\ Chart!ChartRead("scaleType")' = Chart!ChartRead("scaleType")
      /\ Chart!ChartRead("crosses")' = Chart!ChartRead("crosses")
  BY <1>1, ScaleSame
<1>6. /\ Chart!ChartRead("axis.hasTitle")' = Chart!ChartRead("axis.hasTitle")
      /\ Chart!ChartRead("axis.text")' = Chart!ChartRead("axis.text")
  BY <1>1, AxisTitleSame
<1>7. \A u \in {"max", "min", "minor", "major", "maxAuto", "minAuto", "minorAuto", "majorAuto",
                "crossesAt"} : Chart!ChartRead(u)' = Chart!ChartRead(u)
  BY <1>4, ChartReads, ChartReadsNext
<1>8. \A u \in Chart!ChartWhats : Chart!ChartRead(u)' = Chart!ChartRead(u)
  BY <1>1, <1>5, <1>6, <1>7, ChartSame DEF Chart!ChartWhats, Chart!AxisWhats
<1>9. ChartLeaves({}) /\ asked' = {a \in asked : a.what \notin {}}
  BY <1>2, <1>3, <1>8 DEF ChartLeaves
<1>10. QED
  BY <1>9, ChartOther

LEMMA SetScaleTypeKeeps ==
    ASSUME ChartFine, NEW v, Chart!SetScaleType(v)
    PROVE  ChartFine'
<1>1. Chart!HasAxis /\ axis' = axis
  BY DEF Chart!SetScaleType
<1>2. axis \in AxisRecords /\ scales[Chart!Held] \in ScaleRecords /\ Chart!Held \in Chart!Scales
  BY <1>1, HeldIs DEF ChartFine
<1>3. CASE v \in {"linear", "logarithmic"} /\ Chart!Wrote("scaleType", v) /\
           Chart!PutScale([scales[Chart!Held] EXCEPT !.log = v = "logarithmic"])
  <2> DEFINE log == v = "logarithmic"
             s == [scales[Chart!Held] EXCEPT !.log = log]
             C == {"scaleType"}
  <2>1. log \in BOOLEAN
    OBVIOUS
  <2>2. /\ s \in ScaleRecords /\ s.log = log
        /\ \A q \in {"max", "min", "minor", "major", "origin"} : s[q] = scales[Chart!Held][q]
    <3> HIDE DEF log
    <3>1. QED
      BY <1>2, <2>1 DEF ScaleRecords
  <2>3. Chart!PutScale(s)
    BY <1>3
  <2> HIDE DEF s, C, log
  <2>4. ChartLeaves(C) /\ Chart!HasAxis' /\ scales'[Chart!Held] = s /\ Chart!Held' = Chart!Held
    <3>1. \A q : Chart!ScaleRead(q) = IF scales[Chart!Held][q] = Chart!Auto THEN Chart!Computed[q]
                                      ELSE scales[Chart!Held][q]
      BY DEF Chart!ScaleRead
    <3>2. QED
      BY <1>1, <1>2, <2>2, <2>3, <3>1, ScaleLeaves DEF C
  <2>5. Chart!GetScaleType' = v
    BY <1>3, <2>2, <2>4 DEF Chart!GetScaleType, log
  <2>6. asked' = {a \in asked : a.what \notin C} \cup {[what |-> "scaleType", value |-> v]}
    BY <1>3 DEF Chart!Wrote, Chart!WroteOver, Chart!Except, C
  <2>7. "scaleType" \in Chart!ChartWhats
    BY DEF Chart!ChartWhats, Chart!AxisWhats
  <2>8. QED
    BY <2>4, <2>5, <2>6, <2>7, ChartSet, ChartReadsNext
<1>4. CASE Chart!PutScale(scales[Chart!Held]) /\ Chart!Answers
  <2>1. scales \in [Chart!Scales -> ScaleRecords]
    BY DEF ChartFine, Chart!ChartOK, ScaleRecords
  <2>2. scales' = scales
    BY <1>2, <1>4, <2>1 DEF Chart!PutScale
  <2>3. UNCHANGED Chart!chartVars /\ UNCHANGED asked
    BY <1>1, <1>4, <2>2 DEF Chart!PutScale, Chart!chartVars, Chart!Answers
  <2>4. QED
    BY <2>3, ChartRefused
<1>5. QED
  BY <1>3, <1>4 DEF Chart!SetScaleType

LEMMA CrossingAtIs ==
    ASSUME Chart!ChartOK, Chart!HasAxis, NEW n \in Int
    PROVE  LET s == Chart!CrossingAt(n)
               o == scales[Chart!Held]
           IN  /\ s \in ScaleRecords
               /\ s.origin = n /\ s.max = Chart!ScaleRead("max") /\ s.min = Chart!ScaleRead("min")
               /\ s.minor = o.minor /\ s.major = o.major /\ s.log = o.log
<1>1. scales[Chart!Held] \in ScaleRecords
  BY HeldIs
<1>2. Chart!ScaleRead("max") \in Int /\ Chart!ScaleRead("min") \in Int
  BY ScaleReadIs
<1>3. QED
  BY <1>1, <1>2 DEF Chart!CrossingAt, ScaleRecords

\* Setting where an axis crosses fixes its ends: what is read of them is the same.
LEMMA CrossingLeaves ==
    ASSUME ChartFine, Chart!HasAxis, NEW n \in Nat, Chart!PutScale(Chart!CrossingAt(n)),
           axis' \in AxisRecords, axis'.type = axis.type, axis'.group = axis.group
    PROVE  /\ ChartLeaves({"crosses", "crossesAt", "maxAuto", "minAuto"}) /\ Chart!HasAxis'
           /\ scales'[Chart!Held].origin = n /\ Chart!Held' = Chart!Held
<1> DEFINE s == Chart!CrossingAt(n)
           o == scales[Chart!Held]
           C == {"crosses", "crossesAt", "maxAuto", "minAuto"}
<1>1. /\ s \in ScaleRecords
      /\ s.origin = n /\ s.max = Chart!ScaleRead("max") /\ s.min = Chart!ScaleRead("min")
      /\ s.minor = o.minor /\ s.major = o.major /\ s.log = o.log
  BY CrossingAtIs DEF ChartFine
<1>2. /\ \A q : Chart!ScaleRead(q) = IF scales[Chart!Held][q] = Chart!Auto THEN Chart!Computed[q]
                                     ELSE scales[Chart!Held][q]
      /\ \A q \in {"max", "min", "minor", "major", "origin"} :
            Chart!ScaleRead(q) \in Int /\ Chart!ScaleRead(q) # Chart!Auto
  BY ScaleReadIs DEF ChartFine
<1> HIDE DEF s, o
<1>3. \A p \in {"max", "min", "minor", "major"} :
         (IF s[p] = Chart!Auto THEN Chart!Computed[p] ELSE s[p]) = Chart!ScaleRead(p)
  BY <1>1, <1>2 DEF o
<1>4. \A p \in {"max", "min", "minor", "major"} :
         Chart!AutoName[p] \in C \/ (s[p] = Chart!Auto <=> scales[Chart!Held][p] = Chart!Auto)
  BY <1>1 DEF o, Chart!AutoName
<1>5. "crossesAt" \in C /\ "crosses" \in C /\ ("scaleType" \in C \/ s.log = scales[Chart!Held].log)
  BY <1>1 DEF o
<1>6. Chart!PutScale(s)
  BY DEF s
<1> HIDE DEF C
<1>7. ChartLeaves(C) /\ Chart!HasAxis' /\ scales'[Chart!Held] = s /\ Chart!Held' = Chart!Held
  BY <1>1, <1>3, <1>4, <1>5, <1>6, ScaleLeaves
<1>8. QED
  BY <1>1, <1>7 DEF C

LEMMA SetCrossesAtKeeps ==
    ASSUME ChartFine, Chart!SetCrossesAt(5) PROVE ChartFine'
<1> DEFINE O == {"crosses", "maxAuto", "minAuto"}
           C == {"crosses", "crossesAt", "maxAuto", "minAuto"}
<1>1. /\ Chart!HasAxis /\ Chart!PutScale(Chart!CrossingAt(5)) /\ axis' = axis
      /\ Chart!WroteOver("crossesAt", 5, O)
  BY DEF Chart!SetCrossesAt, Chart!WroteAtCost
<1>2. axis \in AxisRecords
  BY <1>1, HeldIs DEF ChartFine
<1>3. ChartLeaves(C) /\ Chart!HasAxis' /\ scales'[Chart!Held].origin = 5 /\ Chart!Held' = Chart!Held
  BY <1>1, <1>2, CrossingLeaves
<1>4. Chart!ChartRead("crossesAt")' = 5
  BY <1>3, ChartReadsNext DEF Chart!ScaleRead, Chart!Auto
<1>5. asked' = {a \in asked : a.what \notin C} \cup {[what |-> "crossesAt", value |-> 5]}
  BY <1>1 DEF Chart!WroteOver, Chart!Except
<1>6. "crossesAt" \in Chart!ChartWhats
  BY DEF Chart!ChartWhats, Chart!AxisWhats
<1> HIDE DEF C
<1>7. QED
  BY <1>3, <1>4, <1>5, <1>6, ChartSet

LEMMA SetCrossesKeeps ==
    ASSUME ChartFine, NEW v, Chart!SetCrosses(v) PROVE ChartFine'
<1>1. Chart!HasAxis
  BY DEF Chart!SetCrosses
<1>2. axis \in AxisRecords /\ scales[Chart!Held] \in ScaleRecords
  BY <1>1, HeldIs DEF ChartFine
<1>3. /\ \A q : Chart!ScaleRead(q) = IF scales[Chart!Held][q] = Chart!Auto THEN Chart!Computed[q]
                                     ELSE scales[Chart!Held][q]
      /\ Chart!ScaleRead("origin") \in Int /\ Chart!ScaleRead("origin") # Chart!Auto
  BY <1>1, ScaleReadIs DEF ChartFine
<1>4. "crosses" \in Chart!ChartWhats
  BY DEF Chart!ChartWhats, Chart!AxisWhats
<1>5. ASSUME NEW b \in BOOLEAN, axis' = [axis EXCEPT !.custom = b]
      PROVE  /\ axis' \in AxisRecords /\ axis'.type = axis.type /\ axis'.group = axis.group
             /\ axis'.custom = b
  BY <1>2, <1>5 DEF AxisRecords
<1>6. CASE /\ v = "automatic"
           /\ Chart!PutScale([scales[Chart!Held] EXCEPT !.origin = Chart!Auto])
           /\ axis' = [axis EXCEPT !.custom = FALSE]
           /\ Chart!WroteOver("crosses", v, {"crossesAt"})
  <2> DEFINE s == [scales[Chart!Held] EXCEPT !.origin = Chart!Auto]
             C == {"crosses", "crossesAt"}
  <2>1. /\ s \in ScaleRecords /\ s.origin = Chart!Auto
        /\ \A q \in {"max", "min", "minor", "major", "log"} : s[q] = scales[Chart!Held][q]
    BY <1>2 DEF ScaleRecords, Chart!Auto
  <2>2. axis' \in AxisRecords /\ axis'.type = axis.type /\ axis'.group = axis.group
    BY <1>5, <1>6
  <2>3. Chart!PutScale(s)
    BY <1>6
  <2> HIDE DEF s
  <2>4. ChartLeaves(C) /\ Chart!HasAxis' /\ scales'[Chart!Held] = s /\ Chart!Held' = Chart!Held
    BY <1>1, <1>3, <2>1, <2>2, <2>3, ScaleLeaves
  <2>5. Chart!GetCrosses' = v
    BY <1>6, <2>1, <2>4 DEF Chart!GetCrosses
  <2>6. asked' = {a \in asked : a.what \notin C} \cup {[what |-> "crosses", value |-> v]}
    BY <1>6 DEF Chart!WroteOver, Chart!Except
  <2> HIDE DEF C
  <2>7. QED
    BY <1>4, <2>4, <2>5, <2>6, ChartSet, ChartReadsNext
<1>7. CASE /\ v \in {"minimum", "maximum"}
           /\ Chart!PutScale(Chart!CrossingAt(0))
           /\ axis' = [axis EXCEPT !.custom = FALSE]
           /\ Chart!WroteOver("crosses", v, {"crossesAt", "maxAuto", "minAuto"})
  <2> DEFINE C == {"crosses", "crossesAt", "maxAuto", "minAuto"}
  <2>1. axis' \in AxisRecords /\ axis'.type = axis.type /\ axis'.group = axis.group /\ ~axis'.custom
    BY <1>5, <1>7
  <2>2. ChartLeaves(C) /\ Chart!HasAxis' /\ scales'[Chart!Held].origin = 0 /\ Chart!Held'
          = Chart!Held
    BY <1>1, <1>7, <2>1, CrossingLeaves
  <2>3. Chart!GetCrosses' = "minimum"
    BY <2>1, <2>2 DEF Chart!GetCrosses, Chart!Auto
  <2>4. asked' = {a \in asked : a.what \notin C} \cup {[what |-> "crosses", value |-> v]}
    BY <1>7 DEF Chart!WroteOver, Chart!Except
  <2>5. Chart!ChartLoses([what |-> "crosses", value |-> v]) \/ Chart!ChartRead("crosses")' = v
    BY <1>7, <2>3, ChartReadsNext DEF Chart!ChartLoses
  <2> HIDE DEF C
  <2>6. QED
    BY <1>4, <2>2, <2>4, <2>5, ChartSet
<1>8. CASE /\ v = "custom"
           /\ Chart!PutScale([scales[Chart!Held] EXCEPT !.origin = Chart!ScaleRead("origin")])
           /\ axis' = [axis EXCEPT !.custom = TRUE]
           /\ Chart!Wrote("crosses", v)
  <2> DEFINE s == [scales[Chart!Held] EXCEPT !.origin = Chart!ScaleRead("origin")]
             C == {"crosses"}
  <2>1. /\ s \in ScaleRecords /\ s.origin = Chart!ScaleRead("origin")
        /\ \A q \in {"max", "min", "minor", "major", "log"} : s[q] = scales[Chart!Held][q]
    BY <1>2, <1>3 DEF ScaleRecords
  <2>2. axis' \in AxisRecords /\ axis'.type = axis.type /\ axis'.group = axis.group /\ axis'.custom
    BY <1>5, <1>8
  <2>3. Chart!PutScale(s)
    BY <1>8
  <2> HIDE DEF s
  <2>4. ChartLeaves(C) /\ Chart!HasAxis' /\ scales'[Chart!Held] = s /\ Chart!Held' = Chart!Held
    <3>1. /\ \A p \in {"max", "min", "minor", "major"} :
                (IF s[p] = Chart!Auto THEN Chart!Computed[p] ELSE s[p]) = Chart!ScaleRead(p)
          /\ \A p \in {"max", "min", "minor", "major"} :
                s[p] = Chart!Auto <=> scales[Chart!Held][p] = Chart!Auto
          /\ (IF s.origin = Chart!Auto THEN Chart!Computed.origin ELSE s.origin)
               = Chart!ScaleRead("origin")
          /\ s.log = scales[Chart!Held].log /\ "crosses" \in C
      BY <1>3, <2>1
    <3> HIDE DEF C
    <3>2. /\ \A p \in {"max", "min", "minor", "major"} :
                p \in C \/ (IF s[p] = Chart!Auto THEN Chart!Computed[p] ELSE s[p])
                = Chart!ScaleRead(p)
          /\ \A p \in {"max", "min", "minor", "major"} :
                Chart!AutoName[p] \in C
                \/ (s[p] = Chart!Auto <=> scales[Chart!Held][p] = Chart!Auto)
          /\ \/ "crossesAt" \in C
             \/ (IF s.origin = Chart!Auto THEN Chart!Computed.origin ELSE s.origin)
                  = Chart!ScaleRead("origin")
          /\ "scaleType" \in C \/ s.log = scales[Chart!Held].log
          /\ \/ "crosses" \in C
             \/ s.origin = scales[Chart!Held].origin /\ axis'.custom = axis.custom
      BY <3>1
    <3>3. s \in ScaleRecords
      BY <2>1
    <3>4. QED
      BY <1>1, <2>2, <2>3, <3>2, <3>3, ScaleLeaves
  <2>5. Chart!GetCrosses' = v
    BY <1>3, <1>8, <2>1, <2>2, <2>4 DEF Chart!GetCrosses
  <2>6. asked' = {a \in asked : a.what \notin C} \cup {[what |-> "crosses", value |-> v]}
    BY <1>8 DEF Chart!Wrote, Chart!WroteOver, Chart!Except
  <2> HIDE DEF C
  <2>7. QED
    BY <1>4, <2>4, <2>5, <2>6, ChartSet, ChartReadsNext
<1>9. QED
  BY <1>6, <1>7, <1>8 DEF Chart!SetCrosses, Chart!WroteAtCost

\* The macro takes another axis: what it has set of the first it cannot read there.
LEMMA AxisLeaves ==
    ASSUME ChartFine, axis' \in AxisRecords \cup {Chart!NoAxis},
           scales' \in [Chart!Scales -> ScaleRecords],
           UNCHANGED <<diagram, source, shows, titles, charts, object>>
    PROVE  ChartLeaves(Chart!AxisWhats)
<1>1. Chart!ChartOK'
  BY DEF ChartFine, Chart!ChartOK, ScaleRecords, AxisRecords, Chart!Titles, Chart!Scales,
     Chart!NoAxis
<1>2. \A u \in Chart!ChartWhats \ Chart!AxisWhats : Chart!ChartRead(u)' = Chart!ChartRead(u)
  BY ChartSame DEF Chart!ChartWhats
<1>3. QED
  BY <1>1, <1>2 DEF ChartLeaves

LEMMA ScaleOfIs ==
    ASSUME NEW type \in {"category", "value", "series"}, NEW group \in {"primary", "secondary"}
    PROVE  /\ Chart!ScaleOf(type, group) \in Chart!Scales
           /\ \A t \in {"category", "value", "series"}, g \in {"primary", "secondary"} :
                 Chart!ScaleOf(t, g) = Chart!ScaleOf(type, group) =>
                    t = type /\ (g = group \/ t = "series")
  BY DEF Chart!ScaleOf, Chart!Scales

LEMMA MakeAxisKeeps ==
    ASSUME ChartFine, NEW type \in {"category", "value", "series"},
           NEW group \in {"primary", "secondary"}, Chart!MakeAxis(type, group)
    PROVE  ChartFine'
<1> DEFINE h == Chart!ScaleOf(type, group)
           s == [scales[h] EXCEPT !.origin = Chart!Auto]
<1>1. /\ axis' = [type |-> type, group |-> group, custom |-> FALSE]
      /\ scales' = [scales EXCEPT ![h] = s]
      /\ UNCHANGED <<diagram, source, shows, titles, charts, object>>
  BY DEF Chart!MakeAxis
<1>2. h \in Chart!Scales
  BY ScaleOfIs
<1>3. scales \in [Chart!Scales -> ScaleRecords]
  BY DEF ChartFine, Chart!ChartOK, ScaleRecords
<1>4. /\ s \in ScaleRecords /\ s.origin = Chart!Auto
      /\ \A q \in {"max", "min", "minor", "major", "log"} : s[q] = scales[h][q]
  BY <1>2, <1>3 DEF ScaleRecords, Chart!Auto
<1>5. axis' \in AxisRecords /\ axis'.type = type /\ axis'.group = group
  BY <1>1 DEF AxisRecords
<1> HIDE DEF h, s
<1>6. CASE Chart!HasAxis /\ h = Chart!Held
  <2> DEFINE C == {"crosses", "crossesAt"}
  <2>1. axis \in AxisRecords /\ scales[Chart!Held] \in ScaleRecords
    BY <1>6, HeldIs DEF ChartFine
  <2>2. axis.type = type /\ (axis.group = group \/ axis.type = "series")
    <3>1. /\ axis.type \in {"category", "value", "series"}
            /\ axis.group \in {"primary", "secondary"}
          /\ Chart!ScaleOf(axis.type, axis.group) = Chart!ScaleOf(type, group)
      BY <1>6, <2>1 DEF AxisRecords, h, Chart!Held
    <3>2. QED
      BY <3>1, ScaleOfIs
  <2>3. Chart!PutScale(s)
    BY <1>1, <1>6 DEF Chart!PutScale
  <2>4. ChartLeaves(C)
    <3>1. \A q : Chart!ScaleRead(q) = IF scales[Chart!Held][q] = Chart!Auto THEN Chart!Computed[q]
                                      ELSE scales[Chart!Held][q]
      BY DEF Chart!ScaleRead
    <3>2. /\ \A p \in {"max", "min", "minor", "major"} :
                p \in C \/ (IF s[p] = Chart!Auto THEN Chart!Computed[p] ELSE s[p])
                = Chart!ScaleRead(p)
          /\ \A p \in {"max", "min", "minor", "major"} :
                Chart!AutoName[p] \in C
                \/ (s[p] = Chart!Auto <=> scales[Chart!Held][p] = Chart!Auto)
          /\ "crossesAt" \in C /\ "crosses" \in C
          /\ "scaleType" \in C \/ s.log = scales[Chart!Held].log
      BY <1>4, <1>6, <3>1
    <3> HIDE DEF C
    <3>3. QED
      BY <1>4, <1>5, <1>6, <2>2, <2>3, <3>2, ScaleLeaves
  <2>5. asked' = {a \in asked : a.what \notin C}
    BY <1>6 DEF Chart!MakeAxis, Chart!HasAxis, Chart!Clobbers, Chart!Changes, Chart!Except, h
  <2> HIDE DEF C
  <2>6. QED
    BY <2>4, <2>5, ChartOther
<1>7. CASE ~(Chart!HasAxis /\ h = Chart!Held)
  <2>1. asked' = {a \in asked : a.what \notin Chart!AxisWhats}
    BY <1>7 DEF Chart!MakeAxis, Chart!HasAxis, Chart!Changes, Chart!Except, h
  <2>2. scales' \in [Chart!Scales -> ScaleRecords]
    BY <1>1, <1>2, <1>3, <1>4
  <2>3. ChartLeaves(Chart!AxisWhats)
    BY <1>1, <1>5, <2>2, AxisLeaves
  <2>4. QED
    BY <2>1, <2>3, ChartOther
<1>8. QED
  BY <1>6, <1>7

LEMMA CreateAxisKeeps ==
    ASSUME ChartFine, NEW type, NEW group, Chart!CreateAxis(type, group) PROVE ChartFine'
<1>1. CASE /\ type \in {"category", "value", "series"} /\ group \in {"primary", "secondary"}
           /\ Chart!MakeAxis(type, group)
  BY <1>1, MakeAxisKeeps
<1>2. CASE UNCHANGED Chart!chartVars /\ Chart!Throws
  BY <1>2, ChartRefused DEF Chart!Throws
<1>3. QED
  BY <1>1, <1>2 DEF Chart!CreateAxis

LEMMA DeleteAxisKeeps ==
    ASSUME ChartFine, Chart!DeleteAxis PROVE ChartFine'
<1>1. /\ axis' = Chart!NoAxis
        /\ UNCHANGED <<diagram, source, shows, titles, scales, charts, object>>
      /\ asked' = {a \in asked : a.what \notin Chart!AxisWhats}
  BY DEF Chart!DeleteAxis, Chart!Changes, Chart!Except
<1>2. scales' \in [Chart!Scales -> ScaleRecords]
  BY <1>1 DEF ChartFine, Chart!ChartOK, ScaleRecords
<1>3. ChartLeaves(Chart!AxisWhats)
  BY <1>1, <1>2, AxisLeaves
<1>4. QED
  BY <1>1, <1>3, ChartOther

\* Titles, of the chart and of the axis: what is shown of one is not of another.
LEMMA ScalesStay ==
    ASSUME ChartFine, UNCHANGED <<scales, axis>>
    PROVE  /\ Chart!Held' = Chart!Held /\ Chart!Named' = Chart!Named
           /\ Chart!HasAxis' = Chart!HasAxis
           /\ \A u \in {"max", "min", "minor", "major", "maxAuto", "minAuto", "minorAuto",
                "majorAuto",
                        "crossesAt", "scaleType", "crosses"} :
                 Chart!ChartRead(u)' = Chart!ChartRead(u)
<1>1. Chart!HasAxis' = Chart!HasAxis /\ Chart!Held' = Chart!Held /\ Chart!Named' = Chart!Named
  BY AxisSame
<1>2. \A p : Chart!ScaleRead(p)' = Chart!ScaleRead(p) /\ Chart!GetScaleIsAuto(p)'
        = Chart!GetScaleIsAuto(p)
  BY <1>1 DEF Chart!ScaleRead, Chart!GetScaleIsAuto
<1>3. /\ Chart!ChartRead("scaleType")' = Chart!ChartRead("scaleType")
      /\ Chart!ChartRead("crosses")' = Chart!ChartRead("crosses")
  BY ScaleSame
<1>4. QED
  BY <1>1, <1>2, <1>3, ChartReads, ChartReadsNext

LEMMA TitlesLeave ==
    ASSUME ChartFine, UNCHANGED <<diagram, source, scales, axis, charts, object>>,
           DOMAIN titles' = Chart!Titles,
           \A t \in Chart!Titles : DOMAIN titles'[t] = {"text", "angle"}, NEW C,
           "hasTitle" \in C \/ ("main" \in shows' <=> "main" \in shows),
           "hasLegend" \in C \/ ("legend" \in shows' <=> "legend" \in shows),
           "text" \in C \/ titles'["main"].text = titles["main"].text,
           "orientation" \in C \/ titles'["main"].angle = titles["main"].angle,
           \/ ~Chart!HasAxis
           \/ /\ "axis.hasTitle" \in C \/ (Chart!Named \in shows' <=> Chart!Named \in shows)
              /\ \/ "axis.text" \in C
                 \/ /\ Chart!Named \in shows' <=> Chart!Named \in shows
                    /\ titles'[Chart!Named].text = titles[Chart!Named].text
    PROVE  ChartLeaves(C) /\ Chart!HasAxis' = Chart!HasAxis /\ Chart!Named' = Chart!Named
<1>1. Chart!ChartOK'
  BY DEF ChartFine, Chart!ChartOK, Chart!Titles, Chart!Scales, Chart!NoAxis
<1>2. Chart!Held' = Chart!Held /\ Chart!HasAxis' = Chart!HasAxis /\ Chart!Named' = Chart!Named
  BY ScalesStay
<1>3. \A u \in {"max", "min", "minor", "major", "maxAuto", "minAuto", "minorAuto", "majorAuto",
                "crossesAt", "scaleType", "crosses"} : Chart!ChartRead(u)' = Chart!ChartRead(u)
  BY ScalesStay
<1>4. Chart!HasAxis =>
         /\ \/ "axis.hasTitle" \in C
            \/ Chart!ChartRead("axis.hasTitle")' = Chart!ChartRead("axis.hasTitle")
         /\ \/ "axis.text" \in C
            \/ Chart!ChartRead("axis.text")' = Chart!ChartRead("axis.text")
  BY AxisTitleSame
<1>5. \A u \in Chart!ChartWhats \ C : (u \in Chart!AxisWhats => Chart!HasAxis) =>
         Chart!ChartRead(u)' = Chart!ChartRead(u)
  BY <1>3, <1>4, ChartSame DEF Chart!ChartWhats, Chart!AxisWhats
<1>6. QED
  BY <1>1, <1>2, <1>5 DEF ChartLeaves

LEMMA AxisNamed ==
    ASSUME ChartFine, Chart!HasAxis PROVE Chart!Named \in {"x", "y", "z"}
  BY HeldIs DEF ChartFine

LEMMA ShowIs ==
    ASSUME NEW w, NEW b \in {"on", "off"}, Chart!Show(w, b)
    PROVE  /\ Chart!Shown(w)' = b /\ \A v : v # w => (v \in shows' <=> v \in shows)
           /\ UNCHANGED <<diagram, source, titles, scales, axis, charts, object>>
  BY DEF Chart!Show, Chart!Shown

LEMMA ShowKeeps ==
    ASSUME ChartFine, NEW b \in {"on", "off"}, Chart!SetHasTitle(b) \/ Chart!SetHasLegend(b)
    PROVE  ChartFine'
<1>1. Chart!HasAxis => Chart!Named \notin {"main", "legend"}
  BY AxisNamed
<1>2. DOMAIN titles = Chart!Titles /\ \A t \in Chart!Titles : DOMAIN titles[t] = {"text", "angle"}
  BY DEF ChartFine, Chart!ChartOK
<1>3. CASE Chart!SetHasTitle(b)
  <2> DEFINE C == {"hasTitle"}
  <2>1. Chart!Show("main", b) /\ asked' = {a \in asked : a.what \notin C}
          \cup {[what |-> "hasTitle", value |-> b]}
    BY <1>3 DEF Chart!SetHasTitle, Chart!Wrote, Chart!WroteOver, Chart!Except
  <2>2. Chart!Shown("main")' = b /\ ChartLeaves(C)
    BY <1>1, <1>2, <2>1, ShowIs, TitlesLeave
  <2>3. "hasTitle" \in Chart!ChartWhats /\ "hasTitle" \notin Chart!AxisWhats
    BY DEF Chart!ChartWhats, Chart!AxisWhats
  <2> HIDE DEF C
  <2>4. QED
    BY <2>1, <2>2, <2>3, ChartSet, ChartReadsNext
<1>4. CASE Chart!SetHasLegend(b)
  <2> DEFINE C == {"hasLegend"}
  <2>1. Chart!Show("legend", b) /\ asked' = {a \in asked : a.what \notin C}
          \cup {[what |-> "hasLegend", value |-> b]}
    BY <1>4 DEF Chart!SetHasLegend, Chart!Wrote, Chart!WroteOver, Chart!Except
  <2>2. Chart!Shown("legend")' = b /\ ChartLeaves(C)
    BY <1>1, <1>2, <2>1, ShowIs, TitlesLeave
  <2>3. "hasLegend" \in Chart!ChartWhats /\ "hasLegend" \notin Chart!AxisWhats
    BY DEF Chart!ChartWhats, Chart!AxisWhats
  <2> HIDE DEF C
  <2>4. QED
    BY <2>1, <2>2, <2>3, ChartSet, ChartReadsNext
<1>5. QED
  BY <1>3, <1>4

LEMMA AxisHasTitleKeeps ==
    ASSUME ChartFine, NEW b \in {"on", "off"}, Chart!SetAxisHasTitle(b)
    PROVE  ChartFine'
<1> DEFINE C == {"axis.hasTitle", "axis.text"}
<1>1. /\ Chart!HasAxis /\ Chart!Show(Chart!Named, b)
      /\ asked' = {a \in asked : a.what \notin C} \cup {[what |-> "axis.hasTitle", value |-> b]}
  BY DEF Chart!SetAxisHasTitle, Chart!WroteOver, Chart!Except
<1>2. DOMAIN titles = Chart!Titles /\ \A t \in Chart!Titles : DOMAIN titles[t] = {"text", "angle"}
  BY DEF ChartFine, Chart!ChartOK
<1>3. Chart!Named \notin {"main", "legend"}
  BY <1>1, AxisNamed
<1>4. /\ Chart!Shown(Chart!Named)' = b /\ \A v : v # Chart!Named => (v \in shows' <=> v \in shows)
      /\ UNCHANGED <<diagram, source, titles, scales, axis, charts, object>>
  <2> DEFINE w == Chart!Named
  <2>1. Chart!Named' = Chart!Named
    BY <1>1, AxisSame DEF Chart!Show
  <2>2. Chart!Shown(Chart!Named)' = b
    BY <1>1, <2>1 DEF Chart!Show, Chart!Shown
  <2>3. QED
    BY <1>1, <2>2 DEF Chart!Show
<1>5. ChartLeaves(C) /\ Chart!HasAxis' = Chart!HasAxis
  BY <1>2, <1>3, <1>4, TitlesLeave
<1>6. "axis.hasTitle" \in Chart!ChartWhats
  BY DEF Chart!ChartWhats, Chart!AxisWhats
<1> HIDE DEF C
<1>7. QED
  BY <1>1, <1>4, <1>5, <1>6, ChartSet, ChartReadsNext

LEMMA PutTitleIs ==
    ASSUME Chart!ChartOK, NEW t \in Chart!Titles, NEW text, NEW angle,
           \/ text = titles[t].text /\ Chart!PutTitle(t, [titles[t] EXCEPT !.angle = angle])
           \/ angle = titles[t].angle /\ Chart!PutTitle(t, [titles[t] EXCEPT !.text = text])
    PROVE  /\ UNCHANGED <<diagram, source, shows, scales, axis, charts, object>>
           /\ DOMAIN titles' = Chart!Titles
           /\ \A u \in Chart!Titles : DOMAIN titles'[u] = {"text", "angle"}
           /\ titles'[t].text = text /\ titles'[t].angle = angle
           /\ \A u : u # t => titles'[u] = titles[u]
<1>1. DOMAIN titles = Chart!Titles /\ \A u \in Chart!Titles : DOMAIN titles[u] = {"text", "angle"}
  BY DEF Chart!ChartOK
<1>2. PICK r : /\ DOMAIN r = {"text", "angle"} /\ r.text = text /\ r.angle = angle
               /\ Chart!PutTitle(t, r)
  <2>1. CASE text = titles[t].text /\ Chart!PutTitle(t, [titles[t] EXCEPT !.angle = angle])
    <3> DEFINE r == [titles[t] EXCEPT !.angle = angle]
    <3>1. DOMAIN r = {"text", "angle"} /\ r.text = text /\ r.angle = angle
      BY <1>1, <2>1
    <3> HIDE DEF r
    <3>2. QED
      BY <2>1, <3>1 DEF r
  <2>2. CASE angle = titles[t].angle /\ Chart!PutTitle(t, [titles[t] EXCEPT !.text = text])
    <3> DEFINE r == [titles[t] EXCEPT !.text = text]
    <3>1. DOMAIN r = {"text", "angle"} /\ r.text = text /\ r.angle = angle
      BY <1>1, <2>2
    <3> HIDE DEF r
    <3>2. QED
      BY <2>2, <3>1 DEF r
  <2>3. QED
    BY <2>1, <2>2
<1>3. titles' = [titles EXCEPT ![t] = r]
        /\ UNCHANGED <<diagram, source, shows, scales, axis, charts, object>>
  BY <1>2 DEF Chart!PutTitle
<1>4. QED
  BY <1>1, <1>2, <1>3

LEMMA SetTextKeeps ==
    ASSUME ChartFine, NEW v, Chart!SetText(v) PROVE ChartFine'
<1> DEFINE C == {"text"}
           angle == titles["main"].angle
<1>1. /\ Chart!PutTitle("main", [titles["main"] EXCEPT !.text = v])
      /\ asked' = {a \in asked : a.what \notin C} \cup {[what |-> "text", value |-> v]}
  BY DEF Chart!SetText, Chart!Wrote, Chart!WroteOver, Chart!Except
<1>2. /\ UNCHANGED <<diagram, source, shows, scales, axis, charts, object>>
      /\ DOMAIN titles' = Chart!Titles
      /\ \A u \in Chart!Titles : DOMAIN titles'[u] = {"text", "angle"}
      /\ titles'["main"].text = v /\ titles'["main"].angle = angle
      /\ \A u : u # "main" => titles'[u] = titles[u]
  BY <1>1, PutTitleIs DEF Chart!Titles, ChartFine
<1>3. Chart!HasAxis => Chart!Named # "main"
  BY AxisNamed
<1>4. ChartLeaves(C)
  BY <1>2, <1>3, TitlesLeave
<1>5. "text" \in Chart!ChartWhats /\ "text" \notin Chart!AxisWhats
  BY DEF Chart!ChartWhats, Chart!AxisWhats
<1> HIDE DEF C
<1>6. QED
  BY <1>1, <1>2, <1>4, <1>5, ChartSet, ChartReadsNext

LEMMA SetOrientationKeeps ==
    ASSUME ChartFine, NEW n \in Nat, Chart!SetOrientation(n) PROVE ChartFine'
<1> DEFINE C == {"orientation"}
           text == titles["main"].text
           h == n * 100
<1>1. /\ Chart!PutTitle("main", [titles["main"] EXCEPT !.angle = h])
      /\ asked' = {a \in asked : a.what \notin C} \cup {[what |-> "orientation", value |-> n]}
  BY DEF Chart!SetOrientation, Chart!Wrote, Chart!WroteOver, Chart!Except
<1>a. h \div 100 = n
  OBVIOUS
<1> HIDE DEF h
<1>2. /\ UNCHANGED <<diagram, source, shows, scales, axis, charts, object>>
      /\ DOMAIN titles' = Chart!Titles
      /\ \A u \in Chart!Titles : DOMAIN titles'[u] = {"text", "angle"}
      /\ titles'["main"].text = text /\ titles'["main"].angle = h
      /\ \A u : u # "main" => titles'[u] = titles[u]
  BY <1>1, PutTitleIs DEF Chart!Titles, ChartFine
<1>3. Chart!HasAxis => Chart!Named # "main"
  BY AxisNamed
<1>4. ChartLeaves(C)
  BY <1>2, <1>3, TitlesLeave
<1>5. "orientation" \in Chart!ChartWhats /\ "orientation" \notin Chart!AxisWhats
  BY DEF Chart!ChartWhats, Chart!AxisWhats
<1>6. Chart!ChartRead("orientation")' = n
  BY <1>2, <1>a, ChartReadsNext
<1> HIDE DEF C
<1>7. QED
  BY <1>1, <1>4, <1>5, <1>6, ChartSet

LEMMA SetAxisTextKeeps ==
    ASSUME ChartFine, NEW v, Chart!SetAxisText(v) PROVE ChartFine'
<1>1. Chart!HasAxis
  BY DEF Chart!SetAxisText
<1>2. CASE /\ Chart!Named \in shows
           /\ Chart!PutTitle(Chart!Named, [titles[Chart!Named] EXCEPT !.text = v])
           /\ Chart!Wrote("axis.text", v)
  <2> DEFINE C == {"axis.text"}
             angle == titles[Chart!Named].angle
  <2>1. asked' = {a \in asked : a.what \notin C} \cup {[what |-> "axis.text", value |-> v]}
    BY <1>2 DEF Chart!Wrote, Chart!WroteOver, Chart!Except
  <2>2. Chart!Named \in {"x", "y", "z"} /\ Chart!Named \in Chart!Titles /\ Chart!Named # "main"
    BY <1>1, AxisNamed DEF Chart!Titles
  <2>3. /\ UNCHANGED <<diagram, source, shows, scales, axis, charts, object>>
        /\ DOMAIN titles' = Chart!Titles
        /\ \A u \in Chart!Titles : DOMAIN titles'[u] = {"text", "angle"}
        /\ titles'[Chart!Named].text = v /\ titles'[Chart!Named].angle = angle
        /\ \A u : u # Chart!Named => titles'[u] = titles[u]
    BY <1>2, <2>2, PutTitleIs DEF ChartFine
  <2>4. ChartLeaves(C) /\ Chart!HasAxis' /\ Chart!Named' = Chart!Named
    BY <1>1, <2>2, <2>3, TitlesLeave
  <2>5. "axis.text" \in Chart!ChartWhats
    BY DEF Chart!ChartWhats, Chart!AxisWhats
  <2>6. Chart!GetAxisText' = v
    BY <1>2, <2>3, <2>4 DEF Chart!GetAxisText
  <2> HIDE DEF C
  <2>7. QED
    BY <2>1, <2>4, <2>5, <2>6, ChartSet, ChartReadsNext
<1>3. CASE UNCHANGED Chart!chartVars /\ Chart!Throws
  BY <1>3, ChartRefused DEF Chart!Throws
<1>4. QED
  BY <1>2, <1>3 DEF Chart!SetAxisText

LEMMA SetChartTypeKeeps ==
    ASSUME ChartFine, NEW t \in Chart!ChartTypes, Chart!SetChartType(t) PROVE ChartFine'
<1> DEFINE C == {"type", "plotBy"} \cup Chart!AxisWhats
<1>1. /\ diagram' = Chart!DiagramOf(t)
      /\ \/ UNCHANGED <<source, shows, scales>>
         \/ /\ source' = [source EXCEPT !.rows = "columns"]
            /\ shows' = shows \cap {"main", "legend"}
            /\ scales' = [s \in Chart!Scales |-> Chart!AutoScale]
      /\ UNCHANGED <<titles, axis, charts, object>>
      /\ asked' = {a \in asked : a.what \notin C} \cup {[what |-> "type", value |-> t]}
  BY DEF Chart!SetChartType, Chart!Replaced, Chart!WroteAtCost, Chart!WroteOver, Chart!Except
<1>2. Chart!ChartOK'
  <2>1. source' \in [rows : {"rows", "columns"}, rowHeads : BOOLEAN, colHeads : BOOLEAN]
    BY <1>1 DEF ChartFine, Chart!ChartOK
  <2>2. scales' \in [Chart!Scales -> ScaleRecords]
    <3>1. Chart!AutoScale \in ScaleRecords
      BY DEF Chart!AutoScale, ScaleRecords, Chart!Auto
    <3>2. QED
      BY <1>1, <3>1 DEF ChartFine, Chart!ChartOK, ScaleRecords
  <2>3. QED
    BY <1>1, <2>1, <2>2 DEF ChartFine, Chart!ChartOK, ScaleRecords, Chart!Titles, Chart!Scales,
       Chart!NoAxis
<1>3. \A w \in {"main", "legend"} : w \in shows' <=> w \in shows
  BY <1>1
<1>4. \A u \in Chart!ChartWhats \ C : Chart!ChartRead(u)' = Chart!ChartRead(u)
  BY <1>1, <1>3, ChartSame DEF Chart!ChartWhats
<1>5. ChartLeaves(C)
  BY <1>2, <1>4 DEF ChartLeaves
<1>6. Chart!ChartLoses([what |-> "type", value |-> t]) \/ Chart!ChartRead("type")' = t
  <2>1. CASE t.variant = "plain"
    BY <1>1, <2>1, TypeIsRead, ChartReadsNext
  <2>2. CASE t.variant # "plain"
    BY <2>2 DEF Chart!ChartLoses
  <2>3. QED
    BY <2>1, <2>2
<1>7. "type" \in Chart!ChartWhats /\ "type" \notin Chart!AxisWhats
  BY DEF Chart!ChartWhats, Chart!AxisWhats
<1> HIDE DEF C
<1>8. QED
  BY <1>1, <1>5, <1>6, <1>7, ChartSet

LEMMA SourceLeaves ==
    ASSUME ChartFine,
           NEW s \in [rows : {"rows", "columns"}, rowHeads : BOOLEAN, colHeads : BOOLEAN],
           Chart!PutSource(s), NEW C, "plotBy" \in C \/ s.rows = source.rows
    PROVE  ChartLeaves(C)
<1>1. source' = s /\ UNCHANGED <<diagram, shows, titles, scales, axis, charts, object>>
  BY DEF Chart!PutSource
<1>2. Chart!ChartOK'
  BY <1>1 DEF ChartFine, Chart!ChartOK, Chart!Titles, Chart!Scales, Chart!NoAxis
<1>3. /\ Chart!HasAxis' = Chart!HasAxis
      /\ \A u \in {"max", "min", "minor", "major", "maxAuto", "minAuto", "minorAuto", "majorAuto",
                   "crossesAt", "scaleType", "crosses"} : Chart!ChartRead(u)' = Chart!ChartRead(u)
  BY <1>1, ScalesStay
<1>4. /\ Chart!ChartRead("axis.hasTitle")' = Chart!ChartRead("axis.hasTitle")
      /\ Chart!ChartRead("axis.text")' = Chart!ChartRead("axis.text")
  BY <1>1, AxisTitleSame
<1>5. "plotBy" \in C \/ Chart!ChartRead("plotBy")' = Chart!ChartRead("plotBy")
  BY <1>1, ChartSame
<1>6. \A u \in Chart!ChartWhats \ C : Chart!ChartRead(u)' = Chart!ChartRead(u)
  BY <1>1, <1>3, <1>4, <1>5, ChartSame DEF Chart!ChartWhats, Chart!AxisWhats
<1>7. QED
  BY <1>2, <1>3, <1>6 DEF ChartLeaves

LEMMA PlotByKeeps ==
    ASSUME ChartFine,
           NEW s \in [rows : {"rows", "columns"}, rowHeads : BOOLEAN, colHeads : BOOLEAN],
           Chart!PutSource(s),
           \/ s.rows = source.rows /\ Chart!Throws
           \/ Chart!Wrote("plotBy", s.rows)
           \/ Chart!Changes({"plotBy"})
    PROVE  ChartFine'
<1> DEFINE C == {"plotBy"}
<1>1. CASE s.rows = source.rows /\ Chart!Throws
  <2>1. ChartLeaves({})
    BY <1>1, SourceLeaves
  <2>2. asked' = {a \in asked : a.what \notin {}}
    BY <1>1 DEF Chart!Throws
  <2>3. QED
    BY <2>1, <2>2, ChartOther
<1>2. ChartLeaves(C)
  BY SourceLeaves
<1>3. CASE Chart!Wrote("plotBy", s.rows)
  <2>1. asked' = {a \in asked : a.what \notin C} \cup {[what |-> "plotBy", value |-> s.rows]}
    BY <1>3 DEF Chart!Wrote, Chart!WroteOver, Chart!Except
  <2>2. Chart!GetPlotBy' = s.rows
    BY DEF Chart!GetPlotBy, Chart!PutSource
  <2>3. "plotBy" \in Chart!ChartWhats /\ "plotBy" \notin Chart!AxisWhats
    BY DEF Chart!ChartWhats, Chart!AxisWhats
  <2> HIDE DEF C
  <2>4. QED
    BY <1>2, <2>1, <2>2, <2>3, ChartSet, ChartReadsNext
<1>4. CASE Chart!Changes({"plotBy"})
  <2>1. asked' = {a \in asked : a.what \notin C}
    BY <1>4 DEF Chart!Changes, Chart!Except
  <2> HIDE DEF C
  <2>2. QED
    BY <1>2, <2>1, ChartOther
<1>5. QED
  BY <1>1, <1>3, <1>4

LEMMA SetPlotByKeeps ==
    ASSUME ChartFine, NEW v, Chart!SetPlotBy(v) PROVE ChartFine'
<1>1. CASE v \in {"rows", "columns"} /\ Chart!PutSource([source EXCEPT !.rows = v])
        /\ Chart!Wrote("plotBy", v)
  <2> DEFINE s == [source EXCEPT !.rows = v]
  <2>1. s \in [rows : {"rows", "columns"}, rowHeads : BOOLEAN, colHeads : BOOLEAN] /\ s.rows = v
    BY <1>1 DEF ChartFine, Chart!ChartOK
  <2>2. Chart!PutSource(s) /\ Chart!Wrote("plotBy", v)
    BY <1>1
  <2> HIDE DEF s
  <2>3. QED
    BY <2>1, <2>2, PlotByKeeps
<1>2. CASE UNCHANGED Chart!chartVars /\ Chart!Throws
  BY <1>2, ChartRefused DEF Chart!Throws
<1>3. QED
  BY <1>1, <1>2 DEF Chart!SetPlotBy

LEMMA SetSourceDataKeeps ==
    ASSUME ChartFine, NEW tall \in BOOLEAN, NEW r \in BOOLEAN, NEW c \in BOOLEAN, NEW by,
           Chart!SetSourceData(tall, r, c, by)
    PROVE  ChartFine'
<1> DEFINE s == [source EXCEPT !.rowHeads = r, !.colHeads = c]
           R == [rows : {"rows", "columns"}, rowHeads : BOOLEAN, colHeads : BOOLEAN]
<1>1. s \in R /\ s.rows = source.rows
  BY DEF ChartFine, Chart!ChartOK
<1>2. \/ Chart!PutSource(s) /\ Chart!Throws
      \/ by \in {"rows", "columns"} /\ Chart!PutSource([s EXCEPT !.rows = by])
           /\ Chart!Wrote("plotBy", by)
      \/ /\ Chart!PutSource([s EXCEPT !.rows = IF tall THEN "columns" ELSE "rows"])
         /\ Chart!Changes({"plotBy"})
  BY DEF Chart!SetSourceData
<1> HIDE DEF s
<1>3. CASE Chart!PutSource(s) /\ Chart!Throws
  BY <1>1, <1>3, PlotByKeeps
<1>4. CASE by \in {"rows", "columns"} /\ Chart!PutSource([s EXCEPT !.rows = by])
        /\ Chart!Wrote("plotBy", by)
  <2> DEFINE t == [s EXCEPT !.rows = by]
  <2>1. t \in R /\ t.rows = by
    BY <1>1, <1>4
  <2>2. Chart!PutSource(t) /\ Chart!Wrote("plotBy", by)
    BY <1>4
  <2> HIDE DEF t
  <2>3. QED
    BY <2>1, <2>2, PlotByKeeps
<1>5. CASE /\ Chart!PutSource([s EXCEPT !.rows = IF tall THEN "columns" ELSE "rows"])
           /\ Chart!Changes({"plotBy"})
  <2> DEFINE w == IF tall THEN "columns" ELSE "rows"
             t == [s EXCEPT !.rows = w]
  <2>1. w \in {"rows", "columns"}
    OBVIOUS
  <2>2. Chart!PutSource(t)
    BY <1>5
  <2> HIDE DEF w
  <2>3. t \in R
    BY <1>1, <2>1
  <2> HIDE DEF t
  <2>4. QED
    BY <1>5, <2>2, <2>3, PlotByKeeps
<1>6. QED
  BY <1>2, <1>3, <1>4, <1>5

\* The objects of a sheet: each chart has a name of its own that it is stored under.
ChartRecords == [sheet : {"s1", "s2"}, persist : Nat, name : {"persist", "mine"}]
AreCharts(S) ==
    /\ IsFiniteSet(S) /\ \A c \in S : c \in ChartRecords
    /\ \A c, d \in S : c.persist = d.persist => c = d

LEMMA FiniteIs ==
    ASSUME NEW S PROVE Chart!IsFiniteSet(S) = IsFiniteSet(S)
  BY Zenon DEF Chart!IsFiniteSet, IsFiniteSet

LEMMA FiniteIsNext == Chart!IsFiniteSet(charts)' = IsFiniteSet(charts')
  BY Zenon DEF Chart!IsFiniteSet, IsFiniteSet

LEMMA FreeNameIs ==
    ASSUME AreCharts(charts)
    PROVE  Chart!FreeName \in Nat /\ \A c \in charts : c.persist # Chart!FreeName
<1> DEFINE n == Cardinality(charts)
           K == 1 .. n + 1
           T == {k \in K : \A c \in charts : c.persist # k}
           P(k) == /\ \A c \in charts : c.persist # k
                   /\ \A j \in 1 .. (k - 1) : \E c \in charts : c.persist = j
<1>1. Chart!Cardinality(charts) = n
  BY Zenon DEF Chart!Cardinality, Cardinality
<1>2. n \in Nat /\ IsFiniteSet(charts)
  BY FS_CardinalityType DEF AreCharts
<1> HIDE DEF n
<1>3. T # {}
  <2>1. SUFFICES ASSUME \A k \in K : \E c \in charts : c.persist = k PROVE FALSE
    OBVIOUS
  <2> DEFINE f == [k \in K |-> CHOOSE c \in charts : c.persist = k]
  <2>2. \A k \in K : f[k] \in charts /\ f[k].persist = k
    BY <2>1
  <2>3. f \in [K -> charts]
    BY <2>2
  <2> HIDE DEF f
  <2>4. IsFiniteSet(K) /\ Cardinality(K) = n + 1
    <3>1. 1 \in Int /\ n + 1 \in Int /\ ~(1 > n + 1) /\ n + 1 - 1 + 1 = n + 1
      BY <1>2
    <3>2. QED
      BY <3>1, FS_Interval
  <2>5. PICK j \in K, k \in K : j # k /\ f[j] = f[k]
    <3>1. Cardinality(charts) < Cardinality(K)
      BY <1>2, <2>4 DEF n
    <3>2. QED
      BY <1>2, <2>3, <2>4, <3>1, FS_PigeonHole
  <2>6. QED
    BY <2>2, <2>5
<1>4. PICK k \in T : \A j \in T : k <= j
  <2>1. T \subseteq Nat
    BY <1>2
  <2>2. QED
    BY <1>3, <2>1, LeastOfNat
<1>5. ASSUME NEW j \in 1 .. (k - 1) PROVE \E c \in charts : c.persist = j
  <2>1. k \in 1 .. n + 1 /\ k \in Int
    BY <1>2
  <2>2. j \in K /\ ~(k <= j)
    BY <1>2, <2>1
  <2>3. QED
    BY <1>4, <2>2
<1>6. k \in K /\ P(k)
  BY <1>5
<1>7. Chart!FreeName = CHOOSE m \in K : P(m)
  BY <1>1 DEF Chart!FreeName
<1> HIDE DEF P, K
<1>8. Chart!FreeName \in K /\ P(Chart!FreeName)
  BY <1>6, <1>7
<1>9. QED
  BY <1>2, <1>8 DEF P, K

\* The objects change: of what a macro has set only the name of its object does.
LEMMA ObjectsLeave ==
    ASSUME ChartFine, AreCharts(charts'),
           UNCHANGED <<diagram, source, shows, titles, scales, axis>>
    PROVE  ChartLeaves({"name"})
<1>1. Chart!ChartOK'
  <2>1. Chart!IsFiniteSet(charts)'
    BY FiniteIsNext DEF AreCharts
  <2>2. QED
    BY <2>1 DEF ChartFine, Chart!ChartOK, Chart!Titles, Chart!Scales, Chart!NoAxis, AreCharts,
       ChartRecords
<1>2. /\ Chart!HasAxis' = Chart!HasAxis
      /\ \A u \in {"max", "min", "minor", "major", "maxAuto", "minAuto", "minorAuto", "majorAuto",
                   "crossesAt", "scaleType", "crosses"} : Chart!ChartRead(u)' = Chart!ChartRead(u)
  BY ScalesStay
<1>3. /\ Chart!ChartRead("axis.hasTitle")' = Chart!ChartRead("axis.hasTitle")
      /\ Chart!ChartRead("axis.text")' = Chart!ChartRead("axis.text")
  BY AxisTitleSame
<1>4. \A u \in Chart!ChartWhats \ {"name"} : Chart!ChartRead(u)' = Chart!ChartRead(u)
  BY <1>2, <1>3, ChartSame DEF Chart!ChartWhats, Chart!AxisWhats
<1>5. QED
  BY <1>1, <1>2, <1>4 DEF ChartLeaves

LEMMA ObjectsKeep ==
    ASSUME ChartFine, NEW S, AreCharts(S), NEW held, Chart!PutCharts(S, held),
           Chart!Changes({"name"})
    PROVE  ChartFine'
<1> DEFINE C == {"name"}
<1>1. ChartLeaves(C)
  BY ObjectsLeave DEF Chart!PutCharts
<1>2. asked' = {a \in asked : a.what \notin C}
  BY DEF Chart!Changes, Chart!Except
<1> HIDE DEF C
<1>3. QED
  BY <1>1, <1>2, ChartOther

LEMMA ChartsAre ==
    ASSUME ChartFine PROVE AreCharts(charts)
  BY FiniteIs DEF ChartFine, Chart!ChartOK, AreCharts, ChartRecords

LEMMA ChartsAdded ==
    ASSUME NEW S, AreCharts(S), NEW c \in ChartRecords, \A d \in S : d.persist # c.persist
    PROVE  AreCharts(S \cup {c})
<1>1. IsFiniteSet(S \cup {c})
  BY FS_AddElement DEF AreCharts
<1>2. QED
  BY <1>1 DEF AreCharts

LEMMA ChartsLess ==
    ASSUME NEW S, AreCharts(S), NEW T \in SUBSET S PROVE AreCharts(T)
<1>1. IsFiniteSet(T)
  BY FS_Subset DEF AreCharts
<1>2. QED
  BY <1>1 DEF AreCharts

\* A chart's name changes: it is stored where it was.
LEMMA ChartsRenamed ==
    ASSUME NEW S, AreCharts(S), NEW c \in S, NEW n \in {"persist", "mine"}
    PROVE  /\ AreCharts((S \ {c}) \cup {[c EXCEPT !.name = n]})
           /\ [c EXCEPT !.name = n].persist = c.persist /\ [c EXCEPT !.name = n].name = n
           /\ \A d \in S \ {c} : d.persist # c.persist
<1> DEFINE e == [c EXCEPT !.name = n]
           T == S \ {c}
<1>1. e \in ChartRecords /\ e.persist = c.persist /\ e.name = n
  BY DEF AreCharts, ChartRecords
<1>2. AreCharts(T)
  BY ChartsLess
<1>3. \A d \in T : d.persist # c.persist
  BY DEF AreCharts
<1> HIDE DEF e, T
<1>4. AreCharts(T \cup {e})
  BY <1>1, <1>2, <1>3, ChartsAdded
<1>5. QED
  BY <1>1, <1>3, <1>4 DEF e, T

LEMMA AddObjectKeeps ==
    ASSUME ChartFine, Chart!AddObject PROVE ChartFine'
<1> DEFINE c == [Chart!Own EXCEPT !.persist = Chart!FreeName]
<1>1. AreCharts(charts)
  BY ChartsAre
<1>2. Chart!FreeName \in Nat /\ \A d \in charts : d.persist # Chart!FreeName
  BY <1>1, FreeNameIs
<1>3. c \in ChartRecords /\ c.persist = Chart!FreeName
  BY <1>2 DEF Chart!Own, ChartRecords
<1> HIDE DEF c
<1>4. AreCharts(charts \cup {c})
  BY <1>1, <1>2, <1>3, ChartsAdded
<1>5. Chart!Changes({"name"})
  BY DEF Chart!AddObject
<1>6. \/ Chart!PutCharts(charts \cup {c}, Chart!FreeName)
        \/ Chart!PutCharts(charts \cup {c}, Chart!NoObject)
      \/ Chart!PutCharts(charts, Chart!NoObject)
  BY DEF Chart!AddObject, c
<1>7. QED
  BY <1>1, <1>4, <1>5, <1>6, ObjectsKeep

LEMMA GetObjectKeeps ==
    ASSUME ChartFine, NEW n, Chart!GetObject(n) PROVE ChartFine'
<1>1. CASE \E c \in charts :
        /\ Chart!PutCharts((charts \ {c}) \cup {[c EXCEPT !.name = "persist"]}, n)
                             /\ Chart!Changes({"name"})
  <2>1. PICK c \in charts :
          /\ Chart!PutCharts((charts \ {c}) \cup {[c EXCEPT !.name = "persist"]}, n)
                            /\ Chart!Changes({"name"})
    BY <1>1
  <2>2. AreCharts((charts \ {c}) \cup {[c EXCEPT !.name = "persist"]})
    BY ChartsAre, ChartsRenamed
  <2>3. QED
    BY <2>1, <2>2, ObjectsKeep
<1>2. CASE UNCHANGED Chart!chartVars /\ Chart!Throws
  BY <1>2, ChartRefused DEF Chart!Throws
<1>3. QED
  BY <1>1, <1>2 DEF Chart!GetObject, Chart!Clobbers

LEMMA TheObjectIs ==
    ASSUME Chart!HasObject PROVE Chart!TheObject \in charts /\ Chart!TheObject.persist = object
  BY DEF Chart!HasObject, Chart!TheObject

LEMMA SetObjectNameKeeps ==
    ASSUME ChartFine, Chart!SetObjectName("mine") PROVE ChartFine'
<1> DEFINE C == {"name"}
           T == Chart!TheObject
           e == [T EXCEPT !.name = "mine"]
<1>1. /\ charts' = (charts \ {T}) \cup {e} /\ object' = object
      /\ UNCHANGED <<diagram, source, shows, titles, scales, axis>>
      /\ asked' = {a \in asked : a.what \notin C} \cup {[what |-> "name", value |-> "mine"]}
  BY DEF Chart!SetObjectName, Chart!PutCharts, Chart!Wrote, Chart!WroteOver, Chart!Except
<1>2. T \in charts /\ T.persist = object
  BY TheObjectIs DEF Chart!SetObjectName
<1> HIDE DEF T
<1>3. /\ AreCharts((charts \ {T}) \cup {e}) /\ e.persist = T.persist /\ e.name = "mine"
      /\ \A d \in charts \ {T} : d.persist # T.persist
  BY <1>2, ChartsAre, ChartsRenamed
<1> HIDE DEF e
<1>4. ChartLeaves(C)
  BY <1>1, <1>3, ObjectsLeave
<1>5. Chart!TheObject' = e
  <2>1. e \in charts' /\ e.persist = object' /\ \A d \in charts' : d.persist = object' => d = e
    BY <1>1, <1>2, <1>3
  <2>2. Chart!TheObject' = CHOOSE d \in charts' : d.persist = object'
    BY DEF Chart!TheObject
  <2>3. QED
    BY <2>1, <2>2
<1>6. Chart!ChartRead("name")' = "mine"
  BY <1>3, <1>5, ChartReadsNext DEF Chart!GetObjectName
<1>7. "name" \in Chart!ChartWhats /\ "name" \notin Chart!AxisWhats
  BY DEF Chart!ChartWhats, Chart!AxisWhats
<1> HIDE DEF C
<1>8. QED
  BY <1>1, <1>4, <1>6, <1>7, ChartSet

LEMMA DeleteObjectKeeps ==
    ASSUME ChartFine, Chart!DeleteObject \/ Chart!DeleteObjects PROVE ChartFine'
<1>1. AreCharts(charts \ {Chart!TheObject}) /\ AreCharts({c \in charts : c.sheet # "s1"})
  BY ChartsAre, ChartsLess
<1>2. QED
  BY <1>1, ObjectsKeep DEF Chart!DeleteObject, Chart!DeleteObjects

\* What a macro has set of a chart reads as it was set, whatever it calls.
LEMMA ChartCallKeeps ==
    ASSUME ChartFine, Chart!ChartCall PROVE ChartFine'
<1>1. CASE Chart!SetsChart
  <2>1. CASE \E t \in Chart!ChartTypes : Chart!SetChartType(t)
    BY <2>1, SetChartTypeKeeps
  <2>2. CASE \E v \in {"rows", "columns", "other"} : Chart!SetPlotBy(v)
    BY <2>2, SetPlotByKeeps
  <2>3. CASE \E tall, r, c \in BOOLEAN, by \in {"none", "rows", "other"} :
          Chart!SetSourceData(tall, r, c, by)
    BY <2>3, SetSourceDataKeeps
  <2>4. CASE Chart!SetChartTypeUnknown \/ Chart!SeriesCall(0)
    BY <2>4, ChartRefused DEF Chart!SetChartTypeUnknown, Chart!SeriesCall, Chart!Throws
  <2>5. CASE \E b \in Chart!OnOff : Chart!SetHasTitle(b) \/ Chart!SetHasLegend(b)
    BY <2>5, ShowKeeps DEF Chart!OnOff
  <2>6. CASE Chart!SetText("t") \/ Chart!SetOrientation(45)
    BY <2>6, SetTextKeeps, SetOrientationKeeps
  <2>7. QED
    BY <1>1, <2>1, <2>2, <2>3, <2>4, <2>5, <2>6 DEF Chart!SetsChart
<1>2. CASE Chart!SetsAxis
  <2>1. CASE \/ \E type \in {"category", "value", "series", "other"},
                   group \in {"primary", "secondary", "other"} : Chart!CreateAxis(type, group)
             \/ Chart!EnumerateAxes
    BY <2>1, CreateAxisKeeps DEF Chart!EnumerateAxes
  <2>2. CASE Chart!AxisRefused
    BY <2>2, ChartRefused DEF Chart!AxisRefused, Chart!Throws
  <2>3. CASE Chart!DeleteAxis
    BY <2>3, DeleteAxisKeeps
  <2>4. CASE \E p \in DOMAIN Chart!AutoName : Chart!SetScale(p, 5) \/ \E b \in Chart!OnOff :
          Chart!SetScaleIsAuto(p, b)
    <3>1. DOMAIN Chart!AutoName = {"max", "min", "minor", "major"}
      BY DEF Chart!AutoName
    <3>2. QED
      BY <2>4, <3>1, SetScaleKeeps, SetScaleIsAutoKeeps DEF Chart!OnOff
  <2>5. CASE \E v \in {"linear", "logarithmic", "other"} : Chart!SetScaleType(v)
    BY <2>5, SetScaleTypeKeeps
  <2>6. CASE \E v \in {"automatic", "minimum", "maximum", "custom"} : Chart!SetCrosses(v)
    BY <2>6, SetCrossesKeeps
  <2>7. CASE Chart!SetCrossesAt(5)
    BY <2>7, SetCrossesAtKeeps
  <2>8. CASE \E b \in Chart!OnOff : Chart!SetAxisHasTitle(b)
    BY <2>8, AxisHasTitleKeeps DEF Chart!OnOff
  <2>9. CASE Chart!SetAxisText("t")
    BY <2>9, SetAxisTextKeeps
  <2>10. QED
    BY <1>2, <2>1, <2>2, <2>3, <2>4, <2>5, <2>6, <2>7, <2>8, <2>9 DEF Chart!SetsAxis
<1>3. CASE Chart!SetsObjects
  <2>1. CASE Chart!AddObject
    BY <2>1, AddObjectKeeps
  <2>2. CASE Chart!GetObject(1) \/ Chart!GetObject(2)
    BY <2>2, GetObjectKeeps
  <2>3. CASE Chart!SetObjectName("mine")
    BY <2>3, SetObjectNameKeeps
  <2>4. CASE Chart!DeleteObject \/ Chart!DeleteObjects
    BY <2>4, DeleteObjectKeeps
  <2>5. CASE Chart!ActivateObject \/ Chart!ChartsRefused
    BY <2>5, ChartRefused DEF Chart!ActivateObject, Chart!ChartsRefused, Chart!Throws, Chart!Answers
  <2>6. QED
    BY <1>3, <2>1, <2>2, <2>3, <2>4, <2>5 DEF Chart!SetsObjects
<1>4. QED
  BY <1>1, <1>2, <1>3 DEF Chart!ChartCall
=============================================================================
